---------------------------- MODULE MediaProofs ----------------------------
(***************************************************************************)
(* Proofs about the parts of MCMedia, for every number of calls and every  *)
(* depth of queue, length of frame and bound.                              *)
(*                                                                         *)
(* The parts share no variable: what a part keeps in all its own steps, it *)
(* keeps in the steps of the others, which leave its variables alone.      *)
(***************************************************************************)
EXTENDS MCMedia, SequenceTheorems, SequenceFacts, TLAPS

\* Every step of the media run is a step of each part or leaves the part alone.
LEMMA PartSteps ==
    ASSUME [Next]_vars
    PROVE  /\ [Stall!Next]_stallVars /\ [Rate!Next]_rateVars /\ [Rec!Next]_recVars
           /\ [Ext!Next]_extVars /\ [Path!Next]_pathVars /\ [Voice!Next]_voiceVars
BY DEF Next, vars, stallVars, rateVars, recVars, extVars, pathVars, voiceVars

-----------------------------------------------------------------------------
(* The Android driver.                                                     *)

\* Counting round a ring of n.
LEMMA Round ==
    ASSUME NEW n \in Nat \ {0}, NEW j \in 0 .. n - 1
    PROVE  j % n = j /\ (n + j) % n = j
OBVIOUS

\* The ring is the whole of its n buffers.
LEMMA RingSeq ==
    ASSUME NEW n \in Nat \ {0}, NEW i \in Nat
    PROVE  Voice!Ring(i, n) \in Seq(Nat) /\ Len(Voice!Ring(i, n)) = n
<1>1. \A k \in 1 .. n : (i + k - 1) % n \in Nat
  OBVIOUS
<1> QED BY <1>1 DEF Voice!Ring

\* Taking the head of the ring and putting it back turns the ring by one.
LEMMA RingTurns ==
    ASSUME NEW n \in Nat \ {0}, NEW i \in 0 .. n - 1
    PROVE  /\ (i + 1) % n \in 0 .. n - 1
           /\ Append(Tail(Voice!Ring(i, n)), i) = Voice!Ring((i + 1) % n, n)
<1> DEFINE r == Voice!Ring(i, n)
           j == (i + 1) % n
           s == Voice!Ring(j, n)
           t == Append(Tail(r), i)
<1>0. (i + 1 < n \/ i + 1 = n) /\ i \in Nat
  OBVIOUS
<1>1. j \in 0 .. n - 1 /\ (i + 1 < n => j = i + 1) /\ (i + 1 = n => j = 0)
  <2>1. CASE i + 1 < n
    BY <2>1, Round
  <2>2. CASE i + 1 = n
    BY <2>2, Round
  <2> QED BY <2>1, <2>2
<1> HIDE DEF j
<1>2. r \in Seq(Nat) /\ Len(r) = n /\ s \in Seq(Nat) /\ Len(s) = n
  <2>1. j \in Nat
    BY <1>1
  <2> QED BY <1>0, <2>1, RingSeq
<1>3. t \in Seq(Nat) /\ Len(t) = n /\ t[n] = i /\ \A k \in 1 .. n - 1 : t[k] = r[k + 1]
  <2> HIDE DEF r
  <2>1. r # <<>> /\ Tail(r) \in Seq(Nat) /\ Len(Tail(r)) = n - 1
    BY <1>2
  <2> QED BY <1>2, <2>1
<1>4. ASSUME NEW k \in 1 .. n PROVE t[k] = s[k]
  <2>1. s[k] = (j + k - 1) % n
    BY <1>1 DEF Voice!Ring
  <2>2. CASE k = n /\ i + 1 < n
    <3>1. (n + i) % n = i
      BY Round
    <3>2. j + k - 1 = n + i
      BY <1>1, <2>2
    <3> QED BY <1>3, <2>1, <2>2, <3>1, <3>2
  <2>3. CASE k = n /\ i + 1 = n
    <3>1. i % n = i /\ j + k - 1 = i
      BY <1>1, <2>3, Round
    <3> QED BY <1>3, <2>1, <2>3, <3>1
  <2>4. CASE k < n
    <3>1. t[k] = r[k + 1] /\ k + 1 \in 1 .. n
      BY <1>3, <2>4
    <3>2. r[k + 1] = (i + (k + 1) - 1) % n
      BY <3>1 DEF Voice!Ring
    <3>3. i + (k + 1) - 1 = i + k
      OBVIOUS
    <3>4. CASE i + 1 < n
      <4>1. j + k - 1 = i + k
        BY <1>1, <3>4
      <4> QED BY <2>1, <3>1, <3>2, <3>3, <4>1
    <3>5. CASE i + 1 = n
      <4>1. j + k - 1 = k - 1 /\ i + k = n + (k - 1) /\ k - 1 \in 0 .. n - 1
        BY <1>1, <3>5, <2>4
      <4>2. (n + (k - 1)) % n = k - 1 /\ (k - 1) % n = k - 1
        BY <4>1, Round
      <4> QED BY <2>1, <3>1, <3>2, <3>3, <4>1, <4>2
    <3> QED BY <1>0, <3>4, <3>5
  <2>5. k = n \/ k < n
    OBVIOUS
  <2> QED BY <1>0, <2>2, <2>3, <2>4, <2>5
<1> HIDE DEF t, s
<1>5. t = s
  BY <1>2, <1>3, <1>4, SeqEqual
<1> QED BY <1>1, <1>5 DEF t, s, j, r

\* The first n buffers of the ring from buffer 0.
LEMMA FirstBuffers ==
    ASSUME NEW N \in Nat \ {0}, NEW n \in 0 .. N
    PROVE  /\ SubSeq(Voice!Ring(0, N), 1, n) \in Seq(Nat)
           /\ Len(SubSeq(Voice!Ring(0, N), 1, n)) = n
           /\ n = N => SubSeq(Voice!Ring(0, N), 1, n) = Voice!Ring(0, N)
<1> DEFINE r == Voice!Ring(0, N)
           q == SubSeq(r, 1, n)
<1>1. r \in Seq(Nat) /\ Len(r) = N
  BY RingSeq
<1> HIDE DEF r
<1>2. q \in Seq(Nat) /\ Len(q) = n /\ \A k \in 1 .. n : q[k] = r[k]
  <2>1. \A k \in 1 .. n : r[k] \in Nat
    BY <1>1
  <2> QED BY <1>1, <2>1
<1> HIDE DEF q
<1>3. n = N => q = r
  BY <1>1, <1>2, SeqEqual
<1> QED BY <1>2, <1>3 DEF q, r

\* What the driver keeps.  SpeakerSurvives alone is not inductive: each buffer the
\* queue is short of has cost the device two refusals.
VoiceInv ==
    /\ Voice!TypeOK /\ recq \in Seq(Nat) /\ playq \in Seq(Nat)
    /\ Voice!CaptureInOrder /\ Voice!PlaybackInOrder
    /\ playing => 2 * N_PLAY_BUFFERS <= refused + 2 * Len(playq)

\* The driver begins with neither stream.
LEMMA VoiceBegins == Voice!Init => VoiceInv
<1> SUFFICES ASSUME Voice!Init PROVE VoiceInv
  OBVIOUS
<1>1. <<>> \in Seq(Nat) /\ Len(<<>>) = 0
  OBVIOUS
<1>2. /\ 0 \in 0 .. (N_REC_BUFFERS - 1) /\ 0 \in 0 .. (N_PLAY_BUFFERS - 1)
      /\ 0 <= N_REC_BUFFERS /\ 0 <= N_PLAY_BUFFERS /\ 0 \in 0 .. (MaxRefusals + 1)
  BY MediaAssumption
<1> QED BY ONLY <1>1, <1>2, Voice!Init DEF Voice!Init, VoiceInv, Voice!TypeOK,
           Voice!CaptureInOrder, Voice!PlaybackInOrder

\* start_recording() leaves a whole ring or a stopped recorder.
LEMMA RecordingStarts ==
    ASSUME Voice!start_recording
    PROVE  /\ recid' = 0 /\ recq' \in Seq(Nat) /\ Len(recq') <= N_REC_BUFFERS
           /\ rec' \in {"recording", "stopped"}
           /\ rec' = "recording" => recq' = Voice!Ring(0, N_REC_BUFFERS)
<1>1. PICK n \in 0 .. N_REC_BUFFERS :
         /\ recq' = SubSeq(Voice!Ring(0, N_REC_BUFFERS), 1, n)
         /\ rec' \in IF n = N_REC_BUFFERS THEN {"recording", "stopped"} ELSE {"stopped"}
  BY DEF Voice!start_recording
<1>2. N_REC_BUFFERS \in Nat \ {0}
  BY MediaAssumption
<1>3. /\ recq' \in Seq(Nat) /\ Len(recq') = n
      /\ n = N_REC_BUFFERS => recq' = Voice!Ring(0, N_REC_BUFFERS)
  BY <1>1, <1>2, FirstBuffers
<1> QED BY <1>1, <1>2, <1>3 DEF Voice!start_recording

\* start_player() adds to the queue what it had room for.
LEMMA PlayerStarts ==
    ASSUME NEW q \in Seq(Nat), Voice!start_player(q)
    PROVE  /\ playid' = 0 /\ playq' \in Seq(Nat)
           /\ Len(playq') <= N_PLAY_BUFFERS /\ Len(playq') >= Len(q)
           /\ q = <<>> /\ Len(playq') = N_PLAY_BUFFERS
                 => playq' = Voice!Ring(0, N_PLAY_BUFFERS)
<1>1. PICK n \in 0 .. N_PLAY_BUFFERS :
         /\ Len(q) + n <= N_PLAY_BUFFERS
         /\ playq' = q \o SubSeq(Voice!Ring(0, N_PLAY_BUFFERS), 1, n)
  BY DEF Voice!start_player
<1> DEFINE w == SubSeq(Voice!Ring(0, N_PLAY_BUFFERS), 1, n)
<1>2. N_PLAY_BUFFERS \in Nat \ {0}
  BY MediaAssumption
<1>3. /\ w \in Seq(Nat) /\ Len(w) = n
      /\ n = N_PLAY_BUFFERS => w = Voice!Ring(0, N_PLAY_BUFFERS)
  BY <1>2, FirstBuffers
<1> HIDE DEF w
<1>4. playq' = q \o w
  BY <1>1 DEF w
<1>5. playq' \in Seq(Nat) /\ Len(playq') = Len(q) + n /\ Len(q) \in Nat
  <2>1. w \in Seq(Nat) /\ Len(w) = n
    BY <1>3
  <2>2. q \o w \in Seq(Nat) /\ Len(q \o w) = Len(q) + Len(w)
    BY ONLY <2>1, q \in Seq(Nat)
  <2>3. Len(q) \in Nat
    BY ONLY q \in Seq(Nat)
  <2> QED BY ONLY <1>4, <2>1, <2>2, <2>3
<1>6. q = <<>> => playq' = w /\ Len(q) = 0
  BY <1>3, <1>4, ConcatEmptySeq
<1> QED BY <1>1, <1>2, <1>3, <1>5, <1>6 DEF Voice!start_player

\* Every step of the driver keeps both rings.
LEMMA VoiceSteps == VoiceInv /\ [Voice!Next]_voiceVars => VoiceInv'
<1> SUFFICES ASSUME VoiceInv, [Voice!Next]_voiceVars PROVE VoiceInv'
  OBVIOUS
<1> DEFINE R == N_REC_BUFFERS
           P == N_PLAY_BUFFERS
<1>0. R \in Nat \ {0} /\ P \in Nat \ {0} /\ MaxRefusals \in Nat
  BY MediaAssumption
<1>t. /\ engine \in BOOLEAN /\ playing \in BOOLEAN
      /\ rec \in {"none", "recording", "stopped"}
      /\ recid \in 0 .. (R - 1) /\ playid \in 0 .. (P - 1)
      /\ recq \in Seq(Nat) /\ Len(recq) <= R /\ playq \in Seq(Nat) /\ Len(playq) <= P
      /\ refused \in 0 .. (MaxRefusals + 1)
      /\ rec = "recording" => recq = Voice!Ring(recid, R)
      /\ playing /\ refused = 0 => playq = Voice!Ring(playid, P)
      /\ playing => 2 * P <= refused + 2 * Len(playq)
  BY DEF VoiceInv, Voice!TypeOK, Voice!CaptureInOrder, Voice!PlaybackInOrder
<1>i. ASSUME engine' \in BOOLEAN, playing' \in BOOLEAN,
             rec' \in {"none", "recording", "stopped"},
             recid' \in 0 .. (R - 1), playid' \in 0 .. (P - 1),
             recq' \in Seq(Nat), Len(recq') <= R, playq' \in Seq(Nat), Len(playq') <= P,
             refused' \in 0 .. (MaxRefusals + 1),
             rec' = "recording" => recq' = Voice!Ring(recid', R),
             playing' /\ refused' = 0 => playq' = Voice!Ring(playid', P),
             playing' => 2 * P <= refused' + 2 * Len(playq')
      PROVE  VoiceInv'
  BY <1>i DEF VoiceInv, Voice!TypeOK, Voice!CaptureInOrder, Voice!PlaybackInOrder
<1>e. <<>> \in Seq(Nat) /\ Len(<<>>) = 0
  OBVIOUS
<1> HIDE DEF R, P
<1>1. CASE Voice!vox_sles_vc_init
  BY <1>1, <1>t, <1>i DEF Voice!vox_sles_vc_init, Voice!recVars, Voice!playVars
<1>2. CASE Voice!vox_sles_vc_close
  BY <1>2, <1>t, <1>i DEF Voice!vox_sles_vc_close, Voice!recVars, Voice!playVars
<1>3. CASE Voice!recorder_alloc \/ Voice!RecRefused
  <2>1. Voice!start_recording /\ UNCHANGED <<engine, playing, playq, playid, refused>>
    BY <1>3 DEF Voice!recorder_alloc, Voice!RecRefused, Voice!playVars
  <2>2. /\ recid' = 0 /\ recq' \in Seq(Nat) /\ Len(recq') <= R
        /\ rec' \in {"recording", "stopped"}
        /\ rec' = "recording" => recq' = Voice!Ring(0, R)
    BY <2>1, RecordingStarts DEF R
  <2>3. recid' \in 0 .. (R - 1)
    BY <1>0, <2>2
  <2> QED BY <1>t, <1>i, <2>1, <2>2, <2>3
<1>4. CASE Voice!RecRequeued
  <2>1. /\ rec = "recording" /\ recq # <<>> /\ recq' = Append(Tail(recq), recid)
        /\ recid' = (recid + 1) % R
        /\ UNCHANGED <<engine, rec, playing, playq, playid, refused>>
    BY <1>4 DEF Voice!RecRequeued, Voice!playVars, R
  <2>2. recid' \in 0 .. (R - 1) /\ recq' = Voice!Ring(recid', R)
    BY <1>0, <1>t, <2>1, RingTurns
  <2>3. recid' \in Nat
    BY <1>0, <2>2
  <2>4. recq' \in Seq(Nat) /\ Len(recq') <= R
    BY <1>0, <2>2, <2>3, RingSeq
  <2> QED BY <1>t, <1>i, <2>1, <2>2, <2>4
<1>5. CASE Voice!ausrc_destructor
  <2>1. 0 \in 0 .. (R - 1) /\ Len(<<>>) <= R
    BY <1>0, <1>e
  <2> QED BY <1>5, <1>t, <1>i, <1>e, <2>1 DEF Voice!ausrc_destructor, Voice!playVars
<1>6. CASE Voice!player_alloc
  <2>1. /\ Voice!start_player(<<>>) /\ Len(playq') = P /\ playing' /\ refused' = 0
        /\ UNCHANGED <<engine, rec, recq, recid>>
    BY <1>6 DEF Voice!player_alloc, Voice!recVars, P
  <2>2. playid' = 0 /\ playq' \in Seq(Nat) /\ playq' = Voice!Ring(0, P)
    BY <1>e, <2>1, PlayerStarts DEF P
  <2>3. 0 \in 0 .. (P - 1) /\ 2 * P <= refused' + 2 * Len(playq') /\ Len(playq') <= P
        /\ refused' \in 0 .. (MaxRefusals + 1)
    BY <1>0, <2>1
  <2>4. playing' \in BOOLEAN
    BY <1>6 DEF Voice!player_alloc
  <2> QED BY <1>t, <1>i, <2>1, <2>2, <2>3, <2>4
<1>7. CASE Voice!PlayRequeued
  <2>1. /\ playing /\ playq # <<>> /\ playq' = Append(Tail(playq), playid)
        /\ playid' = (playid + 1) % P
        /\ UNCHANGED <<engine, rec, recq, recid, playing, refused>>
    BY <1>7 DEF Voice!PlayRequeued, Voice!recVars, P
  <2>2. playq' \in Seq(Nat) /\ Len(playq') = Len(playq)
    <3>1. playid \in Nat /\ Tail(playq) \in Seq(Nat) /\ Len(Tail(playq)) = Len(playq) - 1
      BY <1>0, <1>t, <2>1
    <3> QED BY <1>t, <2>1, <3>1
  <2>3. playid' \in 0 .. (P - 1)
    BY <1>0, <1>t, <2>1, RingTurns
  <2>4. refused = 0 => playq' = Voice!Ring(playid', P)
    BY <1>0, <1>t, <2>1, RingTurns
  <2> QED BY <1>t, <1>i, <2>1, <2>2, <2>3, <2>4
<1>8. CASE Voice!PlayRefused
  <2>1. /\ playing /\ playq # <<>> /\ refused < MaxRefusals
        /\ Voice!start_player(Tail(playq))
        /\ refused' = refused + 1 + (IF Len(playq') < P THEN 1 ELSE 0)
        /\ UNCHANGED <<engine, rec, recq, recid, playing>>
    BY <1>8 DEF Voice!PlayRefused, Voice!recVars, Voice!Spurious, P
  <2>2. Tail(playq) \in Seq(Nat) /\ Len(Tail(playq)) = Len(playq) - 1 /\ Len(playq) \in Nat
    BY <1>t, <2>1
  <2>3. /\ playid' = 0 /\ playq' \in Seq(Nat)
        /\ Len(playq') <= P /\ Len(playq') >= Len(Tail(playq))
    BY <2>1, <2>2, PlayerStarts DEF P
  <2>4. Len(playq') \in Nat
    BY <2>3
  <2>5. /\ refused' \in 0 .. (MaxRefusals + 1) /\ refused' # 0
        /\ 2 * P <= refused' + 2 * Len(playq') /\ 0 \in 0 .. (P - 1)
    BY <1>0, <1>t, <2>1, <2>2, <2>3, <2>4
  <2> QED BY <1>t, <1>i, <2>1, <2>3, <2>5
<1>9. CASE Voice!auplay_destructor
  <2>1. 0 \in 0 .. (P - 1) /\ Len(<<>>) <= P /\ 0 \in 0 .. (MaxRefusals + 1)
    BY <1>0, <1>e
  <2> QED BY <1>9, <1>t, <1>i, <1>e, <2>1 DEF Voice!auplay_destructor, Voice!recVars
<1>10. CASE UNCHANGED voiceVars
  BY <1>10, <1>t, <1>i DEF voiceVars
<1> QED BY <1>1, <1>2, <1>3, <1>4, <1>5, <1>6, <1>7, <1>8, <1>9, <1>10 DEF Voice!Next

\* For every depth of the rings: the capture callback touches the buffer that has just
\* completed, whatever was refused; the playback callback does until the device first
\* refuses a buffer, and no further is promised of it; and the speaker falls silent for
\* good only after refusals enough for two whole rings.
THEOREM DriverIsSound == Spec => []DriverSound
<1>1. Init => VoiceInv
  BY VoiceBegins DEF Init
<1>2. VoiceInv /\ [Next]_vars => VoiceInv'
  BY PartSteps, VoiceSteps
<1>3. VoiceInv => DriverSound
  <2> SUFFICES ASSUME VoiceInv PROVE Voice!SpeakerSurvives
    BY DEF VoiceInv, DriverSound
  <2>1. playq = <<>> => Len(playq) = 0
    OBVIOUS
  <2>2. refused \in Nat /\ N_PLAY_BUFFERS \in Nat
    BY MediaAssumption DEF VoiceInv, Voice!TypeOK
  <2> QED BY <2>1, <2>2 DEF VoiceInv, Voice!SpeakerSurvives
<1> QED BY <1>1, <1>2, <1>3, PTL DEF Spec

-----------------------------------------------------------------------------
(* Devices and filters.                                                    *)

CallPath == [state : {"none", "early", "established", "held"},
             src : Path!Devices, play : Path!Devices]

\* A call has the selected device of every direction no switch passed it over in;
\* early and held calls too, since they may be answered or resumed next.
CallsFollow ==
    \A c \in PathCalls : \A d \in Path!Directions :
        call[c].state # "none" /\ d \notin missed[c] => call[c][d] \in {conf[d], Path!Closed}

\* Each canceller belongs to a mode of its own, the suppressor to a path without one.
Cancellers ==
    /\ "vox_aec" \in filters =>
          acfg.aec_mode = "suppressor" /\ ~(hw /\ conf["src"].mod = "driver")
    /\ "webrtc_aec" \in filters => acfg.aec_mode = "webrtc"

PathInv ==
    /\ Path!TypeOK /\ Path!FiltersAsConfigured /\ Cancellers /\ CallsFollow
    /\ ~up => filters = {} /\ \A c \in PathCalls : call[c].state = "none"

\* Nothing is selected, enabled or up to begin with.
LEMMA PathBegins == Path!Init => PathInv
<1> SUFFICES ASSUME Path!Init PROVE PathInv
  OBVIOUS
<1>1. Path!Closed \in Path!Devices /\ Path!NoCall \in CallPath /\ Path!NoCall.state = "none"
  BY DEF Path!Closed, Path!Devices, Path!NoCall, CallPath, Path!Default
<1>2. conf \in [Path!Directions -> Path!Devices]
  BY DEF Path!Init, Path!Devices
<1>3. Path!TypeOK
  BY <1>1, <1>2 DEF Path!Init, Path!TypeOK, CallPath, Path!Modes
<1> QED BY <1>1, <1>3 DEF PathInv, Path!Init, Path!FiltersAsConfigured, Cancellers, CallsFollow

\* A switch of the directions ds reaches the calls or is noted as missed.
LEMMA SwitchFollows ==
    ASSUME PathInv, NEW ds \in SUBSET Path!Directions, Path!Switched(ds),
           conf' \in [Path!Directions -> Path!Devices],
           \A d \in Path!Directions \ ds : conf'[d] = conf[d]
    PROVE  /\ call' \in [PathCalls -> CallPath]
           /\ missed' \in [PathCalls -> SUBSET Path!Directions]
           /\ CallsFollow'
           /\ \A c \in PathCalls : call'[c].state = call[c].state
<1>0. Path!Directions = {"src", "play"} /\ Path!Closed \in Path!Devices
  BY DEF Path!Directions, Path!Closed, Path!Devices, Path!Default
<1>1. /\ call \in [PathCalls -> CallPath] /\ missed \in [PathCalls -> SUBSET Path!Directions]
      /\ conf \in [Path!Directions -> Path!Devices] /\ CallsFollow
  BY DEF PathInv, Path!TypeOK, CallPath
<1>2. /\ DOMAIN call' = PathCalls /\ call' = [c \in PathCalls |-> call'[c]]
      /\ \A c \in PathCalls : call'[c] \in Path!update_call_device(c, ds)
      /\ missed' = [c \in PathCalls |-> IF call[c].state \in {"early", "held"}
                                        THEN missed[c] \cup ds ELSE missed[c] \ ds]
  BY DEF Path!Switched
<1>3. missed' \in [PathCalls -> SUBSET Path!Directions]
  BY <1>1, <1>2
<1>4. ASSUME NEW c \in PathCalls
      PROVE  /\ call'[c] \in CallPath /\ call'[c].state = call[c].state
             /\ \A d \in Path!Directions :
                  call'[c].state # "none" /\ d \notin missed'[c]
                     => call'[c][d] \in {conf'[d], Path!Closed}
  <2>1. call[c] \in CallPath /\ missed[c] \in SUBSET Path!Directions
    BY <1>1
  <2>2. \A d \in Path!Directions :
          call[c].state # "none" /\ d \notin missed[c] => call[c][d] \in {conf[d], Path!Closed}
    BY <1>1 DEF CallsFollow
  <2>3. CASE call[c].state # "established"
    <3>1. call'[c] = call[c]
      BY <1>2, <2>3 DEF Path!update_call_device
    <3>2. call[c].state \in {"none", "early", "held"}
      BY <2>1, <2>3 DEF CallPath
    <3>3. call[c].state # "none" => missed'[c] = missed[c] \cup ds
      BY <1>2, <3>2
    <3> QED BY <2>1, <2>2, <3>1, <3>3
  <2>4. CASE call[c].state = "established"
    <3>1. /\ call'[c].state = "established"
          /\ call'[c] \in [state : {"established"},
                           src   : {call[c].src, conf'["src"], Path!Closed},
                           play  : {call[c].play, conf'["play"], Path!Closed}]
          /\ call'[c].src \in IF "src" \in ds THEN {conf'["src"], Path!Closed} ELSE {call[c].src}
          /\ call'[c].play \in IF "play" \in ds THEN {conf'["play"], Path!Closed}
                               ELSE {call[c].play}
      BY <1>2, <2>4 DEF Path!update_call_device
    <3>2. call'[c] \in CallPath
      BY <1>0, <2>1, <3>1 DEF CallPath
    <3>3. missed'[c] = missed[c] \ ds
      BY <1>2, <2>4
    <3>4. "src" \notin missed'[c] => call'[c].src \in {conf'["src"], Path!Closed}
      BY <1>0, <2>2, <2>4, <3>1, <3>3
    <3>5. "play" \notin missed'[c] => call'[c].play \in {conf'["play"], Path!Closed}
      BY <1>0, <2>2, <2>4, <3>1, <3>3
    <3> QED BY <1>0, <2>4, <3>1, <3>2, <3>4, <3>5
  <2> QED BY <2>3, <2>4
<1>5. call' \in [PathCalls -> CallPath]
  BY <1>2, <1>4
<1> QED BY <1>3, <1>4, <1>5 DEF CallsFollow

\* Every step keeps devices, cancellers and calls in agreement.
LEMMA PathSteps == PathInv /\ [Path!Next]_pathVars => PathInv'
<1> SUFFICES ASSUME PathInv, [Path!Next]_pathVars PROVE PathInv'
  OBVIOUS
<1>0. /\ Path!Directions = {"src", "play"} /\ Path!Closed \in Path!Devices
      /\ Path!NoCall \in CallPath /\ Path!NoCall.state = "none"
  BY DEF Path!Directions, Path!Closed, Path!Devices, Path!Default, Path!NoCall, CallPath
<1>t. /\ build \in Builds /\ up \in BOOLEAN /\ hw \in BOOLEAN
      /\ conf \in [Path!Directions -> Path!Devices]
      /\ acfg \in [aec_mode : Path!Modes, ns : BOOLEAN, agc : BOOLEAN]
      /\ filters \subseteq {"vox_ns", "vox_agc", "vox_aec", "webrtc_aec"}
      /\ call \in [PathCalls -> CallPath] /\ missed \in [PathCalls -> SUBSET Path!Directions]
      /\ Path!FiltersAsConfigured /\ Cancellers /\ CallsFollow
      /\ ~up => filters = {} /\ \A c \in PathCalls : call[c].state = "none"
  BY DEF PathInv, Path!TypeOK, CallPath
<1>i. ASSUME build' \in Builds, up' \in BOOLEAN, hw' \in BOOLEAN,
             conf' \in [Path!Directions -> Path!Devices],
             acfg' \in [aec_mode : Path!Modes, ns : BOOLEAN, agc : BOOLEAN],
             filters' \subseteq {"vox_ns", "vox_agc", "vox_aec", "webrtc_aec"},
             call' \in [PathCalls -> CallPath],
             missed' \in [PathCalls -> SUBSET Path!Directions],
             Path!FiltersAsConfigured', Cancellers', CallsFollow',
             ~up' => filters' = {} /\ \A c \in PathCalls : call'[c].state = "none"
      PROVE  PathInv'
  BY <1>i DEF PathInv, Path!TypeOK, CallPath
<1>1. CASE Path!voxsdk_init
  <2>1. /\ ~up /\ up' = TRUE /\ build' = build /\ call' = call /\ missed' = missed
        /\ acfg' \in [aec_mode : Path!Modes, ns : BOOLEAN, agc : BOOLEAN]
        /\ hw' \in BOOLEAN
    BY <1>1 DEF Path!voxsdk_init, Path!modules_init
  <2>2. conf' \in [Path!Directions -> Path!Devices]
    <3>1. CASE build = "driverless"
      BY <1>1, <1>t, <3>1 DEF Path!voxsdk_init, Path!modules_init
    <3>2. CASE build # "driverless"
      <4>1. conf' = [d \in Path!Directions |->
                       [mod |-> "driver",
                        dev |-> IF build = "windows" /\ conf[d].dev = Path!Default
                                THEN "default" ELSE conf[d].dev]]
        BY <1>1, <3>2 DEF Path!voxsdk_init, Path!modules_init
      <4> QED BY <1>t, <4>1 DEF Path!Devices
    <3> QED BY <3>1, <3>2
  <2>3. filters' = (IF acfg'.ns THEN {"vox_ns"} ELSE {})
               \cup (IF acfg'.agc THEN {"vox_agc"} ELSE {})
               \cup (IF Path!vox_aec_suppressor_wanted(acfg'.aec_mode, hw', conf'["src"].mod)
                     THEN {"vox_aec"} ELSE {})
               \cup (IF build = "webrtc" /\ acfg'.aec_mode = "webrtc" THEN {"webrtc_aec"} ELSE {})
    BY <1>1 DEF Path!voxsdk_init, Path!vox_audio_processing_init
  <2>4. Cancellers'
    BY <2>3 DEF Cancellers, Path!vox_aec_suppressor_wanted
  <2>5. acfg'.ns \in BOOLEAN /\ acfg'.agc \in BOOLEAN
    BY <2>1
  <2>6. Path!FiltersAsConfigured'
    BY <2>3, <2>5 DEF Path!FiltersAsConfigured
  <2>7. CallsFollow'
    BY <1>t, <2>1 DEF CallsFollow
  <2>8. filters' \subseteq {"vox_ns", "vox_agc", "vox_aec", "webrtc_aec"}
    BY <2>3
  <2> QED BY <1>i, <1>t, <2>1, <2>2, <2>4, <2>6, <2>7, <2>8
<1>2. CASE Path!voxsdk_shutdown
  <2>1. /\ up' = FALSE /\ filters' = {} /\ call' = [c \in PathCalls |-> Path!NoCall]
        /\ missed' = [c \in PathCalls |-> {}] /\ UNCHANGED <<build, hw, conf, acfg>>
    BY <1>2 DEF Path!voxsdk_shutdown
  <2>2. CallsFollow' /\ \A c \in PathCalls : call'[c].state = "none"
    BY <1>0, <2>1 DEF CallsFollow
  <2>3. Path!FiltersAsConfigured' /\ Cancellers'
    BY <2>1 DEF Path!FiltersAsConfigured, Cancellers
  <2>4. call' \in [PathCalls -> CallPath] /\ missed' \in [PathCalls -> SUBSET Path!Directions]
    BY <1>0, <2>1
  <2> QED BY <1>i, <1>t, <2>1, <2>2, <2>3, <2>4
<1>3. ASSUME NEW c \in PathCalls, Path!NewCall(c) PROVE PathInv'
  <2> DEFINE n == [state |-> "early", src |-> conf["src"], play |-> conf["play"]]
  <2>1. up /\ call' = [call EXCEPT ![c] = n]
        /\ UNCHANGED <<build, up, hw, conf, acfg, filters, missed>>
    BY <1>3 DEF Path!NewCall
  <2>2. n \in CallPath /\ n["src"] = conf["src"] /\ n["play"] = conf["play"]
    BY <1>0, <1>t DEF CallPath
  <2> HIDE DEF n
  <2>3. CallsFollow'
    BY <1>0, <1>t, <2>1, <2>2 DEF CallsFollow
  <2>4. Path!FiltersAsConfigured' /\ Cancellers'
    BY <1>t, <2>1 DEF Path!FiltersAsConfigured, Cancellers
  <2>5. call' \in [PathCalls -> CallPath]
    BY <1>t, <2>1, <2>2
  <2> QED BY <1>i, <1>t, <2>1, <2>3, <2>4, <2>5
<1>4. ASSUME NEW c \in PathCalls, Path!MoveCall(c) PROVE PathInv'
  <2>1. PICK m \in Path!Moves : /\ call[c].state = m[1]
                                /\ call' = [call EXCEPT ![c].state = m[2]]
    BY <1>4 DEF Path!MoveCall
  <2>2. UNCHANGED <<build, up, hw, conf, acfg, filters, missed>>
    BY <1>4 DEF Path!MoveCall
  <2>3. call[c].state # "none" /\ m[2] \in {"established", "held"}
    BY <2>1 DEF Path!Moves
  <2> DEFINE n == [call[c] EXCEPT !.state = m[2]]
  <2>4. n \in CallPath /\ n["src"] = call[c]["src"] /\ n["play"] = call[c]["play"]
    BY <1>t, <2>3 DEF CallPath
  <2>5. call' = [call EXCEPT ![c] = n]
    BY <2>1
  <2> HIDE DEF n
  <2>6. CallsFollow'
    BY <1>0, <1>t, <2>2, <2>3, <2>4, <2>5 DEF CallsFollow
  <2>7. Path!FiltersAsConfigured' /\ Cancellers'
    BY <1>t, <2>2 DEF Path!FiltersAsConfigured, Cancellers
  <2>8. call' \in [PathCalls -> CallPath] /\ up
    BY <1>t, <2>3, <2>4, <2>5
  <2> QED BY <1>i, <1>t, <2>2, <2>6, <2>7, <2>8
<1>5. ASSUME NEW c \in PathCalls, Path!EndCall(c) PROVE PathInv'
  <2>1. /\ call[c].state # "none" /\ call' = [call EXCEPT ![c] = Path!NoCall]
        /\ missed' = [missed EXCEPT ![c] = {}]
        /\ UNCHANGED <<build, up, hw, conf, acfg, filters>>
    BY <1>5 DEF Path!EndCall
  <2>2. CallsFollow'
    BY <1>0, <1>t, <2>1 DEF CallsFollow
  <2>3. Path!FiltersAsConfigured' /\ Cancellers'
    BY <1>t, <2>1 DEF Path!FiltersAsConfigured, Cancellers
  <2>4. /\ call' \in [PathCalls -> CallPath] /\ up
        /\ missed' \in [PathCalls -> SUBSET Path!Directions]
    BY <1>0, <1>t, <2>1
  <2> QED BY <1>i, <1>t, <2>1, <2>2, <2>3, <2>4
<1>6. ASSUME NEW d \in Path!Directions, Path!set_device(d) PROVE PathInv'
  <2>1. PICK n \in Names \cup {Path!Default} : conf' = [conf EXCEPT ![d].dev = n]
    BY <1>6 DEF Path!set_device
  <2>2. up /\ Path!Switched({d}) /\ UNCHANGED <<build, up, hw, acfg, filters>>
    BY <1>6 DEF Path!set_device
  <2>3. /\ conf' \in [Path!Directions -> Path!Devices]
        /\ \A e \in Path!Directions \ {d} : conf'[e] = conf[e]
        /\ \A e \in Path!Directions : conf'[e].mod = conf[e].mod
    BY <1>t, <2>1 DEF Path!Devices
  <2>4. /\ call' \in [PathCalls -> CallPath]
        /\ missed' \in [PathCalls -> SUBSET Path!Directions] /\ CallsFollow'
    BY <2>2, <2>3, SwitchFollows
  <2>5. Path!FiltersAsConfigured' /\ Cancellers'
    BY <1>0, <1>t, <2>2, <2>3 DEF Path!FiltersAsConfigured, Cancellers
  <2> QED BY <1>i, <1>t, <2>2, <2>3, <2>4, <2>5
<1>7. ASSUME NEW on \in BOOLEAN, Path!use_external_fn(on) PROVE PathInv'
  <2> DEFINE mod == IF on THEN "external" ELSE "driver"
  <2>1. /\ up /\ conf' = [d \in Path!Directions |-> [mod |-> mod, dev |-> Path!Default]]
        /\ Path!Switched(Path!Directions)
        /\ filters' = IF ~on /\ hw THEN filters \ {"vox_aec"} ELSE filters
        /\ UNCHANGED <<build, up, hw, acfg>>
    BY <1>7 DEF Path!use_external_fn, Path!Enable
  <2>2. mod \in {"external", "driver"} /\ (on => mod = "external")
    OBVIOUS
  <2> HIDE DEF mod
  <2>3. /\ conf' \in [Path!Directions -> Path!Devices] /\ conf'["src"].mod = mod
    BY <1>0, <2>1, <2>2 DEF Path!Devices
  <2>4. /\ call' \in [PathCalls -> CallPath]
        /\ missed' \in [PathCalls -> SUBSET Path!Directions] /\ CallsFollow'
    BY <2>1, <2>3, SwitchFollows
  <2>5. Cancellers'
    BY <1>t, <2>1, <2>2, <2>3 DEF Cancellers
  <2>6. Path!FiltersAsConfigured'
    BY <1>t, <2>1 DEF Path!FiltersAsConfigured
  <2> QED BY <1>i, <1>t, <2>1, <2>3, <2>4, <2>5, <2>6
<1>8. ASSUME NEW name \in {"vox_ns", "vox_agc"}, NEW on \in BOOLEAN, Path!set_filter(name, on)
      PROVE  PathInv'
  <2>1. /\ up /\ filters' = IF on THEN filters \cup {name} ELSE filters \ {name}
        /\ acfg' = IF name = "vox_ns" THEN [acfg EXCEPT !.ns = on] ELSE [acfg EXCEPT !.agc = on]
        /\ UNCHANGED <<build, up, hw, conf, call, missed>>
    BY <1>8 DEF Path!set_filter, Path!Enable
  <2>2. /\ acfg' \in [aec_mode : Path!Modes, ns : BOOLEAN, agc : BOOLEAN]
        /\ acfg'.aec_mode = acfg.aec_mode
    BY <1>t, <2>1
  <2>3. Cancellers'
    BY <1>t, <2>1, <2>2 DEF Cancellers
  <2>4. Path!FiltersAsConfigured'
    BY <1>t, <2>1 DEF Path!FiltersAsConfigured
  <2>5. CallsFollow'
    BY <1>t, <2>1 DEF CallsFollow
  <2>6. filters' \subseteq {"vox_ns", "vox_agc", "vox_aec", "webrtc_aec"}
    BY <1>t, <2>1
  <2> QED BY <1>i, <1>t, <2>1, <2>2, <2>3, <2>4, <2>5, <2>6
<1>9. ASSUME NEW mode \in Path!Modes, Path!set_aec_mode(mode) PROVE PathInv'
  <2> DEFINE want == Path!vox_aec_suppressor_wanted(mode, hw, conf["src"].mod)
             fs == IF want THEN filters \cup {"vox_aec"} ELSE filters \ {"vox_aec"}
  <2>1. /\ up /\ (mode = "off" \/ mode = acfg.aec_mode)
        /\ filters' = IF build = "webrtc" /\ "webrtc" = acfg.aec_mode
                      THEN (IF mode = "webrtc" THEN fs \cup {"webrtc_aec"}
                            ELSE fs \ {"webrtc_aec"})
                      ELSE fs
        /\ UNCHANGED <<build, up, hw, conf, acfg, call, missed>>
    BY <1>9 DEF Path!set_aec_mode, Path!Enable
  <2>2. want => mode = "suppressor" /\ ~(hw /\ conf["src"].mod = "driver")
    BY DEF Path!vox_aec_suppressor_wanted
  <2> HIDE DEF want
  <2>3. Cancellers'
    BY <1>t, <2>1, <2>2 DEF Cancellers
  <2>4. Path!FiltersAsConfigured'
    BY <1>t, <2>1 DEF Path!FiltersAsConfigured
  <2>5. CallsFollow'
    BY <1>t, <2>1 DEF CallsFollow
  <2>6. filters' \subseteq {"vox_ns", "vox_agc", "vox_aec", "webrtc_aec"}
    BY <1>t, <2>1
  <2> QED BY <1>i, <1>t, <2>1, <2>3, <2>4, <2>5, <2>6
<1>10. CASE UNCHANGED pathVars
  <2>1. UNCHANGED <<build, up, hw, conf, acfg, filters, call, missed>>
    BY <1>10 DEF pathVars
  <2>2. Path!FiltersAsConfigured' /\ Cancellers' /\ CallsFollow'
    BY <1>t, <2>1 DEF Path!FiltersAsConfigured, Cancellers, CallsFollow
  <2> QED BY <1>i, <1>t, <2>1, <2>2
<1> QED BY <1>1, <1>2, <1>3, <1>4, <1>5, <1>6, <1>7, <1>8, <1>9, <1>10 DEF Path!Next

\* However device switches, canceller modes and calls interleave, for any number of
\* calls and device names and every build.
THEOREM PathIsSound == Spec => []PathSound
<1>1. Init => PathInv
  BY PathBegins DEF Init
<1>2. PathInv /\ [Next]_vars => PathInv'
  BY PartSteps, PathSteps
<1>3. PathInv => PathSound
  <2> SUFFICES ASSUME PathInv PROVE Path!CancellersDoNotStack /\ Path!SwitchReachesCalls
    BY DEF PathInv, PathSound
  <2>1. Path!SwitchReachesCalls
    BY DEF PathInv, CallsFollow, Path!SwitchReachesCalls
  <2>2. ASSUME NEW c \in PathCalls, call[c].state = "established", hw,
               call[c].src.mod = "driver", "src" \notin missed[c], "vox_aec" \in filters
        PROVE  FALSE
    <3>1. call[c].src \in {conf["src"], Path!Closed} /\ Path!Closed.mod = "closed"
      BY <2>2 DEF PathInv, CallsFollow, Path!Directions, Path!Closed
    <3> QED BY <2>2, <3>1 DEF PathInv, Cancellers
  <2>3. "vox_aec" \in filters =>
           ~(hw /\ conf["src"].mod = "driver") /\ "webrtc_aec" \notin filters
    BY DEF PathInv, Cancellers
  <2>4. Path!CancellersDoNotStack
    BY <2>2, <2>3 DEF Path!CancellersDoNotStack
  <2> QED BY <2>1, <2>4
<1> QED BY <1>1, <1>2, <1>3, PTL DEF Spec

-----------------------------------------------------------------------------
(* Recordings and taps.                                                    *)

RecFile == [data : Seq(SampleRates), header : [rate : Nat, frames : Nat], open : BOOLEAN]

\* The file f holds k frames of rate r, and a rate is known once there is one.
Holds(f, r, k) ==
    /\ Len(f.data) = k /\ \A i \in DOMAIN f.data : f.data[i] = r
    /\ f.data # <<>> => r # 0

\* The file being written and the one being closed are never both there, and what
\* the recorder remembers of it is what is in it.
FilesInv ==
    /\ files \in Seq(RecFile) /\ Len(files) <= MaxFiles
    /\ file \in 0 .. Len(files) /\ active = (file # 0)
    /\ rate \in SampleRates \cup {0} /\ bytes \in 0 .. MaxFrames
    /\ hdr \in BOOLEAN /\ tx \in BOOLEAN
    /\ file # 0 => /\ stopping = Rec!Idle /\ files[file].open
                   /\ Holds(files[file], rate, bytes)
    /\ stopping # Rec!Idle => /\ stopping.file \in 1 .. Len(files)
                              /\ stopping.rate \in SampleRates \cup {0}
                              /\ stopping.bytes \in 0 .. MaxFrames
                              /\ Holds(files[stopping.file], stopping.rate, stopping.bytes)
    /\ Rec!StoppedIsSound

\* A thread that has called a replaced callback reads the new one before it calls
\* again.
TapInv ==
    /\ tap \in 0 .. MaxTaps /\ taps \in 0 .. MaxTaps
    /\ at \in [Rec!Dirs -> {"idle", "call", "write"}]
    /\ DOMAIN cb = Rec!Dirs /\ late \in [Rec!Dirs -> 0 .. 1]
    /\ \A d \in Rec!Dirs : late[d] = 1 /\ at[d] = "call" => cb[d] = tap

\* No file and no tap to begin with.
LEMMA RecBegins == Rec!Init => FilesInv /\ TapInv
<1> SUFFICES ASSUME Rec!Init PROVE FilesInv /\ TapInv
  OBVIOUS
<1>1. <<>> \in Seq(RecFile) /\ Len(<<>>) = 0 /\ DOMAIN <<>> = {}
  OBVIOUS
<1>2. 0 <= MaxFiles /\ 0 \in 0 .. MaxFrames /\ 0 \in 0 .. MaxTaps /\ 0 \in 0 .. 0
  BY MediaAssumption
<1>3. Rec!StoppedIsSound
  BY <1>1 DEF Rec!Init, Rec!StoppedIsSound
<1>4. FilesInv
  BY <1>1, <1>2, <1>3 DEF Rec!Init, FilesInv
<1>5. TapInv
  BY <1>2 DEF Rec!Init, TapInv, Rec!NoTap
<1> QED BY <1>4, <1>5

\* Every step keeps the bound on late calls of a callback.
LEMMA TapSteps == TapInv /\ [Rec!Next]_recVars => TapInv'
<1> SUFFICES ASSUME TapInv, [Rec!Next]_recVars PROVE TapInv'
  OBVIOUS
<1>1. ASSUME NEW d \in Rec!Dirs, Rec!ReadTap(d) PROVE TapInv'
  BY <1>1 DEF TapInv, Rec!ReadTap
<1>2. ASSUME NEW d \in Rec!Dirs, Rec!CallTap(d) PROVE TapInv'
  <2>1. /\ at[d] = "call" /\ at' = [at EXCEPT ![d] = "write"]
        /\ late' = [late EXCEPT ![d] = IF cb[d] \notin {tap, Rec!NoTap} /\ late[d] < 2
                                       THEN late[d] + 1 ELSE late[d]]
        /\ UNCHANGED <<tap, taps, cb>>
    BY <1>2 DEF Rec!CallTap, TapInv
  <2>2. late[d] \in 0 .. 1 /\ (late[d] = 1 => cb[d] = tap)
    BY <2>1 DEF TapInv
  <2>3. late' \in [Rec!Dirs -> 0 .. 1]
    BY <2>1, <2>2 DEF TapInv
  <2>4. at' \in [Rec!Dirs -> {"idle", "call", "write"}]
    BY <2>1 DEF TapInv
  <2>5. \A e \in Rec!Dirs : late'[e] = 1 /\ at'[e] = "call" => cb'[e] = tap'
    BY <2>1 DEF TapInv
  <2> QED BY <2>1, <2>3, <2>4, <2>5 DEF TapInv
<1>3. ASSUME NEW d \in Rec!Dirs, NEW r \in SampleRates, Rec!Write(d, r) PROVE TapInv'
  BY <1>3 DEF TapInv, Rec!Write
<1>4. ASSUME NEW on \in BOOLEAN, Rec!SetTap(on) PROVE TapInv'
  <2>1. /\ taps < MaxTaps /\ taps' = taps + 1 /\ tap' \in {0, taps + 1}
        /\ late' = [d \in Rec!Dirs |-> 0] /\ UNCHANGED <<at, cb>>
    BY <1>4 DEF Rec!SetTap, Rec!NoTap
  <2>2. taps' \in 0 .. MaxTaps /\ tap' \in 0 .. MaxTaps
    BY <2>1, MediaAssumption DEF TapInv
  <2>3. late' \in [Rec!Dirs -> 0 .. 1] /\ \A d \in Rec!Dirs : late'[d] # 1
    BY <2>1
  <2> QED BY <2>1, <2>2, <2>3 DEF TapInv
<1>5. CASE Rec!RecordStart \/ Rec!RecordStop \/ Rec!Finalise
  BY <1>5 DEF TapInv, Rec!RecordStart, Rec!RecordStop, Rec!Finalise, Rec!tapVars
<1>6. CASE UNCHANGED recVars
  BY <1>6 DEF TapInv, recVars
<1> QED BY <1>1, <1>2, <1>3, <1>4, <1>5, <1>6 DEF Rec!Next

\* Steps that leave files and recorder alone.
LEMMA FilesQuiet ==
    ASSUME FilesInv, UNCHANGED <<active, file, files, rate, bytes, hdr, tx, stopping>>
    PROVE  FilesInv'
BY DEF FilesInv, Rec!StoppedIsSound

\* vox_record_write_frame() keeps the open file what the recorder remembers of it.
LEMMA FilesWrite ==
    ASSUME FilesInv, NEW d \in Rec!Dirs, NEW r \in SampleRates, Rec!Write(d, r)
    PROVE  /\ FilesInv'
           /\ \A n \in DOMAIN files : files'[n].data # files[n].data
                                         => n = file /\ stopping.file # n
<1> DEFINE on == active /\ file # 0 /\ Rec!Matches(r)
           write == on /\ d = "RX" /\ bytes < MaxFrames
<1>1. /\ rate' = IF on /\ rate = 0 THEN r ELSE rate
      /\ tx' = (tx \/ (on /\ d = "TX")) /\ hdr' = (hdr \/ write)
      /\ bytes' = IF write THEN bytes + 1 ELSE bytes
      /\ files' = IF write
                  THEN [files EXCEPT ![file].data = Append(@, r),
                                     ![file].header = IF hdr THEN @
                                                      ELSE [rate |-> rate', frames |-> 0]]
                  ELSE files
      /\ UNCHANGED <<active, file, stopping>>
  BY DEF Rec!Write
<1>2. (on => file # 0 /\ rate \in {0, r}) /\ (write => on /\ bytes < MaxFrames)
         /\ write \in BOOLEAN
  BY DEF Rec!Matches
<1> HIDE DEF on, write
<1>3. /\ files \in Seq(RecFile) /\ file \in 0 .. Len(files) /\ bytes \in 0 .. MaxFrames
      /\ rate \in SampleRates \cup {0} /\ r # 0 /\ r \in Nat /\ MaxFrames \in Nat
      /\ SampleRates \subseteq Nat
  BY MediaAssumption DEF FilesInv
<1>4. rate' \in SampleRates \cup {0} /\ hdr' \in BOOLEAN /\ tx' \in BOOLEAN /\ rate' \in Nat
  BY <1>1, <1>2, <1>3 DEF FilesInv
<1>5. CASE ~write
  <2>1. files' = files /\ bytes' = bytes
    BY <1>1, <1>5
  <2>2. file # 0 => Holds(files[file], rate', bytes)
    <3> SUFFICES ASSUME file # 0 PROVE Holds(files[file], rate', bytes)
      OBVIOUS
    <3>1. Holds(files[file], rate, bytes)
      BY DEF FilesInv
    <3>2. CASE rate' = rate
      BY <3>1, <3>2
    <3>3. CASE rate = 0
      <4>1. files[file].data = <<>>
        BY <3>1, <3>3 DEF Holds
      <4>2. DOMAIN <<>> = {}
        OBVIOUS
      <4> QED BY <3>1, <4>1, <4>2 DEF Holds
    <3> QED BY <1>1, <3>2, <3>3
  <2>3. Rec!StoppedIsSound'
    BY <2>1 DEF FilesInv, Rec!StoppedIsSound
  <2>4. FilesInv'
    BY <1>1, <1>4, <2>1, <2>2, <2>3 DEF FilesInv
  <2> QED BY <2>1, <2>4
<1>6. CASE write
  <2> DEFINE f == files[file]
             h == IF hdr THEN f.header ELSE [rate |-> rate', frames |-> 0]
             g == [f EXCEPT !.data = Append(f.data, r), !.header = h]
  <2>1. /\ file \in 1 .. Len(files) /\ f \in RecFile /\ Holds(f, rate, bytes) /\ f.open
        /\ stopping = Rec!Idle /\ rate \in {0, r}
    BY <1>2, <1>3, <1>6 DEF FilesInv
  <2>2. rate' = r /\ bytes' = bytes + 1 /\ bytes' \in 0 .. MaxFrames
    BY <1>1, <1>2, <1>3, <1>6
  <2>3. h \in [rate : Nat, frames : Nat]
    BY <1>3, <1>4, <2>1 DEF RecFile
  <2>4. files' = [files EXCEPT ![file] = g]
    BY <1>1, <1>3, <1>6, <2>1 DEF RecFile
  <2>5. g \in RecFile /\ g.open /\ g.data = Append(f.data, r)
    <3> HIDE DEF f, h
    <3>1. f.data \in Seq(SampleRates) /\ Append(f.data, r) \in Seq(SampleRates)
      BY <2>1 DEF RecFile
    <3> QED BY <2>1, <2>3, <3>1 DEF RecFile
  <2> HIDE DEF g, h
  <2>6. Holds(g, r, bytes + 1)
    <3> DEFINE s == f.data
    <3>1. s \in Seq(SampleRates) /\ Len(s) = bytes /\ \A i \in 1 .. Len(s) : s[i] = r
      <4>1. s \in Seq(SampleRates)
        BY <2>1 DEF RecFile
      <4>2. DOMAIN s = 1 .. Len(s)
        BY <4>1
      <4>3. rate = 0 => s = <<>>
        BY <2>1 DEF Holds
      <4> QED BY <2>1, <4>1, <4>2, <4>3 DEF Holds
    <3> HIDE DEF s
    <3>2. /\ Len(Append(s, r)) = bytes + 1
          /\ DOMAIN Append(s, r) = 1 .. (bytes + 1)
          /\ \A i \in 1 .. (bytes + 1) : Append(s, r)[i] = r
      BY <1>3, <3>1
    <3>3. g.data = Append(s, r)
      BY <2>5 DEF s
    <3> QED BY <1>3, <3>2, <3>3 DEF Holds
  <2> HIDE DEF f
  <2>7. /\ files' \in Seq(RecFile) /\ Len(files') = Len(files) /\ DOMAIN files' = DOMAIN files
        /\ files'[file] = g /\ \A n \in DOMAIN files : n # file => files'[n] = files[n]
    BY <1>3, <2>1, <2>4, <2>5
  <2>8. Rec!StoppedIsSound'
    BY <2>5, <2>7 DEF FilesInv, Rec!StoppedIsSound
  <2>9. FilesInv'
    BY <1>1, <1>4, <2>1, <2>2, <2>5, <2>6, <2>7, <2>8 DEF FilesInv
  <2>10. stopping.file = 0
    BY <2>1 DEF Rec!Idle
  <2> QED BY <2>1, <2>7, <2>9, <2>10
<1> QED BY <1>2, <1>5, <1>6

\* record_start_fn() appends a file; nothing written so far moves.
LEMMA FilesStart ==
    ASSUME FilesInv, Rec!RecordStart
    PROVE  FilesInv' /\ \A n \in DOMAIN files : files'[n] = files[n]
<1> DEFINE f == [data |-> <<>>, header |-> Rec!NoHeader, open |-> TRUE]
<1>1. /\ stopping = Rec!Idle /\ Len(files) < MaxFiles /\ files' = Append(files, f)
      /\ file' = Len(files) + 1 /\ active' = TRUE /\ rate' = 0 /\ bytes' = 0
      /\ hdr' = FALSE /\ tx' = FALSE /\ stopping' = stopping
  BY DEF Rec!RecordStart
<1>2. files \in Seq(RecFile) /\ Len(files) \in Nat /\ MaxFiles \in Nat /\ MaxFrames \in Nat
         /\ DOMAIN files = 1 .. Len(files)
  BY MediaAssumption DEF FilesInv
<1>3. f \in RecFile /\ f.open /\ f.data = <<>> /\ Holds(f, 0, 0)
  <2>1. <<>> \in Seq(SampleRates) /\ Len(<<>>) = 0 /\ DOMAIN <<>> = {}
    OBVIOUS
  <2> QED BY <2>1 DEF RecFile, Rec!NoHeader, Holds
<1> HIDE DEF f
<1>4. /\ files' \in Seq(RecFile) /\ Len(files') = Len(files) + 1
      /\ DOMAIN files' = 1 .. (Len(files) + 1)
      /\ files'[Len(files) + 1] = f /\ \A n \in DOMAIN files : files'[n] = files[n]
  BY <1>1, <1>2, <1>3
<1>5. Rec!StoppedIsSound'
  <2>1. \A n \in DOMAIN files' : n = Len(files) + 1 \/ n \in DOMAIN files
    BY <1>2, <1>4
  <2> QED BY <1>3, <1>4, <2>1 DEF FilesInv, Rec!StoppedIsSound
<1>6. file' \in 0 .. Len(files') /\ file' # 0 /\ Len(files') <= MaxFiles /\ bytes' \in 0 .. MaxFrames
  BY <1>1, <1>2, <1>4
<1> QED BY <1>1, <1>3, <1>4, <1>5, <1>6 DEF FilesInv

\* record_stop_fn() takes the file with what the recorder remembers of it.
LEMMA FilesStop ==
    ASSUME FilesInv, Rec!RecordStop
    PROVE  FilesInv' /\ files' = files
<1>1. /\ active' = FALSE /\ file' = 0 /\ UNCHANGED <<files, rate, bytes, hdr, tx>>
      /\ stopping' = IF file = 0 THEN Rec!Idle
                     ELSE [file |-> file, rate |-> rate, bytes |-> bytes]
  BY DEF Rec!RecordStop
<1>2. stopping' # Rec!Idle => /\ stopping'.file \in 1 .. Len(files)
                              /\ stopping'.rate \in SampleRates \cup {0}
                              /\ stopping'.bytes \in 0 .. MaxFrames
                              /\ Holds(files[stopping'.file], stopping'.rate, stopping'.bytes)
  BY <1>1 DEF FilesInv
<1>3. Rec!StoppedIsSound' /\ 0 \in 0 .. Len(files)
  BY <1>1 DEF FilesInv, Rec!StoppedIsSound
<1> QED BY <1>1, <1>2, <1>3 DEF FilesInv

\* The header is written again from what was taken, and the file closed.
LEMMA FilesFinalise ==
    ASSUME FilesInv, Rec!Finalise
    PROVE  FilesInv' /\ \A n \in DOMAIN files : files'[n].data = files[n].data
<1> DEFINE k == stopping.file
           f == files[k]
           h == IF stopping.rate = 0 THEN f.header
                ELSE [rate |-> stopping.rate, frames |-> stopping.bytes]
           g == [f EXCEPT !.open = FALSE, !.header = h]
<1>1. stopping # Rec!Idle /\ stopping' = Rec!Idle /\ UNCHANGED <<active, file, rate, bytes, hdr, tx>>
  BY DEF Rec!Finalise
<1>2. /\ files \in Seq(RecFile) /\ k \in 1 .. Len(files) /\ f \in RecFile /\ file = 0
      /\ stopping.rate \in SampleRates \cup {0} /\ stopping.bytes \in 0 .. MaxFrames
      /\ Holds(f, stopping.rate, stopping.bytes)
  BY <1>1 DEF FilesInv
<1>3. files' = [files EXCEPT ![k] = g]
  BY <1>2 DEF Rec!Finalise, RecFile
<1>4. h \in [rate : Nat, frames : Nat]
  <2>0. SampleRates \subseteq Nat /\ MaxFrames \in Nat
    BY MediaAssumption
  <2>a. stopping.rate \in SampleRates \cup {0} /\ stopping.bytes \in 0 .. MaxFrames
    BY <1>2
  <2>1. stopping.bytes \in Nat /\ stopping.rate \in Nat
    <3>1. \A b \in 0 .. MaxFrames : b \in Nat
      BY ONLY <2>0
    <3>2. \A x \in SampleRates \cup {0} : x \in Nat
      BY ONLY <2>0
    <3> QED BY ONLY <2>a, <3>1, <3>2
  <2>2. f.header \in [rate : Nat, frames : Nat]
    BY <1>2 DEF RecFile
  <2> QED BY ONLY <2>1, <2>2
<1>5. g \in RecFile /\ ~g.open /\ g.data = f.data /\ g.header = h
  BY <1>2, <1>4 DEF RecFile
<1>6. g.data # <<>> => /\ g.header.frames = Len(g.data)
                       /\ \A i \in DOMAIN g.data : g.data[i] = g.header.rate
  BY <1>2, <1>5 DEF Holds
<1> HIDE DEF g, h, f, k
<1>7. /\ files' \in Seq(RecFile) /\ Len(files') = Len(files) /\ DOMAIN files' = DOMAIN files
      /\ files'[k] = g /\ \A n \in DOMAIN files : n # k => files'[n] = files[n]
  BY <1>2, <1>3, <1>5
<1>8. Rec!StoppedIsSound'
  BY <1>6, <1>7 DEF FilesInv, Rec!StoppedIsSound
<1>9. \A n \in DOMAIN files : files'[n].data = files[n].data
  BY <1>5, <1>7 DEF f
<1> QED BY <1>1, <1>2, <1>7, <1>8, <1>9 DEF FilesInv

\* Every step keeps the files sound, and writes only to the one that is open.
LEMMA FilesSteps ==
    ASSUME FilesInv, [Rec!Next]_recVars
    PROVE  /\ FilesInv'
           /\ \A n \in DOMAIN files : files'[n].data # files[n].data
                                         => n = file /\ stopping.file # n
<1>1. ASSUME NEW d \in Rec!Dirs, Rec!ReadTap(d) \/ Rec!CallTap(d)
      PROVE  UNCHANGED <<active, file, files, rate, bytes, hdr, tx, stopping>>
  BY <1>1 DEF Rec!ReadTap, Rec!CallTap, Rec!recVars
<1>2. ASSUME NEW on \in BOOLEAN, Rec!SetTap(on)
      PROVE  UNCHANGED <<active, file, files, rate, bytes, hdr, tx, stopping>>
  BY <1>2 DEF Rec!SetTap, Rec!recVars
<1>3. CASE UNCHANGED recVars
  BY <1>3, FilesQuiet DEF recVars
<1> QED BY <1>1, <1>2, <1>3, FilesQuiet, FilesWrite, FilesStart, FilesStop, FilesFinalise
        DEF Rec!Next

\* However the audio threads and the API interleave, a stopped file is what its
\* header says, none is written to once it was taken, and a replaced tap ends.
THEOREM RecordingIsSound == Spec => RecordingSound
<1>1. Init => FilesInv /\ TapInv
  BY RecBegins DEF Init
<1>2. FilesInv /\ TapInv /\ [Next]_vars => FilesInv' /\ TapInv'
  BY PartSteps, FilesSteps, TapSteps
<1>3. FilesInv /\ TapInv => Rec!TypeOK /\ Rec!StoppedIsSound /\ Rec!ReplacedTapEnds
  <2> SUFFICES ASSUME FilesInv, TapInv
               PROVE  Rec!TypeOK /\ Rec!StoppedIsSound /\ Rec!ReplacedTapEnds
    OBVIOUS
  <2>1. Rec!ReplacedTapEnds
    BY DEF TapInv, Rec!ReplacedTapEnds
  <2>2. Rec!TypeOK
    BY DEF FilesInv, TapInv, Rec!TypeOK
  <2> QED BY <2>1, <2>2 DEF FilesInv
<1>4. FilesInv /\ [Next]_vars =>
        [\A n \in DOMAIN files : files'[n].data # files[n].data
                                    => n = file /\ stopping.file # n]_(Rec!vars)
  BY PartSteps, FilesSteps
<1> QED BY <1>1, <1>2, <1>3, <1>4, PTL DEF Spec, RecordingSound, Rec!NoWriteAfterStop

-----------------------------------------------------------------------------
(* Stalls.                                                                 *)

\* Unless a packet came since the last tick, the detector's clock is not ahead of
\* the silence it measures.
StallInv ==
    /\ Stall!TypeOK /\ Stall!StallTold
    /\ ~fresh => since <= silence

\* A call begins with nothing measured and nothing told.
LEMMA StallBegins == Stall!Init => StallInv
<1> SUFFICES ASSUME Stall!Init PROVE StallInv
  OBVIOUS
<1>1. 0 \in 0 .. Stall!Cap /\ 0 <= 0
  BY MediaAssumption DEF Stall!Cap
<1> QED BY <1>1 DEF Stall!Init, StallInv, Stall!TypeOK, Stall!StallTold

\* The clocks stop at their cap together.
LEMMA OlderKeeps ==
    ASSUME NEW m \in 0 .. Stall!Cap, NEW n \in 0 .. Stall!Cap
    PROVE  /\ Stall!Older(m) \in 0 .. Stall!Cap
           /\ m <= n => Stall!Older(m) <= Stall!Older(n)
<1>1. Stall!Cap \in Nat
  BY MediaAssumption DEF Stall!Cap
<1> QED BY <1>1 DEF Stall!Older

\* Every step keeps the clocks in order, and begins a stall only in real silence.
LEMMA StallSteps ==
    ASSUME StallInv, [Stall!Next]_stallVars
    PROVE  /\ StallInv'
           /\ stall' /\ ~stall => silence' >= StallAfter /\ (secure \/ silence' >= Grace)
<1>t. /\ state \in {"early", "established", "held"} /\ acked \in BOOLEAN
      /\ localHold \in BOOLEAN /\ repairing \in BOOLEAN /\ secure \in BOOLEAN
      /\ got \in BOOLEAN /\ fresh \in BOOLEAN /\ stall \in BOOLEAN /\ told \in BOOLEAN
      /\ forgotten \in BOOLEAN /\ since \in 0 .. Stall!Cap /\ silence \in 0 .. Stall!Cap
      /\ forgotten \/ told = stall
      /\ ~fresh => since <= silence
  BY DEF StallInv, Stall!TypeOK, Stall!StallTold
<1>i. ASSUME state' \in {"early", "established", "held"}, acked' \in BOOLEAN,
             localHold' \in BOOLEAN, repairing' \in BOOLEAN, secure' \in BOOLEAN,
             got' \in BOOLEAN, fresh' \in BOOLEAN, stall' \in BOOLEAN, told' \in BOOLEAN,
             forgotten' \in BOOLEAN, since' \in 0 .. Stall!Cap, silence' \in 0 .. Stall!Cap,
             forgotten' \/ told' = stall', ~fresh' => since' <= silence'
      PROVE  StallInv'
  BY <1>i DEF StallInv, Stall!TypeOK, Stall!StallTold, Stall!Cap
<1>0. Stall!Cap \in Nat /\ StallAfter \in Nat /\ Grace \in Nat /\ 0 \in 0 .. Stall!Cap
  BY MediaAssumption DEF Stall!Cap
<1>1. CASE Stall!Tick
  <2>1. /\ silence' = Stall!Older(silence) /\ UNCHANGED <<state, acked, localHold, secure, got, forgotten>>
    BY <1>1 DEF Stall!Tick
  <2>2. /\ Stall!Older(since) \in 0 .. Stall!Cap /\ Stall!Older(silence) \in 0 .. Stall!Cap
        /\ since <= silence => Stall!Older(since) <= Stall!Older(silence)
    BY <1>t, OlderKeeps
  <2>3. CASE state # "established"
    <3>1. since' = Stall!Older(since) /\ UNCHANGED <<fresh, stall, repairing, told>>
      BY <1>1, <2>3 DEF Stall!Tick
    <3> QED BY <1>t, <1>i, <2>1, <2>2, <3>1
  <2>4. CASE state = "established"
    <3>1. Stall!StallTick /\ told' = IF stall' # stall THEN stall' ELSE told
      BY <1>1, <2>4 DEF Stall!Tick
    <3>2. CASE fresh' = FALSE /\ since' = 0 /\ stall' = FALSE /\ UNCHANGED repairing
      <4>1. 0 <= silence'
        BY <1>0, <2>1, <2>2
      <4>2. told' \in BOOLEAN /\ (forgotten' \/ told' = stall')
        BY <1>t, <2>1, <3>1, <3>2
      <4> QED BY <1>0, <1>t, <1>i, <2>1, <2>2, <3>2, <4>1, <4>2
    <3>3. CASE ~(Stall!OnHold \/ repairing \/ fresh)
      <4> DEFINE age == Stall!Older(since)
                 over == age >= StallAfter /\ (secure \/ age >= Grace)
      <4>1. /\ ~fresh /\ since' = age /\ stall' = (stall \/ over)
            /\ repairing' \in IF over /\ ~stall THEN BOOLEAN ELSE {repairing}
            /\ fresh' = fresh
        BY <3>1, <3>3 DEF Stall!StallTick
      <4>2. age \in 0 .. Stall!Cap /\ age <= silence'
        BY <1>t, <2>1, <2>2, <4>1
      <4>3. over => silence' >= StallAfter /\ (secure \/ silence' >= Grace)
        BY <1>0, <2>1, <2>2, <4>2
      <4>4. repairing' \in BOOLEAN /\ over \in BOOLEAN
        BY <1>t, <4>1
      <4> HIDE DEF age, over
      <4>5. stall' \in BOOLEAN /\ told' \in BOOLEAN /\ (forgotten' \/ told' = stall')
        BY <1>t, <2>1, <3>1, <4>1, <4>4
      <4>6. StallInv'
        BY <1>t, <1>i, <2>1, <2>2, <4>1, <4>2, <4>4, <4>5
      <4> QED BY <4>1, <4>3, <4>6
    <3> QED BY <3>1, <3>2, <3>3 DEF Stall!StallTick
  <2> QED BY <2>3, <2>4
<1>2. CASE Stall!Packets
  BY <1>0, <1>t, <1>i, <1>2 DEF Stall!Packets
<1>3. CASE Stall!Secured
  BY <1>t, <1>i, <1>3 DEF Stall!Secured, Stall!counters, Stall!history
<1>4. ASSUME NEW b \in BOOLEAN, Stall!CallStart(b)
      PROVE  StallInv' /\ ~stall'
  <2>1. /\ state' = "established" /\ acked' = b /\ stall' = FALSE /\ fresh' = got /\ since' = 0
        /\ forgotten' = (forgotten \/ stall) /\ silence' = 0
        /\ UNCHANGED <<localHold, repairing, secure, got, told>>
    BY <1>4 DEF Stall!CallStart
  <2>2. forgotten' \in BOOLEAN /\ (forgotten' \/ told' = stall')
    BY <1>t, <2>1
  <2>3. since' <= silence'
    BY <2>1
  <2> QED BY <1>0, <1>t, <1>i, <2>1, <2>2, <2>3
<1>5. ASSUME NEW b \in BOOLEAN, Stall!PeerHold(b) \/ Stall!LocalHold(b) \/ Stall!Repair(b)
      PROVE  StallInv' /\ stall' = stall
  <2>1. /\ state' \in {"early", "established", "held"} /\ localHold' \in BOOLEAN
        /\ repairing' \in BOOLEAN
        /\ UNCHANGED <<acked, secure, got, fresh, since, stall, told, silence, forgotten>>
    BY <1>t, <1>5 DEF Stall!PeerHold, Stall!LocalHold, Stall!Repair, Stall!counters,
       Stall!history
  <2> QED BY <1>t, <1>i, <2>1
<1>6. CASE UNCHANGED stallVars
  BY <1>t, <1>i, <1>6 DEF stallVars
<1>7. Stall!Packets \/ Stall!Secured \/ UNCHANGED stallVars => stall' = stall
  BY DEF Stall!Packets, Stall!Secured, Stall!counters, stallVars
<1> QED BY <1>1, <1>2, <1>3, <1>4, <1>5, <1>6, <1>7 DEF Stall!Next

\* The safety half of StallsTruthful: what the application was last told is so, and
\* a stall is reported only in silence that lasted as configured.
THEOREM StallsAreReal == Spec => [](Stall!TypeOK /\ Stall!StallTold) /\ Stall!StallIsReal
<1>1. Init => StallInv
  BY StallBegins DEF Init
<1>2. StallInv /\ [Next]_vars => StallInv'
  BY PartSteps, StallSteps
<1>3. StallInv => Stall!TypeOK /\ Stall!StallTold
  BY DEF StallInv
<1>4. StallInv /\ [Next]_vars =>
        [stall' /\ ~stall => silence' >= StallAfter /\ (secure \/ silence' >= Grace)]_(Stall!vars)
  BY PartSteps, StallSteps
<1> QED BY <1>1, <1>2, <1>3, <1>4, PTL DEF Spec, Stall!StallIsReal

-----------------------------------------------------------------------------
(* The bitrate ladder.                                                     *)

\* A loss counter above the last tick's has been raised by a report since, and the
\* run of clean ticks is at least as long as the ladder's count of them.
RateInv ==
    /\ Rate!TypeOK /\ Rate!AlertsAgree
    /\ cfg \in [on : BOOLEAN, min : 0 .. Rate!BrMax, max : Nat]
    /\ dLost > 0 => lostNow
    /\ clean <= run

\* Opus' own limits, by which every rate is bounded, and the defaults between them.
LEMMA RateLimits ==
    /\ Rate!BrMin \in Nat /\ Rate!BrMax \in Nat /\ 0 < Rate!BrMin
    /\ Rate!BrMin <= 12000 /\ 32000 <= Rate!BrMax
BY SMT DEF Rate!BrMin, Rate!BrMax

\* A value held between the limits.
LEMMA Clamped ==
    ASSUME NEW a \in Nat, NEW b \in Nat, a <= b, NEW v \in Nat, NEW w \in Nat, v <= b
    PROVE  LET mn == IF v < a THEN a ELSE v
               m  == IF w > b THEN b ELSE w
               mx == IF m < mn THEN mn ELSE m
           IN  mn \in a .. b /\ mx \in a .. b /\ mn <= mx
BY SMT

\* The configured band lies within the codec's.
LEMMA BandSound ==
    ASSUME cfg \in [on : BOOLEAN, min : 0 .. Rate!BrMax, max : Nat]
    PROVE  /\ Rate!MinBr \in Rate!BrMin .. Rate!BrMax /\ Rate!MaxBr \in Rate!BrMin .. Rate!BrMax
           /\ Rate!MinBr <= Rate!MaxBr
<1> DEFINE v == IF cfg.min = 0 THEN 12000 ELSE cfg.min
           w == IF cfg.max = 0 THEN 32000 ELSE cfg.max
<1>1. cfg.min \in 0 .. Rate!BrMax /\ cfg.max \in Nat
  OBVIOUS
<1>2. v \in 0 .. Rate!BrMax
  BY <1>1, RateLimits, SMT
<1>3. w \in Nat
  BY <1>1, RateLimits, SMT
<1>4. /\ Rate!MinBr = IF v < Rate!BrMin THEN Rate!BrMin ELSE v
      /\ Rate!MaxBr = LET m == IF w > Rate!BrMax THEN Rate!BrMax ELSE w
                      IN  IF m < Rate!MinBr THEN Rate!MinBr ELSE m
  BY SMT DEF Rate!MinBr, Rate!MaxBr
<1> HIDE DEF v, w
<1>5. v \in Nat /\ v <= Rate!BrMax /\ Rate!BrMin <= Rate!BrMax
  BY <1>2, RateLimits, SMT
<1> QED BY ONLY <1>3, <1>4, <1>5, RateLimits, Clamped, SMT

\* Loss is measured only when packets were lost.
LEMMA LossSound ==
    ASSUME dSent \in Int, dLost \in Int
    PROVE  Rate!LossPct \in Nat /\ (Rate!LossPct > 0 => dLost > 0)
<1> DEFINE sent == Rate!Delta(dSent)
           dl == Rate!Delta(dLost)
           lost == IF dl > sent THEN sent ELSE dl
<1>1. sent \in Nat /\ dl \in Nat /\ (dl > 0 => dLost > 0)
  BY DEF Rate!Delta
<1>2. Rate!LossPct = IF sent = 0 THEN 0 ELSE (100 * lost) \div sent
  BY DEF Rate!LossPct
<1>3. lost \in Nat /\ (lost > 0 => dl > 0)
  BY <1>1
<1> HIDE DEF sent, dl, lost
<1>4. CASE sent = 0
  BY <1>2, <1>4
<1>5. CASE sent # 0
  <2>1. (100 * lost) \div sent \in Nat
    BY <1>1, <1>3, <1>5
  <2>2. lost = 0 => (100 * lost) \div sent = 0
    BY <1>1, <1>5
  <2> QED BY <1>1, <1>2, <1>3, <1>5, <2>1, <2>2
<1> QED BY <1>4, <1>5

\* A call begins at its negotiated rate.
LEMMA RateBegins == Rate!Init => RateInv
<1> SUFFICES ASSUME Rate!Init PROVE RateInv
  OBVIOUS
<1>1. cfg \in [on : BOOLEAN, min : 0 .. Rate!BrMax, max : Nat]
  <2>1. cfg = [on |-> TRUE, min |-> 16000, max |-> 32000]
    BY DEF Rate!Init
  <2>2. 16000 \in 0 .. Rate!BrMax /\ 32000 \in Nat
    BY RateLimits, SMT
  <2> QED BY ONLY <2>1, <2>2, SMT
<1>2. /\ 0 \in -MaxWindow .. MaxWindow /\ 0 \in 0 .. (RecoverTicks - 1)
      /\ 0 \in 0 .. RecoverTicks
  BY MediaAssumption
<1>3. /\ dSent = 0 /\ dLost = 0 /\ bad = {} /\ alerted = {} /\ adapt = 0 /\ clean = 0
      /\ run = 0 /\ lostNow = FALSE /\ starts = 0 /\ astray = FALSE
  BY DEF Rate!Init
<1>4. Rate!TypeOK
  <2>1. 0 \in 0 .. 2
    BY SMT
  <2> QED BY <1>2, <1>3, <2>1 DEF Rate!TypeOK
<1> QED BY <1>1, <1>3, <1>4 DEF RateInv, Rate!AlertsAgree

\* What a tick does to the rate, the count and the alerts.
LEMMA RateTick ==
    ASSUME RateInv, NEW jittery \in BOOLEAN, NEW rtcp \in BOOLEAN, Rate!Tick(jittery, rtcp)
    PROVE  /\ RateInv'
           /\ Rate!Current \in Rate!MinBr .. Rate!MaxBr =>
                 /\ Rate!Current' \in Rate!MinBr .. Rate!MaxBr
                 /\ Rate!Current' < Rate!Current => lostNow
                 /\ Rate!Current' > Rate!Current => run' >= RecoverTicks
<1> DEFINE pct == Rate!LossPct
           lo == Rate!MinBr
           hi == Rate!MaxBr
           cur == Rate!Current
           lossy == pct > DownPct
           cut == Rate!CleanPct
           due == pct <= cut /\ clean + 1 >= RecoverTicks
           nxt == IF lossy THEN Rate!Halved ELSE Rate!Raised
<1>t. /\ dSent \in -MaxWindow .. MaxWindow /\ dLost \in -MaxWindow .. MaxWindow
      /\ bad \subseteq Rate!Issues /\ alerted = bad
      /\ adapt = 0 \/ adapt \in Rate!BrMin .. Rate!BrMax
      /\ clean \in 0 .. (RecoverTicks - 1) /\ run \in 0 .. RecoverTicks
      /\ lostNow \in BOOLEAN /\ cfg \in [on : BOOLEAN, min : 0 .. Rate!BrMax, max : Nat]
      /\ starts \in 0 .. 2 /\ astray \in BOOLEAN
      /\ dLost > 0 => lostNow
      /\ clean <= run
  BY DEF RateInv, Rate!TypeOK, Rate!AlertsAgree
<1>0. /\ RecoverTicks \in Nat \ {0} /\ DownPct \in Nat /\ UpPct \in Nat
      /\ MaxWindow \in Nat /\ dSent \in Int /\ dLost \in Int
      /\ clean \in Nat /\ run \in Nat
      /\ Rate!BrMin \in Nat \ {0} /\ Rate!BrMax \in Nat
  BY <1>t, MediaAssumption, RateLimits
<1>1. pct \in Nat /\ (pct > 0 => lostNow)
  BY <1>0, <1>t, LossSound
<1>2. lo \in Rate!BrMin .. Rate!BrMax /\ hi \in Rate!BrMin .. Rate!BrMax /\ lo <= hi
  BY <1>t, BandSound
<1>3. /\ dSent' = 0 /\ dLost' = 0 /\ lostNow' = FALSE /\ cfg' = cfg
      /\ starts' = starts /\ cut \in Nat
  BY MediaAssumption DEF Rate!Tick, Rate!Advance, Rate!CleanPct
<1>4. \/ adapt' = adapt /\ clean' = clean /\ run' = run /\ astray' = astray
      \/ /\ adapt' = adapt \/ (adapt' = nxt /\ (lossy \/ due))
         /\ clean' = IF pct <= cut /\ ~due THEN clean + 1 ELSE 0
         /\ run' = IF pct > cut THEN 0 ELSE IF run < RecoverTicks THEN run + 1 ELSE run
         /\ astray' = astray \/ astray' = FALSE
  BY DEF Rate!Tick, Rate!BitrateTick, Rate!Apply
<1>5. Rate!Halved = (IF cur \div 2 < lo THEN lo ELSE cur \div 2)
      /\ Rate!Raised = (IF cur + cur \div 4 > hi THEN hi ELSE cur + cur \div 4)
  BY DEF Rate!Halved, Rate!Raised
<1>6. cur = (IF adapt = 0 THEN hi ELSE adapt) /\ cur \in Rate!BrMin .. Rate!BrMax
  BY <1>2, <1>t DEF Rate!Current
<1>7. bad' \subseteq Rate!Issues /\ alerted' = bad'
  <2> DEFINE now == {i \in Rate!Issues : IF i = "loss" THEN Rate!LossPct > LossAlert ELSE jittery}
             X == Rate!Crossed(now)
  <2>1. bad' = now /\ alerted' = (alerted \ X) \cup (X \ bad)
    BY DEF Rate!Tick
  <2>2. X = (now \ bad) \cup (bad \ now) /\ now \subseteq Rate!Issues
    BY DEF Rate!Crossed
  <2> HIDE DEF now, X
  <2> QED BY <1>t, <2>1, <2>2
<1>8. Rate!Current' = IF adapt' = 0 THEN hi ELSE adapt'
  <2>1. Rate!MaxBr' = Rate!MaxBr
    BY <1>3 DEF Rate!MaxBr, Rate!MinBr
  <2> QED BY <2>1 DEF Rate!Current
<1> HIDE DEF pct, lo, hi, cur, cut
<1>9. /\ Rate!Halved \in Rate!BrMin .. Rate!BrMax /\ Rate!Raised \in Rate!BrMin .. Rate!BrMax
      /\ cur \in lo .. hi => /\ Rate!Halved \in lo .. hi /\ Rate!Halved <= cur
                             /\ Rate!Raised \in lo .. hi /\ Rate!Raised >= cur
  <2> DEFINE h == cur \div 2
             q == cur \div 4
  <2>0. cur \in Nat
    BY <1>6, RateLimits
  <2>1. h \in Nat /\ q \in Nat /\ h <= cur
    BY ONLY <2>0, SMT
  <2>2. Rate!Halved = (IF h < lo THEN lo ELSE h) /\ Rate!Raised = (IF cur + q > hi THEN hi ELSE cur + q)
    BY <1>5
  <2>3. cur \in Rate!BrMin .. Rate!BrMax
    BY <1>6
  <2> HIDE DEF h, q
  <2> QED BY ONLY <1>2, <2>1, <2>2, <2>3, RateLimits
<1>10. clean' \in 0 .. (RecoverTicks - 1) /\ run' \in 0 .. RecoverTicks /\ clean' <= run'
  BY <1>0, <1>1, <1>3, <1>4, <1>t
<1>11. adapt' = 0 \/ adapt' \in Rate!BrMin .. Rate!BrMax
  BY <1>t, <1>4, <1>9
<1>12. RateInv'
  <2>1. 0 \in -MaxWindow .. MaxWindow
    BY <1>0
  <2>5. starts' \in 0 .. 2 /\ astray' \in BOOLEAN
    BY <1>3, <1>4, <1>t
  <2>2. Rate!TypeOK'
    BY <1>3, <1>7, <1>10, <1>11, <2>1, <2>5 DEF Rate!TypeOK
  <2>3. cfg' \in [on : BOOLEAN, min : 0 .. Rate!BrMax, max : Nat]
    BY <1>t, <1>3
  <2>4. ~(dLost' > 0)
    BY <1>3
  <2> QED BY <1>7, <1>10, <2>2, <2>3, <2>4 DEF RateInv, Rate!AlertsAgree
<1>13. ASSUME cur \in lo .. hi
       PROVE  /\ Rate!Current' \in lo .. hi
              /\ Rate!Current' < cur => lostNow
              /\ Rate!Current' > cur => run' >= RecoverTicks
  <2>1. CASE adapt' = adapt
    BY <1>6, <1>8, <1>13, <1>2, <2>1
  <2>2. CASE /\ adapt' = nxt /\ (lossy \/ due)
             /\ run' = IF pct > cut THEN 0 ELSE IF run < RecoverTicks THEN run + 1 ELSE run
    <3>1. nxt \in Rate!BrMin .. Rate!BrMax
      BY <1>9
    <3>2. Rate!Current' = nxt
      <4>1. nxt # 0
        BY <3>1, RateLimits, SMT
      <4> HIDE DEF nxt
      <4> QED BY <1>8, <2>2, <4>1
    <3>3. CASE lossy
      <4>1. lostNow
        BY <1>0, <1>1, <3>3
      <4> QED BY <1>2, <1>6, <1>9, <1>13, <3>2, <3>3, <4>1
    <3>4. CASE ~lossy
      <4>1. pct <= cut /\ clean + 1 >= RecoverTicks
        BY <2>2, <3>4
      <4>2. run' >= RecoverTicks
        BY <1>0, <1>1, <1>3, <1>t, <2>2, <4>1
      <4> QED BY <1>2, <1>6, <1>9, <1>13, <3>2, <3>4, <4>2
    <3> QED BY <3>3, <3>4
  <2> QED BY <1>4, <2>1, <2>2
<1> QED BY <1>12, <1>13 DEF cur, lo, hi

\* Every step keeps the invariant, and every tick is justified.
LEMMA RateSteps ==
    ASSUME RateInv, [Rate!Next]_rateVars
    PROVE  RateInv'
<1>t. /\ dSent \in -MaxWindow .. MaxWindow /\ dLost \in -MaxWindow .. MaxWindow
      /\ bad \subseteq Rate!Issues /\ alerted \subseteq Rate!Issues /\ alerted = bad
      /\ adapt = 0 \/ adapt \in Rate!BrMin .. Rate!BrMax
      /\ clean \in 0 .. (RecoverTicks - 1) /\ run \in 0 .. RecoverTicks
      /\ lostNow \in BOOLEAN /\ cfg \in [on : BOOLEAN, min : 0 .. Rate!BrMax, max : Nat]
      /\ starts \in 0 .. 2 /\ astray \in BOOLEAN
      /\ dLost > 0 => lostNow
      /\ clean <= run
  BY DEF RateInv, Rate!TypeOK, Rate!AlertsAgree
<1>i. ASSUME dSent' \in -MaxWindow .. MaxWindow, dLost' \in -MaxWindow .. MaxWindow,
             UNCHANGED <<bad, alerted>>, starts' \in 0 .. 2, astray' \in BOOLEAN,
             UNCHANGED <<clean, run>> \/ (clean' = 0 /\ run' = 0),
             adapt' = 0 \/ adapt' \in Rate!BrMin .. Rate!BrMax, lostNow' \in BOOLEAN,
             cfg' \in [on : BOOLEAN, min : 0 .. Rate!BrMax, max : Nat],
             dLost' > 0 => lostNow'
      PROVE  RateInv'
  <2>1. clean' \in 0 .. (RecoverTicks - 1) /\ run' \in 0 .. RecoverTicks /\ clean' <= run'
    BY <1>t, <1>i, MediaAssumption
  <2> QED BY <1>t, <1>i, <2>1 DEF RateInv, Rate!TypeOK, Rate!AlertsAgree
<1>0. MaxWindow \in Nat /\ MinRates \subseteq 0 .. Rate!BrMax /\ MaxRates \subseteq Nat
  BY MediaAssumption
<1>1. ASSUME NEW jittery \in BOOLEAN, NEW rtcp \in BOOLEAN, Rate!Tick(jittery, rtcp)
      PROVE  RateInv'
  BY <1>1, RateTick
<1>2. ASSUME NEW sent \in 0 .. MaxWindow, NEW lost \in 0 .. MaxWindow, Rate!Report(sent, lost)
      PROVE  RateInv'
  <2>1. /\ dSent + sent <= MaxWindow /\ dLost + lost <= MaxWindow
        /\ dSent' = dSent + sent /\ dLost' = dLost + lost
        /\ lostNow' = (lostNow \/ lost > 0) /\ UNCHANGED <<bad, alerted, adapt, clean, cfg, run, starts, astray>>
    BY <1>2 DEF Rate!Report
  <2>2. /\ dSent' \in -MaxWindow .. MaxWindow /\ dLost' \in -MaxWindow .. MaxWindow
        /\ dLost' > 0 => dLost > 0 \/ lost > 0
    BY <1>0, <1>t, <2>1
  <2>3. lostNow' \in BOOLEAN /\ (dLost' > 0 => lostNow')
    BY <1>t, <2>1, <2>2
  <2> QED BY <1>t, <1>i, <2>1, <2>2, <2>3
<1>3. CASE Rate!CountersRestart
  <2>1. /\ dSent' = -MaxWindow /\ dLost' = -MaxWindow
        /\ UNCHANGED <<bad, alerted, adapt, clean, cfg, run, lostNow, starts, astray>>
    BY <1>3 DEF Rate!CountersRestart
  <2>2. -MaxWindow \in -MaxWindow .. MaxWindow /\ ~(-MaxWindow > 0)
    BY <1>0
  <2> QED BY <1>t, <1>i, <2>1, <2>2
<1>4. ASSUME NEW b \in SetRates, Rate!SetBitrate(b) PROVE RateInv'
  <2>1. /\ b = 0 \/ b \in Rate!BrMin .. Rate!BrMax
        /\ adapt' \in {b, adapt} /\ astray' \in {FALSE, astray}
        /\ UNCHANGED <<dSent, dLost, bad, alerted, clean, cfg, run, lostNow, starts>>
    BY <1>4 DEF Rate!SetBitrate, Rate!Apply
  <2> QED BY <1>t, <1>i, <2>1
<1>5. ASSUME NEW on \in BOOLEAN, NEW band \in MinRates \X MaxRates, Rate!SetAdaptive(on, band)
      PROVE  RateInv'
  <2>1. /\ cfg' = [on  |-> on, min |-> IF band[1] = 0 THEN cfg.min ELSE band[1],
                   max |-> IF band[2] = 0 THEN cfg.max ELSE band[2]]
        /\ UNCHANGED <<dSent, dLost, bad, alerted, adapt, clean, run, lostNow, starts, astray>>
    BY <1>5 DEF Rate!SetAdaptive
  <2>2. cfg' \in [on : BOOLEAN, min : 0 .. Rate!BrMax, max : Nat]
    BY <1>0, <1>t, <2>1
  <2> QED BY <1>t, <1>i, <2>1, <2>2
<1>6. CASE UNCHANGED rateVars
  BY <1>t, <1>i, <1>6 DEF rateVars
<1>7. CASE Rate!CallStart
  <2>1. /\ starts < 2 /\ starts' = starts + 1 /\ adapt' = 0 /\ clean' = 0 /\ run' = 0
        /\ astray' = (astray \/ adapt # 0)
        /\ UNCHANGED <<dSent, dLost, bad, alerted, cfg, lostNow>>
    BY <1>7 DEF Rate!CallStart
  <2>2. starts' \in 0 .. 2
    BY ONLY <1>t, <2>1, SMT
  <2>3. astray' \in BOOLEAN
    BY <2>1
  <2> QED BY <1>t, <1>i, <2>1, <2>2, <2>3
<1>8. CASE Rate!Renegotiated
  <2>1. /\ astray' = (astray \/ adapt # 0)
        /\ UNCHANGED <<dSent, dLost, bad, alerted, adapt, clean, cfg, starts, run, lostNow>>
    BY <1>8 DEF Rate!Renegotiated
  <2>2. astray' \in BOOLEAN
    BY <2>1
  <2> QED BY <1>t, <1>i, <2>1, <2>2
<1> QED BY <1>1, <1>2, <1>3, <1>4, <1>5, <1>6, <1>7, <1>8 DEF Rate!Next

\* vox_adapt_fmtp_set_bitrate() replaces the rate and nothing else.
LEMMA FmtpFx ==
    ASSUME NEW params, NEW b
    PROVE  /\ Rate!Others(Rate!FmtpSet(params, b)) = Rate!Others(params)
           /\ Rate!Rates(Rate!FmtpSet(params, b)) = IF b = 0 THEN {} ELSE {<<Rate!RateKey, b>>}
<1>1. <<Rate!RateKey, b>>[1] = Rate!RateKey
  OBVIOUS
<1> QED BY <1>1 DEF Rate!Others, Rate!Rates, Rate!FmtpSet

\* Every step leaves the encoder and the rate as they are, sets both, or leaves the
\* one behind the other and says so.
LEMMA EncoderSteps ==
    ASSUME Rate!EncoderAsThought, [Rate!Next]_rateVars
    PROVE  Rate!EncoderAsThought'
<1> DEFINE Fmtp == (Params \X {1}) \cup ({"maxaveragebitrate"} \X Negotiated)
           Set(b) == adapt' = b /\ enc' = Rate!FmtpSet(Fmtp, b)
           Kept == UNCHANGED <<adapt, enc, astray>>
           Forgot == adapt' = 0 /\ enc' = enc /\ astray' = (astray \/ adapt # 0)
           Anew == adapt' = adapt /\ enc' = Fmtp /\ astray' = (astray \/ adapt # 0)
<1>1. Kept \/ Forgot \/ Anew \/ \E b : Set(b)
  <2>1. ASSUME NEW jittery \in BOOLEAN, NEW rtcp \in BOOLEAN, Rate!Tick(jittery, rtcp)
        PROVE  Kept \/ \E b : Set(b)
    BY <2>1 DEF Rate!Tick, Rate!BitrateTick, Rate!Apply
  <2>2. ASSUME NEW b \in SetRates, Rate!SetBitrate(b)
        PROVE  Kept \/ Set(b)
    BY <2>2 DEF Rate!SetBitrate, Rate!Apply
  <2>3. ASSUME NEW sent, NEW lost, Rate!Report(sent, lost) PROVE Kept
    BY <2>3 DEF Rate!Report
  <2>4. ASSUME Rate!CountersRestart PROVE Kept
    BY <2>4 DEF Rate!CountersRestart
  <2>5. ASSUME NEW on, NEW band, Rate!SetAdaptive(on, band) PROVE Kept
    BY <2>5 DEF Rate!SetAdaptive
  <2>6. ASSUME UNCHANGED rateVars PROVE Kept
    BY <2>6 DEF rateVars
  <2>7. ASSUME Rate!CallStart PROVE Forgot
    BY <2>7 DEF Rate!CallStart
  <2>8. ASSUME Rate!Renegotiated PROVE Anew
    BY <2>8 DEF Rate!Renegotiated
  <2> HIDE DEF Set, Kept, Forgot, Anew
  <2> QED BY <2>1, <2>2, <2>3, <2>4, <2>5, <2>6, <2>7, <2>8 DEF Rate!Next
<1>2. ASSUME NEW b, Set(b) PROVE Rate!EncoderAsThought'
  <2>1. /\ Rate!Others(enc') = Rate!Others(Fmtp)
        /\ Rate!Rates(enc') = IF b = 0 THEN {} ELSE {<<Rate!RateKey, b>>}
    BY <1>2, FmtpFx
  <2> QED BY <1>2, <2>1 DEF Rate!EncoderAsThought, Rate!Others, Rate!Rates
<1>3. CASE Kept
  BY <1>3 DEF Rate!EncoderAsThought, Rate!Others, Rate!Rates
<1>4. CASE Forgot
  <2>1. ~astray' => ~astray /\ adapt = 0
    BY <1>4
  <2> QED BY <1>4, <2>1 DEF Rate!EncoderAsThought, Rate!Others, Rate!Rates
<1>5. CASE Anew
  <2>1. ~astray' => adapt' = 0
    BY <1>5
  <2>2. Rate!Others(enc') = Rate!Others(Fmtp) /\ Rate!Rates(enc') = Rate!Rates(Fmtp)
    BY <1>5
  <2> QED BY <2>1, <2>2 DEF Rate!EncoderAsThought, Rate!Others, Rate!Rates
<1> QED BY <1>1, <1>2, <1>3, <1>4, <1>5

\* For any thresholds, bands and negotiated parameters: alerts and samples agree, a
\* tick moves the rate within its band and only for what was measured, and the encoder
\* keeps the negotiated parameters and, unless a start or a renegotiation came between,
\* the rate the SDK thinks.
THEOREM RateIsSound == Spec => RateSound
<1>1. Init => RateInv /\ Rate!EncoderAsThought
  BY RateBegins DEF Init, Rate!Init, Rate!EncoderAsThought
<1>2. RateInv /\ Rate!EncoderAsThought /\ [Next]_vars => (RateInv /\ Rate!EncoderAsThought)'
  BY PartSteps, RateSteps, EncoderSteps
<1>3. RateInv => Rate!TypeOK /\ Rate!AlertsAgree
  BY DEF RateInv
<1>4. RateInv /\ [Next]_vars => [Rate!JustifiedStep]_(Rate!vars)
  BY RateTick DEF Rate!JustifiedStep
<1> QED BY <1>1, <1>2, <1>3, <1>4, PTL DEF Spec, RateSound, Rate!StepsJustified

-----------------------------------------------------------------------------
(* The external audio device.                                              *)

\* list_unlink() takes c out of a list of distinct devices, and nothing else.
LEMMA UnlinkFx ==
    ASSUME NEW S, NEW list \in Seq(S), NEW c \in S,
           \A i, j \in DOMAIN list : list[i] = list[j] => i = j
    PROVE  LET u == Ext!Unlink(list, c) IN
           /\ u \in Seq(S)
           /\ \A i, j \in DOMAIN u : u[i] = u[j] => i = j
           /\ \A i \in DOMAIN u : u[i] # c /\ \E j \in DOMAIN list : u[i] = list[j]
           /\ \A j \in DOMAIN list : list[j] # c => \E i \in DOMAIN u : u[i] = list[j]
<1>0. DOMAIN list = 1 .. Len(list) /\ Len(list) \in Nat
  OBVIOUS
<1>1. CASE ~Ext!Contains(list, c)
  <2>1. Ext!Unlink(list, c) = list /\ \A i \in DOMAIN list : list[i] # c
    BY <1>0, <1>1 DEF Ext!Unlink, Ext!Contains
  <2> QED BY <2>1
<1>2. CASE Ext!Contains(list, c)
  <2> DEFINE k == CHOOSE i \in DOMAIN list : list[i] = c
             u == SubSeq(list, 1, k - 1) \o SubSeq(list, k + 1, Len(list))
  <2>1. k \in 1 .. Len(list) /\ list[k] = c
    BY <1>0, <1>2 DEF Ext!Contains
  <2>2. Ext!Unlink(list, c) = u
    BY <1>2 DEF Ext!Unlink, Ext!RemoveAt
  <2> HIDE DEF k
  <2> DEFINE before == SubSeq(list, 1, k - 1)
             after == SubSeq(list, k + 1, Len(list))
  <2>3. /\ before \in Seq(S) /\ Len(before) = k - 1
        /\ \A i \in 1 .. k - 1 : before[i] = list[i]
    <3>1. k - 1 \in Nat /\ 1 <= (k - 1) + 1 /\ k - 1 <= Len(list) /\ (k - 1) - 1 + 1 = k - 1
      BY <1>0, <2>1
    <3>2. /\ before \in Seq(S) /\ Len(before) = (k - 1) - 1 + 1
          /\ \A i \in 1 .. (k - 1) - 1 + 1 : before[i] = list[1 + i - 1]
      BY <3>1, Slice
    <3> HIDE DEF before
    <3> QED BY <2>1, <3>1, <3>2
  <2>4. /\ after \in Seq(S) /\ Len(after) = Len(list) - k
        /\ \A i \in 1 .. Len(list) - k : after[i] = list[k + i]
    <3>1. k \in Nat /\ k <= Len(list)
      BY <1>0, <2>1
    <3> QED BY <3>1, Rest
  <2> HIDE DEF before, after
  <2>5. /\ u \in Seq(S) /\ Len(u) = Len(list) - 1
        /\ \A i \in 1 .. Len(list) - 1 : u[i] = IF i < k THEN list[i] ELSE list[i + 1]
    <3>1. u = before \o after
      BY DEF before, after
    <3> HIDE DEF u
    <3>2. /\ u \in Seq(S) /\ Len(u) = (k - 1) + (Len(list) - k)
          /\ \A i \in 1 .. (k - 1) + (Len(list) - k) :
                u[i] = IF i <= k - 1 THEN before[i] ELSE after[i - (k - 1)]
      <4>1. /\ u \in Seq(S) /\ Len(u) = Len(before) + Len(after)
            /\ \A i \in 1 .. Len(before) + Len(after) :
                  u[i] = IF i <= Len(before) THEN before[i] ELSE after[i - Len(before)]
        <5>1. before \in Seq(S) /\ after \in Seq(S)
          BY <2>3, <2>4
        <5>2. /\ before \o after \in Seq(S) /\ Len(before \o after) = Len(before) + Len(after)
              /\ \A i \in 1 .. Len(before) + Len(after) : (before \o after)[i] =
                    IF i <= Len(before) THEN before[i] ELSE after[i - Len(before)]
          BY ONLY <5>1, Joined
        <5> QED BY <3>1, <5>2
      <4> QED BY <2>3, <2>4, <4>1
    <3>3. (k - 1) + (Len(list) - k) = Len(list) - 1
      BY <1>0, <2>1
    <3>4. ASSUME NEW i \in 1 .. Len(list) - 1
          PROVE  u[i] = IF i < k THEN list[i] ELSE list[i + 1]
      <4>1. CASE i < k
        BY <1>0, <2>1, <2>3, <3>2, <3>3, <4>1
      <4>2. CASE ~(i < k)
        <5>1. i - (k - 1) \in 1 .. Len(list) - k /\ k + (i - (k - 1)) = i + 1 /\ ~(i <= k - 1)
          BY <1>0, <2>1, <4>2
        <5> QED BY <2>4, <3>2, <3>3, <4>2, <5>1
      <4> QED BY <4>1, <4>2
    <3> QED BY <3>2, <3>3, <3>4
  <2> HIDE DEF u
  <2>6. DOMAIN u = 1 .. Len(list) - 1
    BY <2>5
  <2>7. \A i, j \in DOMAIN u : u[i] = u[j] => i = j
    <3>1. ASSUME NEW i \in DOMAIN u
          PROVE  LET f == IF i < k THEN i ELSE i + 1 IN f \in DOMAIN list /\ u[i] = list[f]
      BY <1>0, <2>1, <2>5, <2>6
    <3>2. ASSUME NEW i \in DOMAIN u, NEW j \in DOMAIN u, u[i] = u[j] PROVE i = j
      <4>1. (IF i < k THEN i ELSE i + 1) = (IF j < k THEN j ELSE j + 1)
        BY <3>1, <3>2
      <4> QED BY <2>1, <2>5, <2>6, <1>0, <4>1
    <3> QED BY <3>2
  <2>8. ASSUME NEW i \in DOMAIN u PROVE u[i] # c /\ \E j \in DOMAIN list : u[i] = list[j]
    <3>1. CASE i < k
      BY <1>0, <2>1, <2>5, <2>6, <3>1
    <3>2. CASE ~(i < k)
      <4>1. i + 1 \in DOMAIN list /\ i + 1 # k /\ u[i] = list[i + 1]
        BY <1>0, <2>1, <2>5, <2>6, <3>2
      <4> QED BY <1>0, <2>1, <4>1
    <3> QED BY <3>1, <3>2
  <2>9. ASSUME NEW j \in DOMAIN list, list[j] # c PROVE \E i \in DOMAIN u : u[i] = list[j]
    <3>1. CASE j < k
      <4>1. j \in DOMAIN u /\ u[j] = list[j]
        BY <1>0, <2>1, <2>5, <2>6, <3>1
      <4> QED BY <4>1
    <3>2. CASE j > k
      <4>1. j - 1 \in DOMAIN u /\ ~(j - 1 < k) /\ (j - 1) + 1 = j
        BY <1>0, <2>1, <2>5, <2>6, <3>2
      <4>2. u[j - 1] = list[j]
        BY <2>5, <2>6, <4>1
      <4> QED BY <4>1, <4>2
    <3>3. j < k \/ j > k
      BY <1>0, <2>1, <2>9
    <3> QED BY <3>1, <3>2, <3>3
  <2> QED BY <2>2, <2>5, <2>7, <2>8, <2>9
<1> QED BY <1>1, <1>2

\* The samples of s are in order, and none is later than the n-th.
Ordered(s, n) ==
    /\ \A i, j \in DOMAIN s : i < j => s[i] < s[j]
    /\ \A i \in DOMAIN s : s[i] <= n

\* A push of n samples after the p-th, from which the oldest are dropped, leaves what
\* the encoder had (h) and will have in order.
LEMMA WriteStream ==
    ASSUME NEW h \in Seq(Nat), NEW b \in Seq(Nat), NEW p \in Nat, NEW n \in Nat,
           Ordered(h \o b, p), NEW over \in 0 .. Len(b) + n
    PROVE  LET all == b \o [i \in 1 .. n |-> p + i]
               left == SubSeq(all, over + 1, Len(all))
           IN  /\ Len(all) = Len(b) + n
               /\ left \in Seq(Nat) /\ Len(left) = Len(b) + n - over
               /\ h \o left \in Seq(Nat) /\ Len(h \o left) = Len(h) + Len(left)
               /\ Ordered(h \o left, p + n)
<1> DEFINE new == [i \in 1 .. n |-> p + i]
           all == b \o new
           left == SubSeq(all, over + 1, Len(all))
           old == h \o b
           res == h \o left
<1>1. new \in Seq(Nat) /\ Len(new) = n /\ \A i \in 1 .. n : new[i] = p + i
  OBVIOUS
<1> HIDE DEF new
<1>2. /\ all \in Seq(Nat) /\ Len(all) = Len(b) + n
      /\ \A i \in 1 .. Len(b) + n : all[i] = IF i <= Len(b) THEN b[i] ELSE p + (i - Len(b))
  <2>1. /\ all \in Seq(Nat) /\ Len(all) = Len(b) + n /\ Len(b) \in Nat
        /\ \A i \in 1 .. Len(b) + n : all[i] = IF i <= Len(b) THEN b[i] ELSE new[i - Len(b)]
    BY <1>1, Joined
  <2> HIDE DEF all
  <2>2. ASSUME NEW i \in 1 .. Len(b) + n, ~(i <= Len(b)) PROVE all[i] = p + (i - Len(b))
    <3>1. i - Len(b) \in 1 .. n
      BY <2>1, <2>2
    <3> QED BY <1>1, <2>1, <2>2, <3>1
  <2> QED BY <2>1, <2>2
<1> HIDE DEF all
<1>3. /\ left \in Seq(Nat) /\ Len(left) = Len(b) + n - over
      /\ \A i \in 1 .. Len(b) + n - over : left[i] = all[over + i]
  <2>1. /\ over + 1 \in Nat /\ 1 <= over + 1 /\ Len(all) \in Nat /\ over + 1 <= Len(all) + 1
        /\ Len(all) - (over + 1) + 1 = Len(b) + n - over /\ over \in Nat
    BY <1>2
  <2>2. /\ left \in Seq(Nat) /\ Len(left) = Len(all) - (over + 1) + 1
        /\ \A i \in 1 .. Len(all) - (over + 1) + 1 : left[i] = all[(over + 1) + i - 1]
    BY <1>2, <2>1, Slice
  <2> HIDE DEF left
  <2>3. \A i \in 1 .. Len(b) + n - over : (over + 1) + i - 1 = over + i
    BY <2>1
  <2> QED BY <2>1, <2>2, <2>3
<1> HIDE DEF left
<1>4. /\ old \in Seq(Nat) /\ DOMAIN old = 1 .. Len(h) + Len(b)
      /\ \A i \in 1 .. Len(h) + Len(b) : old[i] = IF i <= Len(h) THEN h[i] ELSE b[i - Len(h)]
  BY Joined
<1>5. /\ res \in Seq(Nat) /\ Len(res) = Len(h) + Len(left) /\ DOMAIN res = 1 .. Len(h) + Len(left)
      /\ \A i \in 1 .. Len(h) + Len(left) : res[i] = IF i <= Len(h) THEN h[i] ELSE left[i - Len(h)]
  BY <1>3, Joined
<1>6. /\ \A i, j \in DOMAIN old : i < j => old[i] < old[j]
      /\ \A i \in DOMAIN old : old[i] <= p
  BY DEF Ordered
<1> HIDE DEF old, res
<1>e. \A i \in DOMAIN res : res[i] \in Nat
  BY <1>5
<1>d. Len(h) \in Nat /\ Len(b) \in Nat /\ Len(left) \in Nat /\ over \in Nat
  BY <1>3
<1> DEFINE from(i) == IF i <= Len(h) THEN i ELSE i + over
\* What the i-th sample of the result was in the stream without the drop.
<1>7. ASSUME NEW i \in DOMAIN res
      PROVE  /\ from(i) \in 1 .. Len(h) + Len(b) + n
             /\ from(i) <= Len(h) + Len(b) => res[i] = old[from(i)]
             /\ from(i) > Len(h) + Len(b) => res[i] = p + (from(i) - (Len(h) + Len(b)))
  <2>1. CASE i <= Len(h)
    <3>1. i \in 1 .. Len(h) + Len(b) /\ i \in 1 .. Len(h) + Len(left) /\ from(i) = i
      BY <1>d, <1>5, <2>1
    <3>2. res[i] = h[i] /\ old[i] = h[i]
      BY <1>4, <1>5, <2>1, <3>1
    <3> QED BY <1>d, <3>1, <3>2
  <2>2. CASE i > Len(h)
    <3>1. i - Len(h) \in 1 .. Len(b) + n - over /\ res[i] = left[i - Len(h)]
      <4>1. i \in 1 .. Len(h) + Len(left) /\ ~(i <= Len(h))
        BY <1>d, <1>5, <2>2
      <4>2. res[i] = left[i - Len(h)]
        BY <1>5, <4>1
      <4>3. i - Len(h) \in 1 .. Len(b) + n - over
        BY SMTT(40), <1>d, <1>3, <4>1
      <4> QED BY <4>2, <4>3
    <3>2. res[i] = all[over + (i - Len(h))] /\ over + (i - Len(h)) \in 1 .. Len(b) + n
      BY SMTT(40), <1>d, <1>3, <3>1
    <3>3. from(i) = i + over /\ i \in Nat
      BY SMTT(40), <1>d, <1>5, <2>2
    <3>4. CASE over + (i - Len(h)) <= Len(b)
      <4>1. res[i] = b[over + (i - Len(h))]
        BY <1>2, <3>2, <3>4
      <4>2. /\ i + over \in 1 .. Len(h) + Len(b) /\ ~(i + over <= Len(h))
            /\ (i + over) - Len(h) = over + (i - Len(h))
        BY <1>d, <2>2, <3>2, <3>3, <3>4
      <4>3. old[i + over] = b[over + (i - Len(h))]
        BY <1>4, <4>2
      <4> QED BY SMTT(40), <1>d, <3>3, <4>1, <4>2, <4>3
    <3>5. CASE over + (i - Len(h)) > Len(b)
      <4>1. res[i] = p + ((over + (i - Len(h))) - Len(b))
        BY <1>2, <1>d, <3>2, <3>5
      <4> QED BY SMTT(40), <1>d, <3>2, <3>3, <3>5, <4>1
    <3> QED BY <1>d, <3>2, <3>4, <3>5
  <2> QED BY <1>d, <1>5, <2>1, <2>2
<1>8. ASSUME NEW i \in DOMAIN res, NEW j \in DOMAIN res, i < j PROVE res[i] < res[j]
  <2>1. from(i) < from(j)
    BY SMTT(40), <1>d, <1>5, <1>8
  <2>2. /\ from(i) \in 1 .. Len(h) + Len(b) + n /\ from(j) \in 1 .. Len(h) + Len(b) + n
        /\ from(i) <= Len(h) + Len(b) => res[i] = old[from(i)]
        /\ from(i) > Len(h) + Len(b) => res[i] = p + (from(i) - (Len(h) + Len(b)))
        /\ from(j) <= Len(h) + Len(b) => res[j] = old[from(j)]
        /\ from(j) > Len(h) + Len(b) => res[j] = p + (from(j) - (Len(h) + Len(b)))
    BY <1>7
  <2>3. res[i] \in Nat /\ res[j] \in Nat
    BY <1>e
  <2> HIDE DEF from
  <2>4. CASE from(j) <= Len(h) + Len(b)
    BY SMTT(40), <1>d, <1>4, <1>6, <2>1, <2>2, <2>4
  <2>5. CASE from(i) <= Len(h) + Len(b) /\ from(j) > Len(h) + Len(b)
    <3>1. res[i] <= p
      BY <1>d, <1>4, <1>6, <2>2, <2>5
    <3> QED BY <1>d, <2>2, <2>3, <2>5, <3>1
  <2>6. CASE from(i) > Len(h) + Len(b) /\ from(j) > Len(h) + Len(b)
    BY <1>d, <2>1, <2>2, <2>6
  <2> QED BY <1>d, <2>1, <2>2, <2>4, <2>5, <2>6
<1>9. ASSUME NEW i \in DOMAIN res PROVE res[i] <= p + n
  <2>2. /\ from(i) \in 1 .. Len(h) + Len(b) + n
        /\ from(i) <= Len(h) + Len(b) => res[i] = old[from(i)]
        /\ from(i) > Len(h) + Len(b) => res[i] = p + (from(i) - (Len(h) + Len(b)))
    BY <1>7
  <2>3. res[i] \in Nat
    BY <1>e
  <2> HIDE DEF from
  <2>4. CASE from(i) <= Len(h) + Len(b)
    <3>1. res[i] <= p
      BY <1>d, <1>4, <1>6, <2>2, <2>4
    <3> QED BY <2>3, <3>1
  <2>5. CASE from(i) > Len(h) + Len(b)
    BY <1>d, <2>2, <2>5
  <2> QED BY <1>d, <2>2, <2>4, <2>5
<1>10. Ordered(res, p + n)
  BY <1>8, <1>9 DEF Ordered
<1> QED BY <1>2, <1>3, <1>5, <1>10 DEF new, all, left, res

\* A frame that goes from the buffer to the encoder changes nothing in what it has had
\* and will have.
LEMMA DrainStream ==
    ASSUME NEW h \in Seq(Nat), NEW b \in Seq(Nat), NEW f \in 1 .. Len(b)
    PROVE  LET had == h \o SubSeq(b, 1, f)
               left == SubSeq(b, f + 1, Len(b))
           IN  /\ had \in Seq(Nat) /\ Len(had) = Len(h) + f
               /\ left \in Seq(Nat) /\ Len(left) = Len(b) - f
               /\ had \o left = h \o b
<1> DEFINE head == SubSeq(b, 1, f)
           left == SubSeq(b, f + 1, Len(b))
<1>0. Len(b) \in Nat /\ f \in Nat /\ f <= Len(b)
  OBVIOUS
<1>1. head \in Seq(Nat) /\ Len(head) = f /\ \A i \in 1 .. f : head[i] = b[i]
  <2>1. 1 \in Nat /\ 1 <= f + 1 /\ f - 1 + 1 = f
    BY <1>0
  <2>2. /\ head \in Seq(Nat) /\ Len(head) = f - 1 + 1
        /\ \A i \in 1 .. f - 1 + 1 : head[i] = b[1 + i - 1]
    BY <1>0, <2>1, Slice
  <2> HIDE DEF head
  <2> QED BY <1>0, <2>1, <2>2
<1>2. left \in Seq(Nat) /\ Len(left) = Len(b) - f /\ \A i \in 1 .. Len(b) - f : left[i] = b[f + i]
  BY <1>0, Rest
<1> HIDE DEF head, left
<1>3. head \o left = b
  <2> DEFINE c == head \o left
  <2>1. /\ c \in Seq(Nat) /\ Len(c) = f + (Len(b) - f)
        /\ \A i \in 1 .. f + (Len(b) - f) : c[i] = IF i <= f THEN head[i] ELSE left[i - f]
    <3>1. /\ c \in Seq(Nat) /\ Len(c) = Len(head) + Len(left)
          /\ \A i \in 1 .. Len(head) + Len(left) :
                c[i] = IF i <= Len(head) THEN head[i] ELSE left[i - Len(head)]
      BY <1>1, <1>2, Joined
    <3> HIDE DEF c
    <3> QED BY <1>1, <1>2, <3>1
  <2> HIDE DEF c
  <2>2. f + (Len(b) - f) = Len(b)
    BY <1>0
  <2>3. ASSUME NEW i \in 1 .. Len(b) PROVE c[i] = b[i]
    <3>1. CASE i <= f
      BY <1>0, <1>1, <2>1, <2>2, <3>1
    <3>2. CASE ~(i <= f)
      <4>1. i - f \in 1 .. Len(b) - f /\ f + (i - f) = i
        BY <1>0, <3>2
      <4> QED BY <1>2, <2>1, <2>2, <3>2, <4>1
    <3> QED BY <3>1, <3>2
  <2>4. c = b
    <3>1. c \in Seq(Nat) /\ Len(c) = Len(b) /\ \A i \in 1 .. Len(c) : c[i] = b[i]
      BY <1>0, <2>1, <2>2, <2>3
    <3> QED BY <3>1, SeqEqual
  <2> QED BY <2>4 DEF c
<1>4. (h \o head) \o left = h \o (head \o left)
  <2>1. ASSUME NEW s \in Seq(Nat), NEW t \in Seq(Nat) PROVE (h \o s) \o t = h \o (s \o t)
    BY Associative, ZenonT(60)
  <2>2. head \in Seq(Nat) /\ left \in Seq(Nat)
    BY <1>1, <1>2
  <2> QED BY ONLY <2>1, <2>2, Zenon
<1>5. h \o head \in Seq(Nat) /\ Len(h \o head) = Len(h) + f
  BY <1>1, Joined
<1> QED BY <1>1, <1>2, <1>3, <1>4, <1>5 DEF head, left

\* Every variable of the device has its type; both lists are one.
DevTypes ==
    /\ ready \in BOOLEAN /\ closing \in BOOLEAN
    /\ dev \in [ExtCalls -> {"none", "open", "freed"}]
    /\ srcl \in Seq(ExtCalls) /\ playl = srcl
    /\ push \in [at : {"away", "locking", "write", "drain"}, dev : ExtCalls \cup {Nobody}]
    /\ pull \in [at : {"away", "locking", "read"}, dev : ExtCalls \cup {Nobody}]
    /\ buf \in [ExtCalls -> Seq(Nat)] /\ heard \in [ExtCalls -> Seq(Nat)]
    /\ pushed \in [ExtCalls -> Nat]

\* The list is of open devices, each once, and of all of them until it is cleared.
DevLists ==
    /\ closing => ~ready
    /\ \A i, j \in DOMAIN srcl : srcl[i] = srcl[j] => i = j
    /\ \A i \in DOMAIN srcl : dev[srcl[i]] = "open"
    /\ ready => \A c \in ExtCalls : dev[c] = "open" => \E i \in DOMAIN srcl : srcl[i] = c

\* A thread inside s_lock holds it, and what it found in the list is open.
DevLock ==
    /\ lock \in {Nobody, "push", "pull"}
    /\ lock = "push" <=> push.at \in {"write", "drain"}
    /\ lock = "pull" <=> pull.at = "read"
    /\ push.at \in {"write", "drain"} => push.dev \in ExtCalls /\ dev[push.dev] = "open"
    /\ pull.at = "read" => pull.dev \in ExtCalls /\ dev[pull.dev] = "open"

\* No push is too large for the buffer.
PushesFit == \A n \in PushSizes : n + Frame - 1 <= BufMax

\* What the encoder of c has had and will have is in order; until a push loses some,
\* it is all.
DevStream(c) ==
    /\ Len(buf[c]) <= BufMax
    /\ ~(push.at = "drain" /\ push.dev = c) => Len(buf[c]) < Frame
    /\ Ordered(heard[c] \o buf[c], pushed[c])
    /\ PushesFit => Len(heard[c]) + Len(buf[c]) = pushed[c]

ExtInv == DevTypes /\ DevLists /\ DevLock /\ \A c \in ExtCalls : DevStream(c)

\* The invariant holds of the device before the first call.
LEMMA ExtBegins ==
    ASSUME Ext!Init
    PROVE  ExtInv
<1>1. /\ ready = TRUE /\ closing = FALSE /\ srcl = <<>> /\ playl = <<>> /\ lock = Nobody
      /\ dev = [c \in ExtCalls |-> "none"]
      /\ push = [at |-> "away", dev |-> Nobody] /\ pull = [at |-> "away", dev |-> Nobody]
      /\ buf = [c \in ExtCalls |-> <<>>] /\ heard = [c \in ExtCalls |-> <<>>]
      /\ pushed = [c \in ExtCalls |-> 0]
  BY DEF Ext!Init, Ext!Away
<1>2. Frame \in Nat \ {0} /\ BufMax \in Nat /\ Nobody # "push" /\ Nobody # "pull"
  BY MediaAssumption
<1>3. DevTypes
  <2>1. <<>> \in Seq(Nat) /\ <<>> \in Seq(ExtCalls) /\ 0 \in Nat
    OBVIOUS
  <2>2. buf \in [ExtCalls -> Seq(Nat)] /\ heard \in [ExtCalls -> Seq(Nat)]
    BY <1>1, <2>1, Zenon
  <2>3. pushed \in [ExtCalls -> Nat] /\ dev \in [ExtCalls -> {"none", "open", "freed"}]
    BY <1>1
  <2>4. /\ push \in [at : {"away", "locking", "write", "drain"}, dev : ExtCalls \cup {Nobody}]
        /\ pull \in [at : {"away", "locking", "read"}, dev : ExtCalls \cup {Nobody}]
    BY <1>1
  <2> QED BY <1>1, <2>1, <2>2, <2>3, <2>4 DEF DevTypes
<1>4. DevLists
  BY <1>1 DEF DevLists
<1>5. DevLock
  BY <1>1, <1>2 DEF DevLock
<1>6. ASSUME NEW c \in ExtCalls PROVE DevStream(c)
  <2>1. buf[c] = <<>> /\ heard[c] = <<>> /\ pushed[c] = 0
    BY <1>1
  <2>2. <<>> \o <<>> = <<>> /\ Len(<<>>) = 0
    OBVIOUS
  <2>3. Ordered(<<>>, 0)
    BY DEF Ordered
  <2> QED BY <1>2, <2>1, <2>2, <2>3 DEF DevStream
<1> QED BY <1>3, <1>4, <1>5, <1>6 DEF ExtInv

\* The newest device of a list that is not empty is one of the list.
LEMMA NewestFx ==
    ASSUME NEW list \in Seq(ExtCalls)
    PROVE  /\ Ext!Newest(list) = Nobody <=> list = <<>>
           /\ list # <<>> => \E i \in DOMAIN list : Ext!Newest(list) = list[i]
           /\ Ext!Newest(list) # Nobody => Ext!Newest(list) \in ExtCalls
<1>1. Nobody \notin ExtCalls
  BY MediaAssumption
<1>2. CASE list = <<>>
  BY <1>2 DEF Ext!Newest
<1>3. CASE list # <<>>
  <2>1. Len(list) \in DOMAIN list /\ list[Len(list)] \in ExtCalls
    BY <1>3
  <2>2. Ext!Newest(list) = list[Len(list)]
    BY <1>3 DEF Ext!Newest, Ext!Last
  <2> QED BY <1>1, <1>3, <2>1, <2>2
<1> QED BY <1>2, <1>3

\* The stream of a device that a step leaves alone.
LEMMA StreamKept ==
    ASSUME NEW c \in ExtCalls, DevStream(c), UNCHANGED <<buf, heard, pushed>>,
           Len(buf[c]) < Frame \/ UNCHANGED push
    PROVE  DevStream(c)'
<1>1. CASE Len(buf[c]) < Frame
  <2>1. Len(buf'[c]) < Frame
    BY <1>1
  <2> QED BY <2>1 DEF DevStream
<1>2. CASE UNCHANGED push
  BY <1>2 DEF DevStream
<1> QED BY <1>1, <1>2

\* The application's capture thread keeps the invariant.
LEMMA PushKeeps ==
    ASSUME ExtInv, Ext!PushEnter \/ Ext!PushLock
    PROVE  ExtInv'
<1>t. DevTypes /\ DevLists /\ DevLock /\ \A c \in ExtCalls : DevStream(c)
  BY DEF ExtInv
<1>n. Nobody # "push" /\ Nobody # "pull" /\ Nobody \notin ExtCalls
  BY MediaAssumption
<1>u. /\ UNCHANGED <<ready, srcl, playl, dev, pull, buf, heard, pushed, closing>>
      /\ push.at \in {"away", "locking"}
  BY DEF Ext!PushEnter, Ext!PushLock, Ext!devVars, Ext!bufVars
<1>1. ASSUME NEW c \in ExtCalls PROVE DevStream(c)'
  <2>1. DevStream(c) /\ Len(buf[c]) < Frame
    BY <1>t, <1>u DEF DevStream
  <2> QED BY <1>u, <2>1, StreamKept
<1>2. DevLists'
  BY <1>t, <1>u DEF DevLists
<1>3. CASE Ext!PushEnter
  <2>1. push.at = "away" /\ push' = [push EXCEPT !.at = "locking"] /\ lock' = lock
    BY <1>3 DEF Ext!PushEnter
  <2>2. push' \in [at : {"away", "locking", "write", "drain"}, dev : ExtCalls \cup {Nobody}]
        /\ push'.at = "locking"
    BY <1>t, <2>1 DEF DevTypes
  <2>3. DevTypes'
    BY <1>t, <1>u, <2>2 DEF DevTypes
  <2>4. DevLock'
    BY <1>t, <1>u, <2>1, <2>2 DEF DevLock
  <2> QED BY <1>1, <1>2, <2>3, <2>4 DEF ExtInv
<1>4. CASE Ext!PushLock
  <2>1. push.at = "locking" /\ lock = Nobody
    BY <1>4 DEF Ext!PushLock
  <2>2. CASE Ext!Newest(srcl) = Nobody
    <3>1. push' = [at |-> "away", dev |-> Nobody] /\ lock' = lock
      BY <1>4, <2>2 DEF Ext!PushLock, Ext!Away
    <3>2. DevTypes'
      BY <1>t, <1>u, <3>1 DEF DevTypes
    <3>3. DevLock'
      BY <1>t, <1>u, <2>1, <3>1, <1>n DEF DevLock
    <3> QED BY <1>1, <1>2, <3>2, <3>3 DEF ExtInv
  <2>3. CASE Ext!Newest(srcl) # Nobody
    <3>0. PICK d : d = Ext!Newest(srcl)
      OBVIOUS
    <3>1. push' = [at |-> "write", dev |-> d] /\ lock' = "push"
      BY <1>4, <2>3, <3>0 DEF Ext!PushLock
    <3>2. d \in ExtCalls /\ dev[d] = "open"
      BY <1>t, <2>3, <3>0, NewestFx DEF DevTypes, DevLists
    <3>3. DevTypes'
      BY <1>t, <1>u, <3>1, <3>2 DEF DevTypes
    <3>4. pull.at # "read"
      BY <1>t, <1>n, <2>1 DEF DevLock
    <3>5. DevLock'
      BY <1>t, <1>u, <3>1, <3>2, <3>4 DEF DevLock
    <3> QED BY <1>1, <1>2, <3>3, <3>5 DEF ExtInv
  <2> QED BY <2>2, <2>3
<1> QED BY <1>3, <1>4

\* The playback thread keeps it.
LEMMA PullKeeps ==
    ASSUME ExtInv, Ext!PullEnter \/ Ext!PullLock \/ Ext!PullRead
    PROVE  ExtInv'
<1>t. DevTypes /\ DevLists /\ DevLock /\ \A c \in ExtCalls : DevStream(c)
  BY DEF ExtInv
<1>n. Nobody # "push" /\ Nobody # "pull" /\ Nobody \notin ExtCalls
  BY MediaAssumption
<1>u. UNCHANGED <<ready, srcl, playl, dev, push, buf, heard, pushed, closing>>
  BY DEF Ext!PullEnter, Ext!PullLock, Ext!PullRead, Ext!devVars, Ext!bufVars
<1>1. ASSUME NEW c \in ExtCalls PROVE DevStream(c)'
  BY <1>t, <1>u, StreamKept
<1>2. DevLists'
  BY <1>t, <1>u DEF DevLists
<1>3. CASE Ext!PullEnter
  <2>1. pull.at = "away" /\ pull' = [pull EXCEPT !.at = "locking"] /\ lock' = lock
    BY <1>3 DEF Ext!PullEnter
  <2>2. pull' \in [at : {"away", "locking", "read"}, dev : ExtCalls \cup {Nobody}]
        /\ pull'.at = "locking"
    BY <1>t, <2>1 DEF DevTypes
  <2>3. DevTypes'
    BY <1>t, <1>u, <2>2 DEF DevTypes
  <2>4. DevLock'
    BY <1>t, <1>u, <2>1, <2>2 DEF DevLock
  <2> QED BY <1>1, <1>2, <2>3, <2>4 DEF ExtInv
<1>4. CASE Ext!PullLock
  <2>1. pull.at = "locking" /\ lock = Nobody
    BY <1>4 DEF Ext!PullLock
  <2>2. CASE Ext!Newest(playl) = Nobody
    <3>1. pull' = [at |-> "away", dev |-> Nobody] /\ lock' = lock
      BY <1>4, <2>2 DEF Ext!PullLock, Ext!Away
    <3>2. DevTypes'
      BY <1>t, <1>u, <3>1 DEF DevTypes
    <3>3. DevLock'
      BY <1>t, <1>u, <2>1, <3>1, <1>n DEF DevLock
    <3> QED BY <1>1, <1>2, <3>2, <3>3 DEF ExtInv
  <2>3. CASE Ext!Newest(playl) # Nobody
    <3>0. PICK d : d = Ext!Newest(playl)
      OBVIOUS
    <3>1. pull' = [at |-> "read", dev |-> d] /\ lock' = "pull"
      BY <1>4, <2>3, <3>0 DEF Ext!PullLock
    <3>2. d \in ExtCalls /\ dev[d] = "open"
      BY <1>t, <2>3, <3>0, NewestFx DEF DevTypes, DevLists
    <3>3. DevTypes'
      BY <1>t, <1>u, <3>1, <3>2 DEF DevTypes
    <3>4. push.at \notin {"write", "drain"}
      BY <1>t, <1>n, <2>1 DEF DevLock
    <3>5. DevLock'
      BY <1>t, <1>u, <3>1, <3>2, <3>4 DEF DevLock
    <3> QED BY <1>1, <1>2, <3>3, <3>5 DEF ExtInv
  <2> QED BY <2>2, <2>3
<1>5. CASE Ext!PullRead
  <2>1. pull.at = "read" /\ pull' = [at |-> "away", dev |-> Nobody] /\ lock' = Nobody
    BY <1>5 DEF Ext!PullRead, Ext!Away
  <2>2. DevTypes'
    BY <1>t, <1>u, <2>1 DEF DevTypes
  <2>3. lock = "pull" /\ push.at \notin {"write", "drain"}
    BY <1>t, <2>1 DEF DevLock
  <2>4. DevLock'
    BY <1>t, <1>n, <1>u, <2>1, <2>3 DEF DevLock
  <2> QED BY <1>1, <1>2, <2>2, <2>4 DEF ExtInv
<1> QED BY <1>3, <1>4, <1>5

\* A push goes into the buffer of the device that the thread holds open.
LEMMA WriteKeeps ==
    ASSUME ExtInv, NEW n \in PushSizes, Ext!PushWrite(n)
    PROVE  ExtInv'
<1>t. DevTypes /\ DevLists /\ DevLock /\ \A c \in ExtCalls : DevStream(c)
  BY DEF ExtInv
<1>n. Frame \in Nat \ {0} /\ BufMax \in Nat /\ Frame <= BufMax /\ n \in Nat
  BY MediaAssumption
<1>0. PICK d : d = push.dev
  OBVIOUS
<1>1. /\ push.at = "write" /\ push' = [push EXCEPT !.at = "drain"]
      /\ UNCHANGED <<ready, srcl, playl, dev, lock, pull, heard, closing>>
  BY DEF Ext!PushWrite, Ext!devVars
<1>2. d \in ExtCalls /\ dev[d] = "open"
  BY <1>t, <1>0, <1>1 DEF DevLock
<1>3. PICK b, h, p : b = buf[d] /\ h = heard[d] /\ p = pushed[d]
  OBVIOUS
<1>4. /\ b \in Seq(Nat) /\ h \in Seq(Nat) /\ p \in Nat
      /\ Len(b) < Frame /\ Ordered(h \o b, p) /\ (PushesFit => Len(h) + Len(b) = p)
  BY <1>t, <1>1, <1>2, <1>3 DEF DevTypes, DevStream
<1> DEFINE all == b \o [i \in 1 .. n |-> p + i]
<1>5. Len(all) = Len(b) + n /\ Len(b) \in Nat /\ Len(h) \in Nat
  <2>1. 0 \in 0 .. Len(b) + n /\ Len(b) \in Nat /\ Len(h) \in Nat
    BY <1>n, <1>4
  <2> QED BY <1>n, <1>4, <2>1, WriteStream
<1>6. PICK over : over = IF Len(all) > BufMax THEN Len(all) - BufMax ELSE 0
  OBVIOUS
<1>7. PICK left : left = SubSeq(all, over + 1, Len(all))
  OBVIOUS
<1>8. buf' = [buf EXCEPT ![d] = left] /\ pushed' = [pushed EXCEPT ![d] = p + n]
  BY <1>0, <1>3, <1>6, <1>7 DEF Ext!PushWrite
<1>9. over \in 0 .. Len(b) + n /\ Len(b) + n - over <= BufMax
      /\ (Len(b) + n <= BufMax => over = 0)
  <2> HIDE DEF all
  <2> QED BY <1>n, <1>5, <1>6
<1>10. /\ left \in Seq(Nat) /\ Len(left) = Len(b) + n - over
       /\ Ordered(h \o left, p + n)
  BY SMTT(40), <1>n, <1>4, <1>7, <1>9, WriteStream
<1> HIDE DEF all
<1>11. push' \in [at : {"away", "locking", "write", "drain"}, dev : ExtCalls \cup {Nobody}]
       /\ push'.at = "drain" /\ push'.dev = d
  BY <1>t, <1>0, <1>1, <1>2 DEF DevTypes
<1>12. buf' \in [ExtCalls -> Seq(Nat)] /\ pushed' \in [ExtCalls -> Nat]
  <2>1. p + n \in Nat
    BY <1>n, <1>4
  <2>2. buf \in [ExtCalls -> Seq(Nat)] /\ pushed \in [ExtCalls -> Nat]
    BY <1>t DEF DevTypes
  <2>3. buf' \in [ExtCalls -> Seq(Nat)]
    BY <1>8, <1>10, <2>2, Zenon
  <2>4. pushed' \in [ExtCalls -> Nat]
    BY <1>8, <2>1, <2>2, Zenon
  <2> QED BY <2>3, <2>4
<1>13. DevTypes'
  BY <1>t, <1>1, <1>11, <1>12 DEF DevTypes
<1>14. DevLists'
  BY <1>t, <1>1 DEF DevLists
<1>15. DevLock'
  BY <1>t, <1>1, <1>2, <1>11 DEF DevLock
<1>16. DevStream(d)'
  <2>1. buf'[d] = left /\ heard'[d] = h /\ pushed'[d] = p + n
    BY <1>t, <1>1, <1>2, <1>3, <1>8 DEF DevTypes
  <2>2. PushesFit => Len(b) + n <= BufMax
    BY <1>n, <1>4, <1>5 DEF PushesFit
  <2>3. Len(left) <= BufMax
    BY <1>9, <1>10
  <2>4. PushesFit => Len(h) + Len(left) = p + n
    <3>1. SUFFICES ASSUME PushesFit PROVE Len(h) + Len(left) = p + n
      OBVIOUS
    <3>2. over = 0 /\ Len(h) + Len(b) = p
      BY <1>4, <1>9, <2>2, <3>1
    <3> QED BY <1>n, <1>5, <1>10, <3>2
  <2>5. /\ Len(buf'[d]) <= BufMax /\ Ordered(heard'[d] \o buf'[d], pushed'[d])
        /\ PushesFit => Len(heard'[d]) + Len(buf'[d]) = pushed'[d]
    BY <1>10, <2>1, <2>3, <2>4
  <2> QED BY <1>11, <2>5 DEF DevStream, Ordered, PushesFit
<1>17. ASSUME NEW c \in ExtCalls, c # d PROVE DevStream(c)'
  <2>1. buf'[c] = buf[c] /\ heard'[c] = heard[c] /\ pushed'[c] = pushed[c]
    BY <1>t, <1>1, <1>8, <1>17 DEF DevTypes
  <2>2. DevStream(c) /\ ~(push.at = "drain")
    BY <1>t, <1>1
  <2> QED BY <2>1, <2>2 DEF DevStream, Ordered, PushesFit
<1> QED BY <1>13, <1>14, <1>15, <1>16, <1>17 DEF ExtInv

\* The drain hands over whole frames and lets go of the lock when none is left.
LEMMA DrainKeeps ==
    ASSUME ExtInv, Ext!PushDrain
    PROVE  ExtInv'
<1>t. DevTypes /\ DevLists /\ DevLock /\ \A c \in ExtCalls : DevStream(c)
  BY DEF ExtInv
<1>n. Frame \in Nat \ {0} /\ BufMax \in Nat /\ Nobody # "push" /\ Nobody # "pull"
  BY MediaAssumption
<1>0. PICK d : d = push.dev
  OBVIOUS
<1>1. push.at = "drain" /\ UNCHANGED <<ready, srcl, playl, dev, pull, pushed, closing>>
  BY DEF Ext!PushDrain, Ext!devVars
<1>2. d \in ExtCalls /\ dev[d] = "open" /\ lock = "push" /\ pull.at # "read"
  BY <1>t, <1>0, <1>1 DEF DevLock
<1>3. DevLists'
  BY <1>t, <1>1 DEF DevLists
<1>4. CASE Len(buf[d]) < Frame
  <2>1. lock' = Nobody /\ push' = [at |-> "away", dev |-> Nobody] /\ UNCHANGED <<buf, heard>>
    BY <1>0, <1>4 DEF Ext!PushDrain, Ext!Away
  <2>2. DevTypes'
    BY <1>t, <1>1, <2>1 DEF DevTypes
  <2>3. DevLock'
    BY <1>t, <1>n, <1>1, <1>2, <2>1 DEF DevLock
  <2>4. ASSUME NEW c \in ExtCalls PROVE DevStream(c)'
    <3>1. DevStream(c) /\ Len(buf[c]) < Frame
      BY <1>t, <1>0, <1>4 DEF DevStream
    <3> QED BY <1>1, <2>1, <3>1, StreamKept
  <2> QED BY <1>3, <2>2, <2>3, <2>4 DEF ExtInv
<1>5. CASE ~(Len(buf[d]) < Frame)
  <2>1. PICK b, h, p : b = buf[d] /\ h = heard[d] /\ p = pushed[d]
    OBVIOUS
  <2>2. /\ b \in Seq(Nat) /\ h \in Seq(Nat) /\ p \in Nat
        /\ Len(b) <= BufMax /\ Ordered(h \o b, p) /\ (PushesFit => Len(h) + Len(b) = p)
    BY <1>t, <1>2, <2>1 DEF DevTypes, DevStream
  <2>3. PICK g, left : g = h \o SubSeq(b, 1, Frame) /\ left = SubSeq(b, Frame + 1, Len(b))
    OBVIOUS
  <2>4. heard' = [heard EXCEPT ![d] = g] /\ buf' = [buf EXCEPT ![d] = left]
        /\ UNCHANGED <<lock, push>>
    BY <1>0, <1>5, <2>1, <2>3 DEF Ext!PushDrain
  <2>5. Frame \in 1 .. Len(b) /\ Len(b) \in Nat /\ Len(h) \in Nat
    BY <1>n, <1>5, <2>1, <2>2
  <2>6. /\ g \in Seq(Nat) /\ Len(g) = Len(h) + Frame
        /\ left \in Seq(Nat) /\ Len(left) = Len(b) - Frame /\ g \o left = h \o b
    BY <2>2, <2>3, <2>5, DrainStream
  <2>7. heard' \in [ExtCalls -> Seq(Nat)] /\ buf' \in [ExtCalls -> Seq(Nat)]
    BY <1>t, <2>4, <2>6 DEF DevTypes
  <2>8. DevTypes'
    BY <1>t, <1>1, <2>4, <2>7 DEF DevTypes
  <2>9. DevLock'
    BY <1>t, <1>1, <2>4 DEF DevLock
  <2>10. DevStream(d)'
    <3>1. buf'[d] = left /\ heard'[d] = g /\ pushed'[d] = p /\ push'.at = "drain" /\ push'.dev = d
      BY <1>t, <1>0, <1>1, <1>2, <2>1, <2>4 DEF DevTypes
    <3>2. Len(left) <= BufMax /\ (PushesFit => Len(g) + Len(left) = p)
      <4>1. Len(left) <= BufMax /\ Len(g) + Len(left) = Len(h) + Len(b)
        BY <1>n, <2>2, <2>5, <2>6
      <4> QED BY <2>2, <4>1
    <3>3. /\ Len(buf'[d]) <= BufMax /\ Ordered(heard'[d] \o buf'[d], pushed'[d])
          /\ PushesFit => Len(heard'[d]) + Len(buf'[d]) = pushed'[d]
      BY <2>2, <2>6, <3>1, <3>2
    <3> QED BY <3>1, <3>3 DEF DevStream, Ordered, PushesFit
  <2>11. ASSUME NEW c \in ExtCalls, c # d PROVE DevStream(c)'
    <3>1. buf'[c] = buf[c] /\ heard'[c] = heard[c] /\ pushed'[c] = pushed[c] /\ push' = push
      BY <1>t, <1>1, <2>4, <2>11 DEF DevTypes
    <3>2. DevStream(c)
      BY <1>t
    <3> QED BY <3>1, <3>2 DEF DevStream, Ordered, PushesFit
  <2> QED BY <1>3, <2>8, <2>9, <2>10, <2>11 DEF ExtInv
<1> QED BY <1>4, <1>5

\* Opening and closing devices and the SDK's own start and stop keep it.
LEMMA DevicesKeep ==
    ASSUME ExtInv,
           \/ \E c \in ExtCalls : Ext!Open(c) \/ Ext!CloseDev(c)
           \/ Ext!CloseStart \/ Ext!CloseEnd \/ Ext!Reopen
    PROVE  ExtInv'
<1>t. DevTypes /\ DevLists /\ DevLock /\ \A c \in ExtCalls : DevStream(c)
  BY DEF ExtInv
<1>n. Nobody # "push" /\ Nobody # "pull"
  BY MediaAssumption
<1>u. UNCHANGED <<lock, push, pull, buf, heard, pushed>>
  BY DEF Ext!Open, Ext!CloseDev, Ext!CloseStart, Ext!CloseEnd, Ext!Reopen, Ext!bufVars
<1>1. \A c \in ExtCalls : DevStream(c)'
  BY <1>t, <1>u, StreamKept
<1>2. ASSUME NEW c \in ExtCalls, Ext!Open(c) PROVE ExtInv'
  <2>1. /\ ready /\ ~closing /\ dev[c] = "none" /\ lock = Nobody
        /\ srcl' = Append(srcl, c) /\ playl' = Append(playl, c)
        /\ dev' = [dev EXCEPT ![c] = "open"] /\ UNCHANGED <<ready, closing>>
    BY <1>2 DEF Ext!Open
  <2>2. DevTypes'
    BY SMTT(40), <1>t, <1>u, <2>1 DEF DevTypes
  <2>3. DevLock'
    BY <1>t, <1>n, <1>u, <2>1 DEF DevLock
  <2>4. /\ DOMAIN srcl = 1 .. Len(srcl) /\ Len(srcl) \in Nat /\ DOMAIN srcl' = 1 .. Len(srcl) + 1
        /\ srcl'[Len(srcl) + 1] = c /\ \A i \in 1 .. Len(srcl) : srcl'[i] = srcl[i]
    BY <1>t, <2>1 DEF DevTypes
  <2>5. \A i \in DOMAIN srcl : srcl[i] # c
    BY <1>t, <2>1 DEF DevLists
  <2>6. \A i, j \in DOMAIN srcl' : srcl'[i] = srcl'[j] => i = j
    BY <1>t, <2>4, <2>5 DEF DevLists
  <2>7. dev'[c] = "open" /\ \A x \in ExtCalls : x # c => dev'[x] = dev[x]
    BY <1>t, <2>1 DEF DevTypes
  <2>8. \A i \in DOMAIN srcl' : dev'[srcl'[i]] = "open"
    <3>1. \A i \in DOMAIN srcl : srcl[i] \in ExtCalls /\ dev[srcl[i]] = "open"
      BY <1>t DEF DevTypes, DevLists
    <3> QED BY <2>4, <2>5, <2>7, <3>1
  <2>9. ASSUME NEW x \in ExtCalls, dev'[x] = "open" PROVE \E i \in DOMAIN srcl' : srcl'[i] = x
    <3>1. CASE x = c
      <4>1. Len(srcl) + 1 \in DOMAIN srcl'
        BY <2>4
      <4> QED BY <2>4, <3>1, <4>1
    <3>2. CASE x # c
      <4>1. PICK i \in DOMAIN srcl : srcl[i] = x
        BY <1>t, <2>1, <2>7, <2>9, <3>2 DEF DevLists
      <4> QED BY <2>4, <4>1
    <3> QED BY <3>1, <3>2
  <2>10. DevLists'
    BY <2>1, <2>6, <2>8, <2>9 DEF DevLists
  <2> QED BY <1>1, <2>2, <2>3, <2>10 DEF ExtInv
<1>3. ASSUME NEW c \in ExtCalls, Ext!CloseDev(c) PROVE ExtInv'
  <2>1. /\ dev[c] = "open" /\ lock = Nobody /\ dev' = [dev EXCEPT ![c] = "freed"]
        /\ srcl' = Ext!Unlink(srcl, c) /\ playl' = Ext!Unlink(playl, c)
        /\ UNCHANGED <<ready, closing>>
    BY <1>3 DEF Ext!CloseDev
  <2>2. /\ srcl' \in Seq(ExtCalls)
        /\ \A i, j \in DOMAIN srcl' : srcl'[i] = srcl'[j] => i = j
        /\ \A i \in DOMAIN srcl' : srcl'[i] # c /\ \E j \in DOMAIN srcl : srcl'[i] = srcl[j]
        /\ \A j \in DOMAIN srcl : srcl[j] # c => \E i \in DOMAIN srcl' : srcl'[i] = srcl[j]
    BY <1>t, <2>1, UnlinkFx DEF DevTypes, DevLists
  <2>3. DevTypes'
    BY <1>t, <1>u, <2>1, <2>2 DEF DevTypes
  <2>4. DevLock'
    BY <1>t, <1>n, <1>u, <2>1 DEF DevLock
  <2>5. \A x \in ExtCalls : dev'[x] = IF x = c THEN "freed" ELSE dev[x]
    BY <1>t, <2>1 DEF DevTypes
  <2>6. \A i \in DOMAIN srcl' : dev'[srcl'[i]] = "open"
    <3>1. \A i \in DOMAIN srcl : srcl[i] \in ExtCalls /\ dev[srcl[i]] = "open"
      BY <1>t DEF DevTypes, DevLists
    <3> QED BY <2>2, <2>5, <3>1
  <2>7. ASSUME ready, NEW x \in ExtCalls, dev'[x] = "open"
        PROVE  \E i \in DOMAIN srcl' : srcl'[i] = x
    <3>1. x # c /\ dev[x] = "open"
      BY <2>5, <2>7
    <3>2. PICK j \in DOMAIN srcl : srcl[j] = x
      BY <1>t, <2>7, <3>1 DEF DevLists
    <3> QED BY <2>2, <3>1, <3>2
  <2>8. DevLists'
    BY <1>t, <2>1, <2>2, <2>6, <2>7 DEF DevLists
  <2> QED BY <1>1, <2>3, <2>4, <2>8 DEF ExtInv
<1>4. CASE Ext!CloseStart
  <2>1. ready' = FALSE /\ closing' = TRUE /\ UNCHANGED <<srcl, playl, dev>>
    BY <1>4 DEF Ext!CloseStart, Ext!devVars
  <2>2. DevTypes' /\ DevLock'
    BY <1>t, <1>u, <2>1 DEF DevTypes, DevLock
  <2>3. DevLists'
    BY <1>t, <2>1 DEF DevLists
  <2> QED BY <1>1, <2>2, <2>3 DEF ExtInv
<1>5. CASE Ext!CloseEnd
  <2>1. closing /\ closing' = FALSE /\ srcl' = <<>> /\ playl' = <<>> /\ UNCHANGED <<ready, dev>>
    BY <1>5 DEF Ext!CloseEnd
  <2>2. DevTypes' /\ DevLock'
    <3>1. <<>> \in Seq(ExtCalls)
      OBVIOUS
    <3> QED BY <1>t, <1>u, <2>1, <3>1 DEF DevTypes, DevLock
  <2>3. DevLists'
    BY <1>t, <2>1 DEF DevLists
  <2> QED BY <1>1, <2>2, <2>3 DEF ExtInv
<1>6. CASE Ext!Reopen
  <2>1. /\ ~closing /\ (\A c \in ExtCalls : dev[c] # "open") /\ ready' = TRUE
        /\ UNCHANGED <<srcl, playl, dev, closing>>
    BY <1>6 DEF Ext!Reopen, Ext!devVars
  <2>2. DevTypes' /\ DevLock'
    BY <1>t, <1>u, <2>1 DEF DevTypes, DevLock
  <2>3. DevLists'
    BY <1>t, <2>1 DEF DevLists
  <2> QED BY <1>1, <2>2, <2>3 DEF ExtInv
<1> QED BY <1>2, <1>3, <1>4, <1>5, <1>6

\* Every step of the device keeps the invariant.
LEMMA ExtSteps ==
    ASSUME ExtInv, [Ext!Next]_extVars
    PROVE  ExtInv'
<1>1. CASE Ext!Next
  BY <1>1, PushKeeps, PullKeeps, WriteKeeps, DrainKeeps, DevicesKeep DEF Ext!Next
<1>2. CASE UNCHANGED extVars
  <2>1. UNCHANGED <<ready, srcl, playl, lock, dev, push, pull, buf, heard, pushed, closing>>
    BY <1>2 DEF extVars
  <2>2. DevTypes' /\ DevLists' /\ DevLock'
    BY <2>1 DEF ExtInv, DevTypes, DevLists, DevLock
  <2>3. \A c \in ExtCalls : DevStream(c)'
    BY <2>1, StreamKept DEF ExtInv
  <2> QED BY <2>2, <2>3 DEF ExtInv
<1> QED BY <1>1, <1>2

\* What the invariant says of the device.
LEMMA ExtSound ==
    ASSUME ExtInv
    PROVE  DeviceSound
<1>t. DevTypes /\ DevLists /\ DevLock /\ \A c \in ExtCalls : DevStream(c)
  BY DEF ExtInv
<1>1. Ext!TypeOK
  <2>1. Ext!IsInjective(srcl) /\ Ext!IsInjective(playl)
    BY <1>t DEF DevTypes, DevLists, Ext!IsInjective
  <2>2. \A c \in ExtCalls : Len(buf[c]) <= BufMax
    BY <1>t DEF DevStream
  <2> QED BY <1>t, <2>1, <2>2 DEF DevTypes, DevLock, Ext!TypeOK
<1>2. Ext!UsedIsLive
  BY <1>t DEF DevLock, Ext!UsedIsLive
<1>3. Ext!NoBacklog
  BY <1>t DEF DevStream, Ext!NoBacklog
<1>4. Ext!HeardInOrder
  <2>1. ASSUME NEW c \in ExtCalls
        PROVE  /\ \A i, j \in DOMAIN (heard[c] \o buf[c]) :
                     i < j => (heard[c] \o buf[c])[i] < (heard[c] \o buf[c])[j]
               /\ PushesFit => Len(heard[c] \o buf[c]) = pushed[c]
    <3>1. Ordered(heard[c] \o buf[c], pushed[c]) /\ (PushesFit => Len(heard[c]) + Len(buf[c]) = pushed[c])
      BY <1>t DEF DevStream
    <3>2. heard[c] \in Seq(Nat) /\ buf[c] \in Seq(Nat)
      BY <1>t DEF DevTypes
    <3>3. Len(heard[c] \o buf[c]) = Len(heard[c]) + Len(buf[c])
      BY <3>2
    <3> QED BY <3>1, <3>3 DEF Ordered
  <2> QED BY <2>1 DEF Ext!HeardInOrder, PushesFit
<1>5. Ext!MicComesBack
  <2> SUFFICES ASSUME ready, ~closing, NEW x \in ExtCalls, dev[x] = "open"
               PROVE  /\ Ext!Newest(srcl) # Nobody /\ dev[Ext!Newest(srcl)] = "open"
                      /\ \A c \in ExtCalls : dev[c] = "open" => Ext!Contains(srcl, c)
    BY DEF Ext!MicComesBack
  <2>1. srcl \in Seq(ExtCalls) /\ srcl # <<>> /\ DOMAIN srcl = 1 .. Len(srcl)
    BY <1>t DEF DevTypes, DevLists
  <2>2. Ext!Newest(srcl) # Nobody /\ \E i \in DOMAIN srcl : Ext!Newest(srcl) = srcl[i]
    BY <2>1, NewestFx
  <2>3. \A c \in ExtCalls : dev[c] = "open" => Ext!Contains(srcl, c)
    BY <1>t, <2>1 DEF DevLists, Ext!Contains
  <2> QED BY <1>t, <2>2, <2>3 DEF DevLists
<1> QED BY <1>1, <1>2, <1>3, <1>4, <1>5 DEF DeviceSound

\* For every number of calls, size of push, length of frame and depth of buffer, a
\* device is never freed in use, its samples are heard once and in order, and the
\* microphone is the newest call's (audio_external.c).
THEOREM DeviceIsSound == Spec => []DeviceSound
<1>1. Init => ExtInv
  BY ExtBegins DEF Init
<1>2. ExtInv /\ [Next]_vars => ExtInv'
  BY PartSteps, ExtSteps
<1>3. ExtInv => DeviceSound
  BY ExtSound
<1> QED BY <1>1, <1>2, <1>3, PTL DEF Spec
=============================================================================
