---------------------------- MODULE VoiceDriver ----------------------------
(***************************************************************************)
(* The Android driver of platform/android/sles_vc.c: a recorder and a       *)
(* player, each a ring of buffers circulating through an OpenSL ES buffer   *)
(* queue.  A buffer's completion runs the callback, which hands the frame   *)
(* up (or takes one) and puts the buffer back: nothing else refills the     *)
(* queue.  The index the callback uses is the driver's own; that it names   *)
(* the buffer that completed is what the module is about.                   *)
(* OpenSL ES itself is external: a queue holds at most as many buffers as   *)
(* it was created for, refuses one when full, and may refuse one at any     *)
(* time ("mid transition: audio route change, focus loss").  Callbacks of a *)
(* stream run one at a time and Destroy() waits for a running one.          *)
(***************************************************************************)
EXTENDS Naturals, Sequences

CONSTANTS
    N_REC_BUFFERS, N_PLAY_BUFFERS,   \* the depth of the two queues
    MaxRefusals                      \* bound: playback refusals that are counted

VARIABLES
    engine,     \* s_engine_obj is there
    rec,        \* the recorder: "none", "recording", or "stopped" by a failed restart
    recq,       \* the buffers queued to it, the one being filled first
    recid,      \* buffer_id of ausrc_st
    playing,    \* the player exists (it never stops playing by itself)
    playq,      \* the buffers queued to it, the one being played first
    playid,     \* buffer_id of auplay_st
    refused     \* how often the device refused a playback buffer it had room for

vars == <<engine, rec, recq, recid, playing, playq, playid, refused>>
recVars  == <<rec, recq, recid>>
playVars == <<playing, playq, playid, refused>>

\* The buffers i, i+1, ..., all n of them, in the order of the ring.
Ring(i, n) == [k \in 1..n |-> (i + k - 1) % n]

Init ==
    /\ engine = FALSE
    /\ rec = "none" /\ recq = <<>> /\ recid = 0
    /\ playing = FALSE /\ playq = <<>> /\ playid = 0 /\ refused = 0

\* vox_sles_vc_init(): a failing step closes what was opened.
vox_sles_vc_init == ~engine /\ engine' \in BOOLEAN /\ UNCHANGED <<recVars, playVars>>

\* vox_sles_vc_close(), after the last stream is gone (core.c:687).
vox_sles_vc_close ==
    /\ engine /\ rec = "none" /\ ~playing
    /\ engine' = FALSE
    /\ UNCHANGED <<recVars, playVars>>

-----------------------------------------------------------------------------
(* The recorder.                                                           *)

\* Mutant: the restart queues buffer 0 first and keeps the index.
start_recording_KeepIndex ==
    /\ recid' = recid
    /\ \E n \in 0..N_REC_BUFFERS :
          /\ recq' = SubSeq(Ring(0, N_REC_BUFFERS), 1, n)
          /\ rec' \in IF n = N_REC_BUFFERS THEN {"recording", "stopped"} ELSE {"stopped"}

\* start_recording(): stop, clear, queue every buffer, record.  It gives up at
\* the first refusal, the recorder still stopped.
start_recording ==
    /\ recid' = 0
    /\ \E n \in 0..N_REC_BUFFERS :
          /\ recq' = SubSeq(Ring(0, N_REC_BUFFERS), 1, n)
          /\ rec' \in IF n = N_REC_BUFFERS THEN {"recording", "stopped"} ELSE {"stopped"}

\* A failed start destroys the stream: only one that records is handed out.
recorder_alloc ==
    /\ engine /\ rec = "none"
    /\ start_recording /\ rec' = "recording"
    /\ UNCHANGED <<engine, playVars>>

\* rec_bq_callback(): the head of the queue is full.
RecRequeued ==
    /\ rec = "recording" /\ recq # <<>>
    /\ recq' = Append(Tail(recq), recid)
    /\ recid' = (recid + 1) % N_REC_BUFFERS
    /\ UNCHANGED <<engine, rec, playVars>>

RecRefused ==
    /\ rec = "recording" /\ recq # <<>>
    /\ start_recording
    /\ UNCHANGED <<engine, playVars>>

ausrc_destructor ==
    /\ rec # "none"
    /\ rec' = "none" /\ recq' = <<>> /\ recid' = 0
    /\ UNCHANGED <<engine, playVars>>

-----------------------------------------------------------------------------
(* The player.                                                             *)

\* Mutant: the index starts past the first buffer.
start_player_NextIndex(q) ==
    /\ playid' = 1
    /\ \E n \in 0..N_PLAY_BUFFERS :
          /\ Len(q) + n <= N_PLAY_BUFFERS
          /\ playq' = q \o SubSeq(Ring(0, N_PLAY_BUFFERS), 1, n)

\* start_player() on a queue that holds q: it queues the buffers in order up to
\* the first refusal.  Unlike the recorder's it neither stops nor clears.
start_player(q) ==
    /\ playid' = 0
    /\ \E n \in 0..N_PLAY_BUFFERS :
          /\ Len(q) + n <= N_PLAY_BUFFERS
          /\ playq' = q \o SubSeq(Ring(0, N_PLAY_BUFFERS), 1, n)

\* The refusals of that call the queue had room for: none or one.
Spurious(q) == IF Len(q) < N_PLAY_BUFFERS THEN 1 ELSE 0

player_alloc ==
    /\ engine /\ ~playing
    /\ start_player(<<>>) /\ Len(playq') = N_PLAY_BUFFERS
    /\ playing' = TRUE /\ refused' = 0
    /\ UNCHANGED <<engine, recVars>>

\* play_bq_callback(): the head of the queue has been played.
PlayRequeued ==
    /\ playing /\ playq # <<>>
    /\ playq' = Append(Tail(playq), playid)
    /\ playid' = (playid + 1) % N_PLAY_BUFFERS
    /\ UNCHANGED <<engine, recVars, playing, refused>>

\* Mutant: a refused buffer is dropped.
PlayRefused_NoRestart ==
    /\ playing /\ playq # <<>> /\ refused < MaxRefusals
    /\ playq' = Tail(playq) /\ refused' = refused + 1
    /\ UNCHANGED <<engine, recVars, playing, playid>>

PlayRefused ==
    /\ playing /\ playq # <<>> /\ refused < MaxRefusals
    /\ start_player(Tail(playq))
    /\ refused' = refused + 1 + Spurious(playq')
    /\ UNCHANGED <<engine, recVars, playing>>

auplay_destructor ==
    /\ playing
    /\ playing' = FALSE /\ playq' = <<>> /\ playid' = 0 /\ refused' = 0
    /\ UNCHANGED <<engine, recVars>>

Next ==
    \/ vox_sles_vc_init \/ vox_sles_vc_close
    \/ recorder_alloc \/ RecRequeued \/ RecRefused \/ ausrc_destructor
    \/ player_alloc \/ PlayRequeued \/ PlayRefused \/ auplay_destructor

Spec == Init /\ [][Next]_vars

-----------------------------------------------------------------------------
(* Properties.                                                             *)

\* Every variable has its type.
TypeOK ==
    /\ engine \in BOOLEAN /\ playing \in BOOLEAN
    /\ rec \in {"none", "recording", "stopped"}
    /\ recid \in 0..(N_REC_BUFFERS - 1) /\ playid \in 0..(N_PLAY_BUFFERS - 1)
    /\ Len(recq) <= N_REC_BUFFERS /\ Len(playq) <= N_PLAY_BUFFERS
    /\ refused \in 0..(MaxRefusals + 1)

\* A recorder that records has its whole ring queued, the buffer the next
\* callback hands up being the one that completes next: the far end hears every
\* slice once and in order, whatever the device refused before, and capture
\* never runs out of buffers with the recorder still "started" (sles_vc.c:127).
CaptureInOrder == rec = "recording" => recq = Ring(recid, N_REC_BUFFERS)

\* Until the device refuses a buffer, the one the callback writes into is the one
\* that has just been played, never one still queued.  After a refusal that no
\* longer holds: start_player() queues on top of what is there and restarts the
\* index, so the callback can overwrite a buffer that has not been played.
PlaybackInOrder == playing /\ refused = 0 => playq = Ring(playid, N_PLAY_BUFFERS)

\* The speaker falls silent for good only when the device refuses the callback's
\* buffer and then the restart's as often as the queue is deep (sles_vc.c:356).
SpeakerSurvives == playing /\ playq = <<>> => refused >= 2 * N_PLAY_BUFFERS
=============================================================================
