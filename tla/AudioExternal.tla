--------------------------- MODULE AudioExternal ---------------------------
(***************************************************************************)
(* The application-owned audio device, audio_external.c: the application's   *)
(* capture thread pushes samples to the newest open device, which hands the  *)
(* encoder whole frames; its playback thread pulls from the newest player.   *)
(*                                                                         *)
(* Devices are opened and closed on the re thread, one capture device and   *)
(* one player for each call.  push() holds s_lock while it fills and drains  *)
(* the buffer, encoder included; a device's destructor takes the same lock  *)
(* to unlink it and frees it after.  A sample is its number among those     *)
(* pushed to its device.                                                   *)
(***************************************************************************)
EXTENDS Naturals, Sequences, SequencesExt

CONSTANTS
    Calls,          \* calls with media
    Nobody,         \* no thread, no device
    Frame,          \* samples in one ptime, st->sampc
    BufMax,         \* EXT_BUF_MAX_MS, in samples
    PushSizes,      \* samples in one push()
    MaxPushed       \* no push() is begun once a device has had this many samples

VARIABLES
    ready,          \* s_ready
    srcl, playl,    \* the open devices, newest last
    lock,           \* who holds s_lock
    dev,            \* each call's two devices: "none", "open" or "freed"
    push,           \* the capture thread: [at, dev]
    pull,           \* the playback thread: [at, dev]
    buf,            \* buf[c]: the samples in st->ab
    heard,          \* history: the samples the encoder got, by call
    pushed,         \* samples pushed to each device
    closing         \* vox_audio_external_close() is under way

vars == <<ready, srcl, playl, lock, dev, push, pull, buf, heard, pushed, closing>>
devVars == <<srcl, playl, dev>>
bufVars == <<buf, heard, pushed>>

Away == [at |-> "away", dev |-> Nobody]

Init ==
    /\ ready = TRUE /\ srcl = <<>> /\ playl = <<>> /\ lock = Nobody
    /\ dev = [c \in Calls |-> "none"]
    /\ push = Away /\ pull = Away
    /\ buf = [c \in Calls |-> <<>>] /\ heard = [c \in Calls |-> <<>>]
    /\ pushed = [c \in Calls |-> 0] /\ closing = FALSE

\* list_unlink(): the devices after c move up.
Unlink(list, c) ==
    IF Contains(list, c) THEN RemoveAt(list, CHOOSE i \in DOMAIN list : list[i] = c) ELSE list

\* cur_src() and cur_play().
Newest(list) == IF list = <<>> THEN Nobody ELSE Last(list)

-----------------------------------------------------------------------------
(* voxsdk_audio_external_push(), on the application's capture thread.       *)

\* s_ready is read before s_lock is taken.
PushEnter ==
    /\ push.at = "away" /\ ready /\ \A c \in Calls : pushed[c] < MaxPushed
    /\ push' = [push EXCEPT !.at = "locking"]
    /\ UNCHANGED <<ready, devVars, lock, pull, bufVars, closing>>

PushLock ==
    /\ push.at = "locking" /\ lock = Nobody
    /\ IF Newest(srcl) = Nobody
       THEN push' = Away /\ UNCHANGED lock                          \* ENODEV
       ELSE push' = [at |-> "write", dev |-> Newest(srcl)] /\ lock' = "push"
    /\ UNCHANGED <<ready, devVars, pull, bufVars, closing>>

\* aubuf_write_auframe(); above its ceiling the buffer drops its oldest samples.
PushWrite(n) ==
    LET c == push.dev
        all == buf[c] \o [i \in 1 .. n |-> pushed[c] + i]
        over == IF Len(all) > BufMax THEN Len(all) - BufMax ELSE 0
    IN  /\ push.at = "write"
        /\ buf' = [buf EXCEPT ![c] = SubSeq(all, over + 1, Len(all))]
        /\ pushed' = [pushed EXCEPT ![c] = @ + n]
        /\ push' = [push EXCEPT !.at = "drain"]
        /\ UNCHANGED <<ready, devVars, lock, pull, heard, closing>>

\* Mutant: the drain stops after one frame.
PushDrain_One ==
    LET c == push.dev IN
    /\ push.at = "drain" /\ lock' = Nobody /\ push' = Away
    /\ IF Len(buf[c]) < Frame THEN UNCHANGED <<buf, heard>>
       ELSE /\ heard' = [heard EXCEPT ![c] = @ \o SubSeq(buf[c], 1, Frame)]
            /\ buf' = [buf EXCEPT ![c] = SubSeq(@, Frame + 1, Len(@))]
    /\ UNCHANGED <<ready, devVars, pull, pushed, closing>>

\* Mutant: aubuf left in live mode, which drops the backlog to read the newest.
PushDrain_Live ==
    LET c == push.dev
        last == SubSeq(buf[c], Len(buf[c]) - Frame + 1, Len(buf[c]))
    IN  /\ push.at = "drain" /\ lock' = Nobody /\ push' = Away
        /\ heard' = IF Len(buf[c]) < Frame THEN heard ELSE [heard EXCEPT ![c] = @ \o last]
        /\ buf' = IF Len(buf[c]) < Frame THEN buf ELSE [buf EXCEPT ![c] = <<>>]
        /\ UNCHANGED <<ready, devVars, pull, pushed, closing>>

\* One round of the drain loop: a whole frame for the encoder (st->rh), or out.
PushDrain ==
    LET c == push.dev IN
    /\ push.at = "drain"
    /\ IF Len(buf[c]) < Frame
       THEN /\ lock' = Nobody /\ push' = Away
            /\ UNCHANGED <<buf, heard>>
       ELSE /\ heard' = [heard EXCEPT ![c] = @ \o SubSeq(buf[c], 1, Frame)]
            /\ buf' = [buf EXCEPT ![c] = SubSeq(@, Frame + 1, Len(@))]
            /\ UNCHANGED <<lock, push>>
    /\ UNCHANGED <<ready, devVars, pull, pushed, closing>>

-----------------------------------------------------------------------------
(* voxsdk_audio_external_pull(), on the playback thread.                    *)

PullEnter ==
    /\ pull.at = "away" /\ ready
    /\ pull' = [pull EXCEPT !.at = "locking"]
    /\ UNCHANGED <<ready, devVars, lock, push, bufVars, closing>>

PullLock ==
    /\ pull.at = "locking" /\ lock = Nobody
    /\ IF Newest(playl) = Nobody
       THEN pull' = Away /\ UNCHANGED lock                          \* silence
       ELSE pull' = [at |-> "read", dev |-> Newest(playl)] /\ lock' = "pull"
    /\ UNCHANGED <<ready, devVars, push, bufVars, closing>>

PullRead ==
    /\ pull.at = "read" /\ pull' = Away /\ lock' = Nobody
    /\ UNCHANGED <<ready, devVars, push, bufVars, closing>>

-----------------------------------------------------------------------------
(* The re thread.                                                          *)

\* ext_src_alloc() and ext_play_alloc(): appended under s_lock.
Open(c) ==
    /\ ready /\ ~closing /\ dev[c] = "none" /\ lock = Nobody
    /\ srcl' = Append(srcl, c) /\ playl' = Append(playl, c)
    /\ dev' = [dev EXCEPT ![c] = "open"]
    /\ UNCHANGED <<ready, lock, push, pull, bufVars, closing>>

\* Mutant: the destructor unlinks without the lock.
CloseDev_Unlocked(c) ==
    /\ dev[c] = "open"
    /\ dev' = [dev EXCEPT ![c] = "freed"]
    /\ srcl' = Unlink(srcl, c)
    /\ playl' = Unlink(playl, c)
    /\ UNCHANGED <<ready, lock, push, pull, bufVars, closing>>

\* Mutant: a single pointer in place of the list.
CloseDev_Pointer(c) ==
    /\ dev[c] = "open" /\ lock = Nobody
    /\ dev' = [dev EXCEPT ![c] = "freed"]
    /\ srcl' = IF Newest(srcl) = c THEN <<>> ELSE Unlink(srcl, c)
    /\ playl' = Unlink(playl, c)
    /\ UNCHANGED <<ready, lock, push, pull, bufVars, closing>>

\* ausrc_destructor() and auplay_destructor(): unlink under s_lock, then free.
CloseDev(c) ==
    /\ dev[c] = "open" /\ lock = Nobody
    /\ dev' = [dev EXCEPT ![c] = "freed"]
    /\ srcl' = Unlink(srcl, c)
    /\ playl' = Unlink(playl, c)
    /\ UNCHANGED <<ready, lock, push, pull, bufVars, closing>>

\* vox_audio_external_close(): nobody new is admitted, then the lists are cleared.
CloseStart ==
    /\ ready /\ ~closing
    /\ ready' = FALSE /\ closing' = TRUE
    /\ UNCHANGED <<devVars, lock, push, pull, bufVars>>

CloseEnd ==
    /\ closing /\ lock = Nobody
    /\ closing' = FALSE /\ srcl' = <<>> /\ playl' = <<>>
    /\ UNCHANGED <<ready, dev, lock, push, pull, bufVars>>

\* vox_audio_external_init() of the next voxsdk_init(), whose calls are new ones.
Reopen ==
    /\ ~ready /\ ~closing /\ \A c \in Calls : dev[c] # "open"
    /\ ready' = TRUE
    /\ UNCHANGED <<devVars, lock, push, pull, bufVars, closing>>

Next ==
    \/ PushEnter \/ PushLock \/ PushDrain \/ \E n \in PushSizes : PushWrite(n)
    \/ PullEnter \/ PullLock \/ PullRead
    \/ \E c \in Calls : Open(c) \/ CloseDev(c)
    \/ CloseStart \/ CloseEnd \/ Reopen

Spec == Init /\ [][Next]_vars

-----------------------------------------------------------------------------
(* Properties.                                                             *)

\* Every variable has its type.
TypeOK ==
    /\ ready \in BOOLEAN /\ closing \in BOOLEAN /\ lock \in {Nobody, "push", "pull"}
    /\ dev \in [Calls -> {"none", "open", "freed"}]
    /\ IsInjective(srcl) /\ IsInjective(playl)
    /\ \A c \in Calls : Len(buf[c]) <= BufMax

\* No device is freed under the thread that uses it, whatever the other threads do.
UsedIsLive ==
    /\ push.at \in {"write", "drain"} => dev[push.dev] = "open"
    /\ pull.at = "read" => dev[pull.dev] = "open"

\* Between pushes less than a frame is left behind: the encoder is never a frame
\* late, and a buffer that fills is one push that was too large.
NoBacklog == push.at # "drain" => \A c \in Calls : Len(buf[c]) < Frame

\* The encoder gets what was pushed, in order and once; only a push that does not
\* fit loses samples, and then the oldest.
HeardInOrder ==
    \A c \in Calls :
        LET all == heard[c] \o buf[c] IN
        /\ \A i, j \in DOMAIN all : i < j => all[i] < all[j]
        /\ (\A n \in PushSizes : n + Frame - 1 <= BufMax) => Len(all) = pushed[c]

\* While the SDK runs, the microphone is the newest open call's: when that call
\* ends it goes back to the one before ("the mic never came back" otherwise).
MicComesBack ==
    ready /\ ~closing /\ (\E c \in Calls : dev[c] = "open")
        => /\ Newest(srcl) # Nobody
           /\ dev[Newest(srcl)] = "open"
           /\ \A c \in Calls : dev[c] = "open" => Contains(srcl, c)
=============================================================================
