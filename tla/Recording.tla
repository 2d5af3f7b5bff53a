----------------------------- MODULE Recording -----------------------------
(***************************************************************************)
(* The audio threads of one call and what reads their frames: the PCM tap   *)
(* of media_tap.c and the recorder of record.c.                            *)
(*                                                                         *)
(* Two threads run the filter, one per direction; the re thread runs the    *)
(* API.  tap_lock covers reading the callback, not calling it; rec_lock      *)
(* covers writing a frame, and taking the file, not finalising it.  A frame *)
(* is its sample rate; a file is the rates of the frames written to it and  *)
(* the header on disk.                                                     *)
(***************************************************************************)
EXTENDS Naturals, Sequences

CONSTANTS
    SampleRates,    \* rates a frame can have: a re-INVITE may change the codec
    MaxFrames,      \* bound on frames written to one file
    MaxFiles,       \* bound on recordings started
    MaxTaps         \* bound on voxsdk_call_set_media_tap()

NoTap == 0
NoHeader == [rate |-> 0, frames |-> 0]
Dirs == {"TX", "RX"}

VARIABLES
    tap,            \* lc->tap_cb, numbered by when it was set; NoTap for NULL
    taps,           \* callbacks set so far
    at,             \* where each direction's thread is
    cb,             \* the callback each thread read
    active,         \* lc->rec_active
    file,           \* lc->rec_file: a file number, 0 for NULL
    files,          \* files[n]: the frames written, the header, still open
    rate,           \* lc->rec_srate, 0 for none yet
    bytes,          \* lc->rec_data_bytes, in frames
    hdr,            \* lc->rec_hdr_written
    tx,             \* a TX frame is waiting to be mixed
    stopping,       \* record_stop_fn() between taking the file and closing it
    late            \* history: calls of a callback that had been replaced

vars == <<tap, taps, at, cb, active, file, files, rate, bytes, hdr, tx,
          stopping, late>>
recVars == <<active, file, files, rate, bytes, hdr, tx, stopping>>
tapVars == <<tap, taps, at, cb, late>>

Idle == [file |-> 0, rate |-> 0, bytes |-> 0]

Init ==
    /\ tap = NoTap /\ taps = 0 /\ at = [d \in Dirs |-> "idle"] /\ cb = [d \in Dirs |-> NoTap]
    /\ active = FALSE /\ file = 0 /\ files = <<>> /\ rate = 0 /\ bytes = 0
    /\ hdr = FALSE /\ tx = FALSE /\ stopping = Idle
    /\ late = [d \in Dirs |-> 0]

-----------------------------------------------------------------------------
(* tap_encode() and tap_decode().                                          *)

\* Mutant: the callback is read once, when the filter is set up.
ReadTap_Once(d) ==
    /\ at[d] = "idle" /\ at' = [at EXCEPT ![d] = "call"]
    /\ cb' = [cb EXCEPT ![d] = IF @ = NoTap THEN tap ELSE @]
    /\ UNCHANGED <<tap, taps, late, recVars>>

\* A frame arrives; the callback is read under tap_lock ...
ReadTap(d) ==
    /\ at[d] = "idle" /\ at' = [at EXCEPT ![d] = "call"]
    /\ cb' = [cb EXCEPT ![d] = tap]
    /\ UNCHANGED <<tap, taps, late, recVars>>

\* ... and called without it.
CallTap(d) ==
    /\ at[d] = "call" /\ at' = [at EXCEPT ![d] = "write"]
    /\ late' = [late EXCEPT ![d] = IF cb[d] \notin {tap, NoTap} /\ @ < 2 THEN @ + 1 ELSE @]
    /\ UNCHANGED <<tap, taps, cb, recVars>>

\* set_tap_fn() on the re thread.
SetTap(on) ==
    /\ taps < MaxTaps
    /\ taps' = taps + 1 /\ tap' = IF on THEN taps + 1 ELSE NoTap
    /\ late' = [d \in Dirs |-> 0]
    /\ UNCHANGED <<at, cb, recVars>>

-----------------------------------------------------------------------------
(* vox_record_write_frame(), under rec_lock.                               *)

\* Mutant: a frame of another rate is written as it is.
Matches_Any(r) == TRUE

\* The format is that of the first frame; others are skipped.
Matches(r) == rate \in {0, r}

Write(d, r) ==
    LET on == active /\ file # 0 /\ Matches(r)
        write == on /\ d = "RX" /\ bytes < MaxFrames
    IN  /\ at[d] = "write" /\ at' = [at EXCEPT ![d] = "idle"]
        /\ (on /\ d = "RX") => bytes < MaxFrames
        /\ rate' = IF on /\ rate = 0 THEN r ELSE rate
        /\ tx' = (tx \/ (on /\ d = "TX"))
        /\ hdr' = (hdr \/ write)
        /\ bytes' = IF write THEN bytes + 1 ELSE bytes
        /\ files' = IF write
                    THEN [files EXCEPT ![file].data = Append(@, r),
                                       ![file].header = IF hdr THEN @
                                                        ELSE [rate |-> rate', frames |-> 0]]
                    ELSE files
        /\ UNCHANGED <<tap, taps, cb, late, active, file, stopping>>

-----------------------------------------------------------------------------
(* The API, on the re thread.                                              *)

\* record_start_fn(), whose result voxsdk_call_record_start() drops: it returns
\* that of vox_dispatch_sync().
RecordStart ==
    /\ stopping = Idle /\ ~active /\ Len(files) < MaxFiles
    /\ files' = Append(files, [data |-> <<>>, header |-> NoHeader, open |-> TRUE])
    /\ file' = Len(files) + 1 /\ active' = TRUE
    /\ rate' = 0 /\ bytes' = 0 /\ hdr' = FALSE /\ tx' = FALSE
    /\ UNCHANGED <<tapVars, stopping>>

\* Mutant: the file stays in lc->rec_file and recording stays on.
RecordStop_Keep ==
    /\ stopping = Idle
    /\ stopping' = IF file = 0 THEN Idle ELSE [file |-> file, rate |-> rate, bytes |-> bytes]
    /\ UNCHANGED <<tapVars, active, file, files, rate, bytes, hdr, tx>>

\* record_stop_fn() takes the file under rec_lock ...
RecordStop ==
    /\ stopping = Idle
    /\ active' = FALSE /\ file' = 0
    /\ stopping' = IF file = 0 THEN Idle ELSE [file |-> file, rate |-> rate, bytes |-> bytes]
    /\ UNCHANGED <<tapVars, files, rate, bytes, hdr, tx>>

\* ... and writes the header again and closes it without.
Finalise ==
    /\ stopping # Idle /\ stopping' = Idle
    /\ files' = [files EXCEPT
                    ![stopping.file].open = FALSE,
                    ![stopping.file].header =
                        IF stopping.rate = 0 THEN @
                        ELSE [rate |-> stopping.rate, frames |-> stopping.bytes]]
    /\ UNCHANGED <<tapVars, active, file, rate, bytes, hdr, tx>>

Next ==
    \/ \E d \in Dirs : ReadTap(d) \/ CallTap(d) \/ \E r \in SampleRates : Write(d, r)
    \/ \E on \in BOOLEAN : SetTap(on)
    \/ RecordStart \/ RecordStop \/ Finalise

Spec == Init /\ [][Next]_vars

-----------------------------------------------------------------------------
(* Properties.                                                             *)

\* Every variable has its type.
TypeOK ==
    /\ tap \in 0 .. MaxTaps /\ at \in [Dirs -> {"idle", "call", "write"}]
    /\ rate \in SampleRates \cup {0}
    /\ file \in 0 .. Len(files) /\ Len(files) <= MaxFiles /\ bytes \in 0 .. MaxFrames
    /\ {active, hdr, tx} \subseteq BOOLEAN

\* A recording that was stopped is a file whose header says what is in it: the
\* rate of every frame and how many there are, whenever the audio threads wrote.
StoppedIsSound ==
    \A n \in DOMAIN files :
        LET f == files[n] IN
        ~f.open /\ f.data # <<>> =>
            /\ f.header.frames = Len(f.data)
            /\ \A i \in DOMAIN f.data : f.data[i] = f.header.rate

\* No audio thread writes to a file that is closed, or about to be: the one that
\* takes it away under rec_lock is the one that closes it.
NoWriteAfterStop ==
    [][\A n \in DOMAIN files : files'[n].data # files[n].data => n = file /\ stopping.file # n]_vars

\* A callback that was replaced or removed is called at most once more by each
\* audio thread: tap_lock covers the read and not the call.
ReplacedTapEnds == \A d \in Dirs : late[d] <= 1
=============================================================================
