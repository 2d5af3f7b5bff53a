-------------------------------- MODULE Calls --------------------------------
(***************************************************************************)
(* The life of a call: call.c, transfer.c, sdp.c and the call cases of      *)
(* event.c's bevent_handler().                                             *)
(*                                                                         *)
(* Three parties.  The re thread runs bevent_handler(), the setup watchdog  *)
(* and the functions queued with vox_dispatch(): each is one step.  The     *)
(* event thread delivers queued events (EventQueue.tla has that queue in    *)
(* detail; here it is a bounded FIFO).  The application calls the API from  *)
(* its callback (the event thread) or from another thread, with handles it  *)
(* was given and has not been told are over.                               *)
(*                                                                         *)
(* baresip's dialog is outside the repository and modelled from its use:    *)
(* dlg says how far it got; ua_hangup() emits CALL_CLOSED before it returns;*)
(* a peer's BYE or CANCEL and a dead socket close with the same text, "...  *)
(* [errno]"; a REFER opens a notifier on the call, a final NOTIFY ends it.  *)
(***************************************************************************)
EXTENDS Integers, Sequences, FiniteSets

CONSTANTS
    Calls,      \* wrappers (struct voxsdk_call), each used for one call
    None,       \* no call
    QueueMax,   \* VOXSDK_EV_QUEUE_MAX
    WorkMax,    \* bound on functions waiting in the dispatch queue
    Snapshot,   \* VOX_SETUP_MAX_SNAP
    ApiCalls,   \* API calls the application makes
    Threads,    \* where from: "callback" (the event thread), "other"
    Causes,     \* ways a call closes
    Infos,      \* events that tell something other than a state
    Rich        \* calls that see everything; the others are only dialled

SyncCalls  == {"answer", "hold", "resume", "xfer_accept", "xfer_reject"}
AsyncCalls == {"hangup", "reject"}
AllCauses  == {"bye", "reset", "user", "487", "auth", "408", "4xx", "5xx"}

ASSUME CallsAssumption ==
    /\ None \notin Calls
    /\ QueueMax \in Nat \ {0} /\ WorkMax \in Nat \ {0} /\ Snapshot \in Nat \ {0}
    /\ ApiCalls \subseteq SyncCalls \cup AsyncCalls \cup {"invite"}
    /\ Threads \subseteq {"callback", "other"}
    /\ Causes \subseteq AllCauses
    /\ Infos \subseteq {"sdp", "refer", "refer_failed", "dtmf"}
    /\ Rich \subseteq Calls

VARIABLES
    call,       \* struct voxsdk_call, with its baresip dialog
    setupTmr,   \* s_setup_tmr is running
    sweep,      \* calls the watchdog's snapshot has yet to cancel
    events,     \* events queued for the application
    et,         \* the event thread: "idle", "callback" or "blocked" in a sync call
    etHold,     \* deref_after_deliver of the event it delivers
    work,       \* functions queued with vox_dispatch() for the re thread
    handle,     \* handle[c]: the application may use it: "no", "yes", "over"
    told,       \* history: the last call state the application was told
    lost,       \* history: calls whose terminal event a full queue dropped
    wild        \* history: the kinds of functions that ran on a freed wrapper

reVars  == <<call, setupTmr, sweep, events, lost>>
appVars == <<et, etHold, work, handle, told, wild>>
vars == <<reVars, appVars>>

P == INSTANCE CallPromise

Terminal(s) == s \in P!Over
NoCall ==
    [state |-> "none", bc |-> FALSE, listed |-> FALSE, refs |-> 0,
     local_hold |-> FALSE, setup_start |-> "off", xfer_pending |-> FALSE,
     local_sdp |-> FALSE, remote_sdp |-> FALSE,
     dlg |-> "none", notifier |-> "none", via |-> None]
Event == [call : Calls, what : P!CallStates \cup Infos]
Freed == [NoCall EXCEPT !.dlg = "gone"]

Init ==
    /\ call = [c \in Calls |-> NoCall]
    /\ setupTmr = FALSE /\ sweep = {} /\ events = <<>> /\ et = "idle" /\ etHold = None
    /\ work = <<>> /\ handle = [c \in Calls |-> "no"]
    /\ told = [c \in Calls |-> "none"] /\ lost = {} /\ wild = {}

-----------------------------------------------------------------------------
(* Wrappers and events.                                                    *)

\* vox_call_wrap_new() and vox_call_register(): the list owns the reference.
WrapNew(dlg, state) ==
    [NoCall EXCEPT !.state = state, !.bc = TRUE, !.listed = TRUE, !.refs = 1,
                   !.dlg = dlg]

\* mem_deref(): what a freed wrapper held is gone.
Deref(r) == IF r.refs = 1 THEN Freed ELSE [r EXCEPT !.refs = @ - 1]

\* vox_call_find(): NULL for a call whose wrapper left the list.
Found(c) == call[c].listed /\ call[c].bc

\* Mutant: the queue's limit is off by one.
Post_OffByOne(c, what) ==
    events' = IF Len(events) > QueueMax THEN events
              ELSE Append(events, [call |-> c, what |-> what])

\* Mutant: list_prepend() for list_append().
Post_Prepend(c, what) ==
    events' = IF Len(events) >= QueueMax THEN events
              ELSE <<[call |-> c, what |-> what]>> \o events

\* vox_event_post_qev() of an event that owns nothing.
Post(c, what) ==
    events' = IF Len(events) >= QueueMax THEN events
              ELSE Append(events, [call |-> c, what |-> what])

-----------------------------------------------------------------------------
(* The end of a call: the CALL_CLOSED case of bevent_handler().            *)

Transport(cause) == cause \in {"bye", "reset"}

\* Only the state tells a peer's hangup from a dead socket.
PeerHangup(state, cause) == Transport(cause) /\ state = "ESTABLISHED"

Classify(state, cause) ==
    CASE cause = "487"              -> "CANCELLED"
      [] PeerHangup(state, cause)   -> "ENDED"
      [] cause = "user"             -> "ENDED"
      [] OTHER                      -> "FAILED"

\* baresip's last NOTIFY to the transferor when a call made for a REFER ends or
\* is answered: the notifier the call carries is the transferor's.
Notified(calls, n) ==
    LET c == calls[n].via
    IN  IF c = None THEN calls
        ELSE [calls EXCEPT ![n].via = None,
                           ![c].notifier = IF @ = "moved" THEN "none" ELSE @]

\* Mutant: post is set to false and no event carries the end.
Close_Quiet(calls, c, cause, last) ==
    LET s == Classify(calls[c].state, cause)
    IN  /\ call' = [Notified(calls, c) EXCEPT
                        ![c].state = IF last = "classified" THEN s ELSE last,
                        ![c].bc = FALSE, ![c].listed = FALSE, ![c].dlg = "gone",
                        ![c].notifier = "none"]
        /\ UNCHANGED <<events, lost>>

\* The call leaves the list and the terminal event takes over its reference; an
\* event that a full queue refuses frees the wrapper with it.  "last" is the
\* state left behind when the caller overwrites the classified one.
Close(calls, c, cause, last) ==
    LET s == Classify(calls[c].state, cause)
        r == [calls[c] EXCEPT !.state = IF last = "classified" THEN s ELSE last,
                              !.bc = FALSE, !.listed = FALSE,
                              !.dlg = "gone", !.notifier = "none"]
        after(q) == [Notified(calls, c) EXCEPT ![c] = q]
    IN  IF Len(events) >= QueueMax
        THEN /\ call' = after(Deref(r)) /\ lost' = lost \cup {c}
             /\ UNCHANGED events
        ELSE /\ call' = after([r EXCEPT !.via = None]) /\ UNCHANGED lost
             /\ events' = Append(events, [call |-> c, what |-> s])

-----------------------------------------------------------------------------
(* Events from baresip (the re thread).                                    *)

ReIdle == sweep = {}

\* BEVENT_CALL_INCOMING.  A call whose event is refused loses its wrapper, and
\* rings on without one.
Incoming(c) ==
    /\ ReIdle /\ call[c] = NoCall
    /\ IF Len(events) >= QueueMax
       THEN /\ call' = [call EXCEPT ![c] = Freed]
            /\ UNCHANGED events
       ELSE /\ call' = [call EXCEPT ![c] = WrapNew("in", "RINGING")]
            /\ Post(c, "RINGING")
    /\ UNCHANGED <<setupTmr, sweep, lost, appVars>>

\* BEVENT_CALL_RINGING, BEVENT_CALL_PROGRESS
Ringing(c) ==
    /\ ReIdle /\ Found(c) /\ call[c].dlg = "out"
    /\ call' = [call EXCEPT ![c].state = "RINGING"]
    /\ Post(c, "RINGING")
    /\ UNCHANGED <<setupTmr, sweep, lost, appVars>>

Established(calls, c, dlg) ==
    Notified([calls EXCEPT ![c].state = "ESTABLISHED", ![c].setup_start = "off",
                           ![c].dlg = dlg], c)

\* BEVENT_CALL_ANSWERED, then BEVENT_CALL_ESTABLISHED, with the same effect.
Answered(c) ==
    /\ ReIdle /\ Found(c)
    /\ \/ call[c].dlg = "out" /\ call' = Established(call, c, "answered")
       \/ call[c].dlg \in {"out", "answered"} /\ call' = Established(call, c, "up")
    /\ Post(c, "ESTABLISHED")
    /\ UNCHANGED <<setupTmr, sweep, lost, appVars>>

\* BEVENT_CALL_CLOSED, unasked: the peer, a failure, a dead socket.
Closed(c, cause) ==
    /\ ReIdle /\ Found(c)
    /\ Close(call, c, cause, "classified")
    /\ UNCHANGED <<setupTmr, sweep, appVars>>

\* BEVENT_CALL_HOLD, BEVENT_CALL_RESUME: the peer holds and resumes.
PeerHold(c) ==
    /\ ReIdle /\ Found(c) /\ call[c].dlg = "up" /\ call[c].state = "ESTABLISHED"
    /\ call' = [call EXCEPT ![c].state = "HELD"]
    /\ Post(c, "HELD")
    /\ UNCHANGED <<setupTmr, sweep, lost, appVars>>

PeerResume(c) ==
    /\ ReIdle /\ Found(c) /\ call[c].dlg = "up" /\ call[c].state = "HELD"
    /\ call' = [call EXCEPT ![c].state = "ESTABLISHED"]
    /\ Post(c, "ESTABLISHED")
    /\ UNCHANGED <<setupTmr, sweep, lost, appVars>>

\* BEVENT_CALL_DTMF_*, BEVENT_CALL_TRANSFER_FAILED: posted, the call is as it was.
Inform(c, info) ==
    /\ ReIdle /\ Found(c) /\ call[c].dlg = "up"
    /\ Post(c, info)
    /\ UNCHANGED <<call, setupTmr, sweep, lost, appVars>>

\* BEVENT_CALL_LOCAL_SDP, BEVENT_CALL_REMOTE_SDP: vox_sdp_handle_event() posts
\* one event for each pair of an offer and an answer.
Sdp(c, side) ==
    LET l == call[c].local_sdp \/ side = "local"
        r == call[c].remote_sdp \/ side = "remote"
    IN  /\ ReIdle /\ Found(c) /\ "sdp" \in Infos
        /\ call' = [call EXCEPT ![c].local_sdp = l /\ ~r, ![c].remote_sdp = r /\ ~l]
        /\ IF l /\ r THEN Post(c, "sdp") ELSE UNCHANGED events
        /\ UNCHANGED <<setupTmr, sweep, lost, appVars>>

\* BEVENT_CALL_TRANSFER: baresip opened a notifier (202, NOTIFY 100) and
\* vox_transfer_handle_event() remembers that it is owed an answer.
Refer(c) ==
    /\ ReIdle /\ Found(c) /\ call[c].dlg = "up" /\ "refer" \in Infos
    /\ call' = [call EXCEPT ![c].xfer_pending = TRUE, ![c].notifier = "owed"]
    /\ Post(c, "refer")
    /\ UNCHANGED <<setupTmr, sweep, lost, appVars>>

-----------------------------------------------------------------------------
(* The call-setup watchdog (the re thread).                                *)

\* vox_call_setup_watch_start(); the timer keeps running if it runs.
Watched(r) == [r EXCEPT !.setup_start = "running"]

\* sip_timer_b_ms have passed since the dial.
DeadlinePasses(c) ==
    /\ call[c].setup_start = "running"
    /\ call' = [call EXCEPT ![c].setup_start = "late"]
    /\ UNCHANGED <<setupTmr, sweep, events, lost, appVars>>

Visited == {c \in Calls : call[c].listed /\ call[c].setup_start # "off"}
Overdue == {c \in Visited : call[c].state = "CALLING" /\ call[c].setup_start = "late"}

\* Mutant: a call inside its deadline does not keep the timer running.
SetupWatch_Once ==
    /\ ReIdle /\ setupTmr
    /\ \E snap \in SUBSET Overdue :
        /\ Cardinality(snap) <= Snapshot
        /\ snap # Overdue => Cardinality(snap) = Snapshot
        /\ sweep' = snap
    /\ call' = [c \in Calls |-> IF c \in Visited /\ call[c].state # "CALLING"
                                THEN [call[c] EXCEPT !.setup_start = "off"]
                                ELSE call[c]]
    /\ setupTmr' = FALSE
    /\ UNCHANGED <<events, lost, appVars>>

\* setup_watch_handler(): setup_visit() of every listed call fills a snapshot
\* of bounded size; the timer goes on if some call is still inside its deadline.
SetupWatch ==
    /\ ReIdle /\ setupTmr
    /\ \E snap \in SUBSET Overdue :
        /\ Cardinality(snap) <= Snapshot
        /\ snap # Overdue => Cardinality(snap) = Snapshot
        /\ sweep' = snap
    /\ call' = [c \in Calls |-> IF c \in Visited /\ call[c].state # "CALLING"
                                THEN [call[c] EXCEPT !.setup_start = "off"]
                                ELSE call[c]]
    /\ setupTmr' = \E c \in Visited : /\ call[c].state = "CALLING"
                                      /\ call[c].setup_start = "running"
    /\ UNCHANGED <<events, lost, appVars>>

\* ... and then hangs up each call of the snapshot, outside the list lock.  How
\* baresip words the close is not the SDK's: with or without the 408.
SetupCancel(c) ==
    /\ c \in sweep /\ sweep' = sweep \ {c}
    /\ \E cause \in {"408", "user"} :
        Close([call EXCEPT ![c].setup_start = "off"], c, cause, "classified")
    /\ UNCHANGED <<setupTmr, appVars>>

-----------------------------------------------------------------------------
(* The API.  A call of it queues a function for the re thread; a synchronous *)
(* one also waits, so a callback that makes it keeps the event thread.       *)

Item == [op : {"invite"}, call : {None}, by : {"callback", "other"}]
        \cup [op : SyncCalls \cup AsyncCalls, call : Calls, by : {"callback", "other"}]

\* Mutant: vox_dispatch_sync() returns without waiting.
Ask_NoWait(op, c, by) ==
    /\ op \in ApiCalls /\ by \in Threads /\ Len(work) < WorkMax
    /\ by = "callback" => et = "callback"
    /\ op # "invite" => handle[c] = "yes"
    /\ op \in {"invite", "hangup"} \/ c \in Rich
    /\ work' = Append(work, [op |-> op, call |-> c, by |-> by])
    /\ UNCHANGED <<reVars, et, etHold, handle, told, wild>>

\* vox_dispatch(), vox_dispatch_sync() from thread "by"
Ask(op, c, by) ==
    /\ op \in ApiCalls /\ by \in Threads /\ Len(work) < WorkMax
    /\ by = "callback" => et = "callback"
    /\ op # "invite" => handle[c] = "yes"
    /\ op \in {"invite", "hangup"} \/ c \in Rich
    /\ work' = Append(work, [op |-> op, call |-> c, by |-> by])
    /\ et' = IF by = "callback" /\ op \notin AsyncCalls THEN "blocked" ELSE et
    /\ UNCHANGED <<reVars, etHold, handle, told, wild>>

Item1 == Head(work)

\* The function at the head of the queue runs; its caller, if it waited, goes on.
Run(ops) ==
    /\ ReIdle /\ work # <<>> /\ Item1.op \in ops
    /\ work' = Tail(work)
    /\ et' = IF Item1.by = "callback" /\ Item1.op \notin AsyncCalls
             THEN "callback" ELSE et

\* The function has a wrapper to run on.
OnLive == call[Item1.call].refs > 0

\* A function that outlived its wrapper: the read of lc->bc is undefined.
RunWild ==
    /\ Run(SyncCalls \cup AsyncCalls) /\ ~OnLive
    /\ wild' = wild \cup {IF Item1.op \in AsyncCalls THEN "async" ELSE "sync"}
    /\ UNCHANGED <<reVars, etHold, handle, told>>

\* What a caller that waits is handed: at once, or when its thread gets to run,
\* which may be after the call is over.
Handed(c) == [handle EXCEPT ![c] = IF Item1.by = "callback" THEN "yes" ELSE "pending"]
ToldDialled(c) ==
    IF told[c] = "none" THEN [told EXCEPT ![c] = "CALLING"] ELSE told

\* invite_fn(): a dial that fails leaves nothing behind.
InviteFails ==
    /\ Run({"invite"})
    /\ UNCHANGED <<reVars, etHold, handle, told, wild>>

Invite(c) ==
    /\ Run({"invite"}) /\ call[c] = NoCall
    /\ call' = [call EXCEPT ![c] = [Watched(WrapNew("out", "CALLING"))
                                        EXCEPT !.local_sdp = (c \in Rich)]]
    /\ setupTmr' = TRUE
    /\ handle' = Handed(c) /\ told' = ToldDialled(c)
    /\ UNCHANGED <<sweep, events, lost, etHold, wild>>

\* The thread that called voxsdk_call_invite() or _transfer_accept() wakes up.
Returns(c) ==
    /\ handle[c] = "pending"
    /\ handle' = [handle EXCEPT ![c] = "yes"]
    /\ UNCHANGED <<reVars, et, etHold, work, told, wild>>

\* answer_fn(): ua_answer() answers and emits CALL_ANSWERED, or fails; without a
\* baresip call, ENOENT.
Answer ==
    LET c == Item1.call
    IN  /\ Run({"answer"}) /\ OnLive
        /\ \/ /\ call[c].bc /\ call[c].dlg = "in"
              /\ call' = Established(call, c, "answered")
              /\ Post(c, "ESTABLISHED")
           \/ UNCHANGED <<call, events>>
        /\ UNCHANGED <<setupTmr, sweep, lost, etHold, handle, told, wild>>

\* hangup_fn(): ua_hangup() runs CALL_CLOSED before it returns; the state is
\* then written once more.
Hangup ==
    LET c == Item1.call
    IN  /\ Run({"hangup"}) /\ OnLive
        /\ IF call[c].bc THEN Close(call, c, "user", "ENDED")
           ELSE UNCHANGED <<call, events, lost>>
        /\ UNCHANGED <<setupTmr, sweep, etHold, handle, told, wild>>

\* reject_fn(): the same with a status, and the state is written in any case.
Reject ==
    LET c == Item1.call
    IN  /\ Run({"reject"}) /\ OnLive
        /\ IF call[c].bc THEN \E cause \in {"user", "4xx"} : Close(call, c, cause, "ENDED")
           ELSE /\ call' = [call EXCEPT ![c].state = "ENDED"]
                /\ UNCHANGED <<events, lost>>
        /\ UNCHANGED <<setupTmr, sweep, etHold, handle, told, wild>>

\* hold_fn(): local_hold follows call_hold() when that succeeds.
HoldResume ==
    LET c == Item1.call
    IN  /\ Run({"hold", "resume"}) /\ OnLive
        /\ \/ /\ call[c].bc
              /\ call' = [call EXCEPT ![c].local_hold = (Item1.op = "hold")]
           \/ UNCHANGED call
        /\ UNCHANGED <<setupTmr, sweep, events, lost, etHold, handle, told, wild>>

AnswerRefer(c, notifier) ==
    [call EXCEPT ![c].xfer_pending = FALSE, ![c].notifier = notifier]

\* transfer_accept_fn() and transfer_reject_fn() without a call (ENOENT), or with no
\* REFER outstanding (VOXSDK_ERR_STATE): two early returns that change nothing.
XferRefused ==
    /\ Run({"xfer_accept", "xfer_reject"}) /\ OnLive
    /\ ~(call[Item1.call].bc /\ call[Item1.call].xfer_pending)
    /\ UNCHANGED <<reVars, etHold, handle, told, wild>>

Pending == OnLive /\ call[Item1.call].bc /\ call[Item1.call].xfer_pending

\* ... ua_call_alloc(), the wrapper or call_connect() fails: NOTIFY 500.
XferAcceptFails ==
    /\ Run({"xfer_accept"}) /\ Pending
    /\ call' = AnswerRefer(Item1.call, "none")
    /\ UNCHANGED <<setupTmr, sweep, events, lost, etHold, handle, told, wild>>

\* Mutant: no vox_call_find(): the new wrapper is always dropped.
XferConnectClosed_Drop(n) ==
    /\ Run({"xfer_accept"}) /\ Pending /\ call[n] = NoCall
    /\ Close([AnswerRefer(Item1.call, "none")
                EXCEPT ![n] = [WrapNew("out", "CALLING") EXCEPT !.refs = 0]],
             n, "user", "classified")
    /\ UNCHANGED <<setupTmr, sweep, etHold, handle, told, wild>>

\* ... call_connect() fails after an event of its own ended the new call: the
\* wrapper already belongs to that event and must not be dropped again.
XferConnectClosed(n) ==
    /\ Run({"xfer_accept"}) /\ Pending /\ call[n] = NoCall
    /\ Close([AnswerRefer(Item1.call, "none") EXCEPT ![n] = WrapNew("out", "CALLING")],
             n, "user", "classified")
    /\ UNCHANGED <<setupTmr, sweep, etHold, handle, told, wild>>

\* Mutant: the REFER stays pending after it was followed.
XferAccept_Pending(n) ==
    /\ Run({"xfer_accept"}) /\ Pending /\ call[n] = NoCall
    /\ call' = [call EXCEPT
                    ![Item1.call].notifier = "moved",
                    ![n] = [Watched(WrapNew("out", "CALLING"))
                                EXCEPT !.local_sdp = (n \in Rich), !.via = Item1.call]]
    /\ setupTmr' = TRUE
    /\ handle' = Handed(n) /\ told' = ToldDialled(n)
    /\ UNCHANGED <<sweep, events, lost, etHold, wild>>

\* Mutant: vox_call_setup_watch_start() is not called for the new call.
XferAccept_Unwatched(n) ==
    /\ Run({"xfer_accept"}) /\ Pending /\ call[n] = NoCall
    /\ call' = [AnswerRefer(Item1.call, "moved") EXCEPT
                    ![n] = [WrapNew("out", "CALLING")
                                EXCEPT !.local_sdp = (n \in Rich), !.via = Item1.call]]
    /\ handle' = Handed(n) /\ told' = ToldDialled(n)
    /\ UNCHANGED <<setupTmr, sweep, events, lost, etHold, wild>>

\* ... the new call carries the notifier and is watched.
XferAccept(n) ==
    /\ Run({"xfer_accept"}) /\ Pending /\ call[n] = NoCall
    /\ call' = [AnswerRefer(Item1.call, "moved") EXCEPT
                    ![n] = [Watched(WrapNew("out", "CALLING"))
                                EXCEPT !.local_sdp = (n \in Rich), !.via = Item1.call]]
    /\ setupTmr' = TRUE
    /\ handle' = Handed(n) /\ told' = ToldDialled(n)
    /\ UNCHANGED <<sweep, events, lost, etHold, wild>>

\* transfer_reject_fn(): the terminating NOTIFY.  Whether it could be sent is only the
\* value returned: the REFER counts as answered either way.
XferReject ==
    /\ Run({"xfer_reject"}) /\ Pending
    /\ call' = AnswerRefer(Item1.call, "none")
    /\ UNCHANGED <<setupTmr, sweep, events, lost, etHold, handle, told, wild>>

-----------------------------------------------------------------------------
(* The event thread (event_thread_fn, in EventQueue.tla).                  *)

\* The callback is given the oldest event, and with an incoming call its handle.
Deliver ==
    LET e == Head(events)
    IN  /\ et = "idle" /\ events # <<>>
        /\ events' = Tail(events)
        /\ et' = "callback" /\ etHold' = IF e.what \in P!Over THEN e.call ELSE None
        /\ told' = IF e.what \in Infos THEN told ELSE [told EXCEPT ![e.call] = e.what]
        /\ handle' = IF e.what \in P!CallStates /\ call[e.call].dlg # "none"
                        /\ told[e.call] = "none" /\ handle[e.call] = "no"
                     THEN [handle EXCEPT ![e.call] = "yes"] ELSE handle
        /\ UNCHANGED <<call, setupTmr, sweep, lost, work, wild>>

\* The callback is given an event that is not about a call.
DeliverOther ==
    /\ et = "idle"
    /\ et' = "callback"
    /\ UNCHANGED <<reVars, etHold, work, handle, told, wild>>

\* The callback returns; the terminal event drops the wrapper.
Delivered ==
    /\ et = "callback"
    /\ et' = "idle" /\ etHold' = None
    /\ IF etHold = None THEN UNCHANGED <<call, handle>>
       ELSE /\ call' = [call EXCEPT ![etHold] = Deref(@)]
            /\ handle' = [handle EXCEPT ![etHold] = IF @ = "yes" THEN "over" ELSE @]
    /\ UNCHANGED <<setupTmr, sweep, events, lost, work, told, wild>>

-----------------------------------------------------------------------------
Bevent ==
    \/ \E c \in Calls : \/ Ringing(c) \/ Answered(c)
                        \/ \E cause \in Causes : Closed(c, cause)
    \/ \E c \in Rich : \/ Incoming(c) \/ PeerHold(c) \/ PeerResume(c) \/ Refer(c)
                       \/ \E info \in Infos \ {"sdp", "refer"} : Inform(c, info)
                       \/ \E side \in {"local", "remote"} : Sdp(c, side)

Watchdog ==
    \/ SetupWatch
    \/ \E c \in Calls : DeadlinePasses(c) \/ SetupCancel(c)

Dispatched ==
    \/ RunWild \/ InviteFails \/ Answer \/ Hangup \/ Reject \/ HoldResume
    \/ XferRefused \/ XferAcceptFails \/ XferReject
    \/ \E c \in Calls : Invite(c) \/ XferConnectClosed(c) \/ XferAccept(c)

App ==
    \/ \E by \in Threads : Ask("invite", None, by)
    \/ \E c \in Calls, op \in ApiCalls \ {"invite"}, by \in Threads : Ask(op, c, by)
    \/ \E c \in Calls : Returns(c)

Next == Bevent \/ Watchdog \/ Dispatched \/ App \/ Deliver \/ DeliverOther \/ Delivered

Spec == Init /\ [][Next]_vars

\* The re loop and the event thread run, callbacks return (after however many
\* calls of the API), time passes.  Nothing obliges a peer or the application to
\* do anything.
Fairness ==
    /\ WF_vars(Dispatched) /\ SF_vars(Deliver) /\ SF_vars(Delivered)
    /\ WF_vars(SetupWatch)
    /\ \A c \in Calls : WF_vars(DeadlinePasses(c)) /\ WF_vars(SetupCancel(c))

FairSpec == Spec /\ Fairness

-----------------------------------------------------------------------------
(* Properties.                                                             *)

CallRecord ==
    [state : P!CallStates \cup {"none"}, bc : BOOLEAN, listed : BOOLEAN, refs : Int,
     local_hold : BOOLEAN, setup_start : {"off", "running", "late"},
     xfer_pending : BOOLEAN, local_sdp : BOOLEAN, remote_sdp : BOOLEAN,
     dlg : {"none", "in", "out", "answered", "up", "gone"},
     notifier : {"none", "owed", "moved"}, via : Calls \cup {None}]

\* Every variable has its type.
TypeOK ==
    /\ call \in [Calls -> CallRecord]
    /\ setupTmr \in BOOLEAN /\ sweep \subseteq Calls
    /\ events \in Seq(Event) /\ Len(events) <= QueueMax
    /\ et \in {"idle", "callback", "blocked"} /\ etHold \in Calls \cup {None}
    /\ work \in Seq(Item) /\ Len(work) <= WorkMax
    /\ handle \in [Calls -> {"no", "pending", "yes", "over"}]
    /\ told \in [Calls -> P!CallStates \cup {"none"}]
    /\ lost \subseteq Calls /\ wild \subseteq {"async", "sync"}

B(b) == IF b THEN 1 ELSE 0

\* A wrapper has exactly one owner: the list, or the terminal event on its way to
\* the application.  No path frees it twice (transfer.c: "Dereffing again here
\* would be a double free") or forgets it, and a listed one has a baresip call.
OwnedOnce ==
    \A c \in Calls :
        /\ call[c].refs =
              B(call[c].listed) + B(etHold = c)
              + Cardinality({i \in DOMAIN events : /\ events[i].call = c
                                                   /\ events[i].what \in P!Over})
        /\ call[c].listed <=> call[c].bc

\* A call still dialling is watched: its deadline is set and the sweep that will
\* find it is due, however dials, transfers and sweeps interleave.
SetupWatched ==
    \A c \in Calls :
        call[c].listed /\ call[c].state = "CALLING"
            => call[c].setup_start # "off" /\ (setupTmr \/ c \in sweep)

\* A REFER is pending exactly while the transferor is owed an answer that nobody
\* else will give: the application can answer it, and never twice.
XferOwed ==
    \A c \in Calls :
        call[c].bc => (call[c].xfer_pending <=> call[c].notifier = "owed")

\* What a call owes is owed by somebody who will pay: a dial by the watchdog, a REFER
\* by the application (call.c, transfer.c).
DebtsKept == SetupWatched /\ XferOwed

\* An application that only calls the API from its callback never has a
\* synchronous function run on a freed wrapper: the callback it waits in is what
\* keeps the terminal event, and so the wrapper.
SyncOnLive == Threads = {"callback"} /\ lost = {} => "sync" \notin wild

Ends(e) == e.what \in P!Over
EndQueued(c) == \E i \in DOMAIN events : events[i].call = c /\ Ends(events[i])
NoneQueued(c) == \A i \in DOMAIN events : events[i].call # c

\* t may be told after s, or is s once more.
Follows(s, t) == t = s \/ t \in P!Later(s)

\* Who holds the wrapper of a call, and what is on its way.  A listed call is
\* being set up or up; a call that was never seen has no event; the event thread
\* holds a wrapper only inside a callback, and then nothing of that call is queued.
OwnerInv ==
    /\ \A c \in Calls :
        /\ call[c].listed <=> call[c].bc
        /\ call[c].refs = B(call[c].listed) + B(etHold = c) + B(EndQueued(c))
        /\ call[c].listed => /\ call[c].refs = 1
                             /\ call[c].state \in P!Setup \cup P!Up
                             /\ call[c].dlg = "out" => call[c].state \in P!Setup
                             /\ call[c].dlg # "none"
        /\ etHold = c => NoneQueued(c)
        /\ call[c].dlg = "none" => told[c] = "none" /\ NoneQueued(c)
    /\ et = "idle" => etHold = None

\* The watchdog's snapshot holds listed calls that are still dialling.
SweepInv ==
    \A c \in sweep : call[c].listed /\ call[c].state = "CALLING"
                     /\ call[c].setup_start = "late"

\* The terminal event of a call is the last of its events, and until it is queued
\* the call is listed (or a full queue dropped it).
EndLast(i) ==
    /\ Ends(events[i]) => \A k \in DOMAIN events : k > i => events[k].call # events[i].call
    /\ call[events[i].call].listed \/ events[i].call \in lost
       \/ \E k \in DOMAIN events : k >= i /\ events[k].call = events[i].call /\ Ends(events[k])

\* What was told, what is queued and where the call is, in this order, make one story.
InOrder(i) ==
    events[i].what \in P!CallStates =>
        /\ Follows(told[events[i].call], events[i].what)
        /\ call[events[i].call].listed => Follows(events[i].what, call[events[i].call].state)
        /\ \A k \in DOMAIN events :
              k > i /\ events[k].call = events[i].call /\ events[k].what \in P!CallStates
                => Follows(events[i].what, events[k].what)

StoryInv ==
    /\ \A i \in DOMAIN events : EndLast(i) /\ InOrder(i)
    /\ \A c \in Calls : call[c].listed => Follows(told[c], call[c].state)

\* A callback that waits in a synchronous function is the only one with one queued,
\* and keeps the handle it passed.
WaitInv ==
    Threads = {"callback"} =>
        /\ \A i \in DOMAIN work :
              /\ work[i].by = "callback"
              /\ work[i].op \notin AsyncCalls =>
                    /\ et = "blocked"
                    /\ \A k \in DOMAIN work : work[k].op \notin AsyncCalls => k = i
              /\ work[i].op \in SyncCalls => handle[work[i].call] = "yes"
        /\ \A c \in Calls : handle[c] # "pending"
        /\ \A c \in Calls : lost = {} /\ handle[c] = "yes" => call[c].refs > 0

\* The inductive invariant behind OwnedOnce, SyncOnLive and KeepsPromise.
CallInv == TypeOK /\ OwnerInv /\ SweepInv /\ StoryInv /\ WaitInv /\ SyncOnLive

\* docs/api/events.md: "A remote hangup is ENDED, not FAILED": a call that was
\* answered and that the peer ends with a BYE is ENDED.
ByeIsEnded ==
    [][\A c \in Calls :
        call[c].dlg = "up" /\ Closed(c, "bye") => call'[c].state = "ENDED"]_vars

\* What the application is told about a call keeps the promise of CallPromise.
KeepsPromise == P!Spec

\* An outgoing call that gets no answer of any kind does not stay CALLING.
SetupEnds == \A c \in Calls : call[c].state = "CALLING" ~> call[c].state # "CALLING"

\* The end of a call reaches the application, unless the full queue drops it.
EndTold ==
    \A c \in Calls : handle[c] = "yes" /\ call[c].dlg = "gone"
                        ~> told[c] \in P!Over \/ c \in lost

\* A call ends and the application hears of it: a dial nobody answers is given up,
\* and the end of a call is delivered (call.c, event.c).
CallsEnd == SetupEnds /\ EndTold
=============================================================================
