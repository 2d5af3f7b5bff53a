----------------------------- MODULE EventQueue -----------------------------
(***************************************************************************)
(* The event queue between the SDK and the application: event.c's queue and *)
(* event thread, and the functions of core.c that touch them               *)
(* (voxsdk_init, voxsdk_set_event_handler, voxsdk_is_initialized,          *)
(* voxsdk_shutdown).                                                       *)
(*                                                                         *)
(* Every critical section under g_vox.ev_lock is one step, because ev_lock *)
(* is never held across a call out of the section.  g_vox.lock is held     *)
(* across waits, so its owner is a variable.  Threads: the application     *)
(* threads AppThreads, the event thread (etPc, etEv, etHandler) and the    *)
(* producers, of which the re thread is the only one that owns call        *)
(* wrappers.                                                               *)
(***************************************************************************)
EXTENDS Integers, Sequences, FiniteSets

CONSTANTS
    AppThreads,     \* threads that call voxsdk_set_event_handler / shutdown
    Handlers,       \* event callbacks an application may install
    NoHandler,      \* a NULL event_cb: delivery is parked
    Calls,          \* call wrappers (struct voxsdk_call)
    NoCall,         \* a NULL wrapper pointer
    None,           \* nobody owns g_vox.lock
    QueueMax,       \* VOXSDK_EV_QUEUE_MAX
    CallbackUses,   \* lock-taking API calls the callback makes
    MaxRefs         \* bound on references that SDP clones may add

Reentries == {"set_event_handler", "is_initialized"}

ASSUME QueueMaxAssumption == QueueMax \in Nat \ {0}
ASSUME ConstantsAssumption ==
    /\ NoHandler \notin Handlers
    /\ NoCall \notin Calls
    /\ None \notin AppThreads
    /\ CallbackUses \subseteq Reentries
    /\ MaxRefs \in Nat

VARIABLES
    initialized,    \* g_vox.initialized
    lock,           \* owner of g_vox.lock
    queue, qlen,    \* g_vox.ev_queue, g_vox.ev_queue_len
    handler,        \* g_vox.cfg.{event_cb, deliver_owned_events}
    delivering,     \* g_vox.ev_delivering
    evShutdown,     \* g_vox.ev_shutdown
    etPc, etEv, etHandler,  \* the event thread: place, qev, snapshot
    appPc,          \* where each application thread is
    callState,      \* "none", "live" (listed in s_calls), "gone"
    refs,           \* mem_ref count of each wrapper; 0 is freed
    reHold,         \* wrapper unlisted by CALL_CLOSED, event not posted yet
    held,           \* owned events with a wrapper reference, not yet released
    posting,        \* FALSE: the producers have fallen silent for good
    retired,        \* history: callbacks an API call promised are unreachable
    lost,           \* history: calls whose terminal event the full queue dropped
    leaked,         \* history: wrappers whose reference nobody holds any more
    ended           \* history: calls whose terminal event a callback was given

queueVars == <<queue, qlen, posting>>
etVars    == <<etPc, etEv, etHandler, delivering>>
callVars  == <<callState, refs, reHold, held, lost, leaked, ended>>
coreVars  == <<initialized, lock, evShutdown, appPc>>
handlerVars == <<handler, retired>>
vars == <<queueVars, etVars, callVars, coreVars, handlerVars>>

-----------------------------------------------------------------------------
(* Events.  "call" is the handle in the event's union; "hold" is            *)
(* deref_after_deliver.                                                    *)

Event ==
    {e \in [kind : {"plain", "state", "sdp", "closed"},
            call : Calls \cup {NoCall}, hold : Calls \cup {NoCall}] :
        e.kind # "plain" => e.call # NoCall}
Plain     == [kind |-> "plain",  call |-> NoCall, hold |-> NoCall]
State(c)  == [kind |-> "state",  call |-> c, hold |-> NoCall]
Sdp(c)    == [kind |-> "sdp",    call |-> c, hold |-> NoCall]
Closed(c) == [kind |-> "closed", call |-> c, hold |-> c]

Callback == Handlers \cup {NoHandler}
Active   == {"snap", "callback", "reenter", "done"}

Deref(r, c)  == IF c = NoCall THEN r ELSE [r EXCEPT ![c] = @ - 1]

Init ==
    /\ initialized = FALSE /\ lock = None
    /\ queue = <<>> /\ qlen = 0 /\ posting = TRUE
    /\ handler = [cb |-> NoHandler, owned |-> FALSE]
    /\ delivering = FALSE /\ evShutdown = FALSE
    /\ etPc = "off" /\ etEv = Plain /\ etHandler = handler
    /\ appPc = [a \in AppThreads |-> "idle"]
    /\ callState = [c \in Calls |-> "none"]
    /\ refs = [c \in Calls |-> 0]
    /\ reHold = NoCall
    /\ held = [c \in Calls |-> 0]
    /\ retired = {} /\ lost = {} /\ leaked = {} /\ ended = {}

-----------------------------------------------------------------------------
(* Producers.                                                              *)

\* Mutant: accepts one event too many.
Post_OffByOne(e) ==
    IF qlen > QueueMax
    THEN /\ refs' = Deref(refs, e.hold)
         /\ lost' = IF e.hold = NoCall THEN lost ELSE lost \cup {e.hold}
         /\ UNCHANGED <<queue, qlen>>
    ELSE /\ queue' = Append(queue, e)
         /\ qlen' = qlen + 1
         /\ UNCHANGED <<refs, lost>>

\* Mutant: list_prepend() for list_append().
Post_Prepend(e) ==
    IF qlen >= QueueMax
    THEN /\ refs' = Deref(refs, e.hold)
         /\ lost' = IF e.hold = NoCall THEN lost ELSE lost \cup {e.hold}
         /\ UNCHANGED <<queue, qlen>>
    ELSE /\ queue' = <<e>> \o queue
         /\ qlen' = qlen + 1
         /\ UNCHANGED <<refs, lost>>

\* vox_event_post_qev(): a full queue frees the event, and qev_destructor
\* drops the wrapper reference it carries.
Post(e) ==
    IF qlen >= QueueMax
    THEN /\ refs' = Deref(refs, e.hold)
         /\ lost' = IF e.hold = NoCall THEN lost ELSE lost \cup {e.hold}
         /\ UNCHANGED <<queue, qlen>>
    ELSE /\ queue' = Append(queue, e)
         /\ qlen' = qlen + 1
         /\ UNCHANGED <<refs, lost>>

\* Events keep coming, or this is the last one.
Producing == posting /\ posting' \in BOOLEAN

\* Statistics, registration, message... events (vox_event_post()): any time
\* between voxsdk_init() and the end of voxsdk_shutdown().
PostPlain ==
    /\ initialized
    /\ Producing
    /\ Post(Plain)
    /\ UNCHANGED <<etVars, callState, reHold, held, leaked, ended, coreVars,
                   handlerVars>>

\* Mutant: the hand-written copy forgets ev_queue_len++.
PostLog_Uncounted ==
    /\ initialized
    /\ Producing
    /\ IF qlen >= QueueMax THEN UNCHANGED queue ELSE queue' = Append(queue, Plain)
    /\ UNCHANGED <<qlen, etVars, callVars, coreVars, handlerVars>>

\* queue_log_event() and sip_trace_handler() carry copies of
\* vox_event_post_qev(), so that a full queue is not itself logged.
PostLog ==
    /\ initialized
    /\ Producing
    /\ \/ qlen >= QueueMax /\ UNCHANGED <<queue, qlen>>
       \/ qlen < QueueMax /\ queue' = Append(queue, Plain) /\ qlen' = qlen + 1
    /\ UNCHANGED <<etVars, callVars, coreVars, handlerVars>>

\* vox_event_close() walks the list without ev_lock, so an append racing
\* with the walk may be lost.
PostRaced ==
    /\ \E a \in AppThreads : appPc[a] = "free"
    /\ Producing
    /\ qlen < QueueMax
    /\ qlen' = qlen + 1
    /\ UNCHANGED <<queue, etVars, callVars, coreVars, handlerVars>>

Hooked == initialized /\ ~evShutdown   \* bevent_handler is registered

\* The re thread wraps a call (vox_call_wrap_new) and announces it.  When the
\* event cannot be queued the BEVENT_CALL_INCOMING branch drops the wrapper.
CallNew(c) ==
    /\ Hooked
    /\ reHold = NoCall
    /\ callState[c] = "none"
    /\ Producing
    /\ IF qlen >= QueueMax
       THEN /\ callState' = [callState EXCEPT ![c] = "gone"]
            /\ UNCHANGED <<refs, queue, qlen>>
       ELSE /\ callState' = [callState EXCEPT ![c] = "live"]
            /\ refs' = [refs EXCEPT ![c] = 1]
            /\ queue' = Append(queue, State(c))
            /\ qlen' = qlen + 1
    /\ UNCHANGED <<etVars, reHold, held, lost, leaked, ended, coreVars,
                   handlerVars>>

\* A state change or an SDP negotiation of a listed call.
CallPost(c, e) ==
    /\ Hooked
    /\ reHold = NoCall
    /\ callState[c] = "live"
    /\ refs[c] <= MaxRefs
    /\ Producing
    /\ Post(e)
    /\ UNCHANGED <<etVars, callState, reHold, held, leaked, ended, coreVars,
                   handlerVars>>

\* Mutant: the wrapper is released as soon as the call closes.
CallClosed_DerefNow(c) ==
    /\ Hooked
    /\ reHold = NoCall
    /\ callState[c] = "live"
    /\ callState' = [callState EXCEPT ![c] = "gone"]
    /\ refs' = [refs EXCEPT ![c] = @ - 1]
    /\ UNCHANGED <<queueVars, etVars, reHold, held, lost, leaked, ended,
                   coreVars, handlerVars>>

\* BEVENT_CALL_CLOSED, first half: the wrapper leaves s_calls.
CallClosed(c) ==
    /\ Hooked
    /\ reHold = NoCall
    /\ callState[c] = "live"
    /\ callState' = [callState EXCEPT ![c] = "gone"]
    /\ reHold' = c
    /\ UNCHANGED <<queueVars, etVars, refs, held, lost, leaked, ended,
                   coreVars, handlerVars>>

\* Second half: the terminal event takes the wrapper's reference over.  An
\* allocation failure leaves the reference with nobody.
CallClosedPost ==
    /\ reHold # NoCall
    /\ initialized
    /\ reHold' = NoCall
    /\ Post(Closed(reHold))
    /\ UNCHANGED <<posting, etVars, callState, held, leaked, ended, coreVars,
                   handlerVars>>

CallClosedOom ==
    /\ reHold # NoCall
    /\ reHold' = NoCall
    /\ leaked' = leaked \cup {reHold}
    /\ UNCHANGED <<queueVars, etVars, callState, refs, held, lost, ended,
                   coreVars, handlerVars>>

-----------------------------------------------------------------------------
(* The event thread.                                                       *)

\* Pop the head, snapshot the handler and set ev_delivering: the section at
\* the top of event_thread_fn()'s loop.
Take ==
    /\ queue # <<>>
    /\ queue' = Tail(queue)
    /\ qlen' = qlen - 1
    /\ etEv' = Head(queue)
    /\ etHandler' = handler
    /\ delivering' = TRUE
    /\ etPc' = "snap"

EtTake ==
    /\ etPc = "wait"
    /\ Take
    /\ UNCHANGED <<posting, callVars, coreVars, handlerVars>>

\* No callback, or no memory for the owned clone: the event is dropped.
EtSkip ==
    /\ etPc = "snap"
    /\ etHandler.cb = NoHandler \/ etHandler.owned
    /\ etPc' = "done"
    /\ UNCHANGED <<queueVars, etEv, etHandler, delivering, callVars, coreVars,
                   handlerVars>>

\* Mutant: the clone shares deref_after_deliver instead of taking it over.
EtCallOwned_KeepHold ==
    /\ etPc = "snap"
    /\ etHandler.cb # NoHandler
    /\ etHandler.owned
    /\ etPc' = "callback"
    /\ held' = IF etEv.hold = NoCall THEN held ELSE [held EXCEPT ![etEv.hold] = @ + 1]
    /\ UNCHANGED <<queueVars, etEv, etHandler, delivering, callState, refs,
                   reHold, lost, leaked, ended, coreVars, handlerVars>>

\* qev_clone(): the clone takes deref_after_deliver over; an SDP event without
\* one takes a reference of its own.  (mem_ref() on a freed wrapper has no
\* defined effect; it is modelled as none.)
EtCallOwned ==
    /\ etPc = "snap"
    /\ etHandler.cb # NoHandler
    /\ etHandler.owned
    /\ etPc' = "callback"
    /\ etEv' = [etEv EXCEPT !.hold = NoCall]
    /\ IF etEv.hold # NoCall
       THEN /\ held' = [held EXCEPT ![etEv.hold] = @ + 1]
            /\ UNCHANGED refs
       ELSE IF etEv.kind = "sdp" /\ refs[etEv.call] > 0
       THEN /\ held' = [held EXCEPT ![etEv.call] = @ + 1]
            /\ refs' = [refs EXCEPT ![etEv.call] = @ + 1]
       ELSE UNCHANGED <<held, refs>>
    /\ ended' = IF etEv.kind = "closed" THEN ended \cup {etEv.call} ELSE ended
    /\ UNCHANGED <<queueVars, etHandler, delivering, callState, reHold, lost,
                   leaked, coreVars, handlerVars>>

EtCallBorrowed ==
    /\ etPc = "snap"
    /\ etHandler.cb # NoHandler
    /\ ~etHandler.owned
    /\ etPc' = "callback"
    /\ ended' = IF etEv.kind = "closed" THEN ended \cup {etEv.call} ELSE ended
    /\ UNCHANGED <<queueVars, etEv, etHandler, delivering, callState, refs,
                   reHold, held, lost, leaked, coreVars, handlerVars>>

\* The callback calls an API function that takes g_vox.lock...
EtReenter ==
    /\ etPc = "callback"
    /\ CallbackUses # {}
    /\ etPc' = "reenter"
    /\ UNCHANGED <<queueVars, etEv, etHandler, delivering, callVars, coreVars,
                   handlerVars>>

\* ...and gets through it once the lock is free.  On the event thread
\* voxsdk_set_event_handler() skips its wait.
EtReenterIsInit ==
    /\ etPc = "reenter"
    /\ "is_initialized" \in CallbackUses
    /\ lock = None
    /\ etPc' = "callback"
    /\ UNCHANGED <<queueVars, etEv, etHandler, delivering, callVars, coreVars,
                   handlerVars>>

EtReenterSet(h, owned) ==
    /\ etPc = "reenter"
    /\ "set_event_handler" \in CallbackUses
    /\ lock = None
    /\ etPc' = "callback"
    /\ handler' = [cb |-> h, owned |-> owned]
    /\ retired' = retired \ {h}
    /\ UNCHANGED <<queueVars, etEv, etHandler, delivering, callVars, coreVars>>

EtReturn ==
    /\ etPc = "callback"
    /\ etPc' = "done"
    /\ UNCHANGED <<queueVars, etEv, etHandler, delivering, callVars, coreVars,
                   handlerVars>>

\* Mutant: ev_delivering is not cleared when the queue is empty.
EtDone_StaysBusy ==
    /\ etPc = "done"
    /\ refs' = Deref(refs, etEv.hold)
    /\ \/ Take
       \/ /\ queue = <<>>
          /\ etPc' = "wait"
          /\ etEv' = Plain
          /\ UNCHANGED <<queue, qlen, etHandler, delivering>>
    /\ UNCHANGED <<posting, callState, reHold, held, lost, leaked, ended,
                   coreVars, handlerVars>>

\* mem_deref(qev), then one section of ev_lock: clear ev_delivering and, when
\* the queue is not empty, take the next event before letting the lock go.
EtDone ==
    /\ etPc = "done"
    /\ refs' = Deref(refs, etEv.hold)
    /\ \/ Take
       \/ /\ queue = <<>>
          /\ delivering' = FALSE
          /\ etPc' = "wait"
          /\ etEv' = Plain
          /\ UNCHANGED <<queue, qlen, etHandler>>
    /\ UNCHANGED <<posting, callState, reHold, held, lost, leaked, ended,
                   coreVars, handlerVars>>

EtExit ==
    /\ etPc = "wait"
    /\ queue = <<>>
    /\ evShutdown
    /\ etPc' = "exited"
    /\ UNCHANGED <<queueVars, etEv, etHandler, delivering, callVars, coreVars,
                   handlerVars>>

-----------------------------------------------------------------------------
(* Application threads.                                                    *)

\* voxsdk_init(), which insists on a callback: the list is re-initialised,
\* whatever it still holds.
SdkInit(a, h, owned) ==
    /\ appPc[a] = "idle"
    /\ lock = None
    /\ ~initialized
    /\ initialized' = TRUE
    /\ queue' = <<>> /\ qlen' = 0
    /\ leaked' = leaked \cup {c \in Calls : \E i \in DOMAIN queue : queue[i].hold = c}
    /\ handler' = [cb |-> h, owned |-> owned]
    /\ retired' = retired \ {h}
    /\ evShutdown' = FALSE
    /\ delivering' = FALSE
    /\ etPc' = "wait"
    /\ UNCHANGED <<posting, etEv, etHandler, callState, refs, reHold, held, lost,
                   ended, lock, appPc>>

\* voxsdk_set_event_handler() off the event thread: take g_vox.lock, write the
\* three fields under ev_lock...
SwapBegin(a, h, owned) ==
    /\ appPc[a] = "idle"
    /\ initialized
    /\ lock = None
    /\ lock' = a
    /\ handler' = [cb |-> h, owned |-> owned]
    /\ retired' = retired \ {h}
    /\ appPc' = [appPc EXCEPT ![a] = "swapwait"]
    /\ UNCHANGED <<queueVars, etVars, callVars, initialized, evShutdown>>

\* Mutant: the swap does not wait a running delivery out.
SwapReturn_NoWait(a) ==
    /\ appPc[a] = "swapwait"
    /\ lock' = None
    /\ retired' = Handlers \ {handler.cb}
    /\ appPc' = [appPc EXCEPT ![a] = "idle"]
    /\ UNCHANGED <<queueVars, etVars, callVars, initialized, evShutdown, handler>>

\* ...and return, still holding g_vox.lock, when no delivery is in progress.
SwapReturn(a) ==
    /\ appPc[a] = "swapwait"
    /\ ~delivering
    /\ lock' = None
    /\ retired' = Handlers \ {handler.cb}
    /\ appPc' = [appPc EXCEPT ![a] = "idle"]
    /\ UNCHANGED <<queueVars, etVars, callVars, initialized, evShutdown, handler>>

\* Mutant: the join is not preceded by ev_shutdown.
ShutdownBegin_NoFlag(a) ==
    /\ appPc[a] = "idle"
    /\ lock = None
    /\ initialized
    /\ lock' = a
    /\ appPc' = [appPc EXCEPT ![a] = "join"]
    /\ UNCHANGED <<queueVars, etVars, callVars, initialized, evShutdown, handlerVars>>

\* voxsdk_shutdown() up to vox_event_close()'s join.
ShutdownBegin(a) ==
    /\ appPc[a] = "idle"
    /\ lock = None
    /\ initialized
    /\ lock' = a
    /\ evShutdown' = TRUE
    /\ appPc' = [appPc EXCEPT ![a] = "join"]
    /\ UNCHANGED <<queueVars, etVars, callVars, initialized, handlerVars>>

ShutdownJoin(a) ==
    /\ appPc[a] = "join"
    /\ etPc = "exited"
    /\ etPc' = "off"
    /\ appPc' = [appPc EXCEPT ![a] = "free"]
    /\ UNCHANGED <<queueVars, etEv, etHandler, delivering, callVars,
                   initialized, lock, evShutdown, handlerVars>>

\* One iteration of the loop that frees what is still queued.
ShutdownFreeOne(a) ==
    /\ appPc[a] = "free"
    /\ queue # <<>>
    /\ queue' = Tail(queue)
    /\ refs' = Deref(refs, Head(queue).hold)
    /\ UNCHANGED <<qlen, posting, etVars, callState, reHold, held, lost, leaked,
                   ended, coreVars, handlerVars>>

ShutdownFreed(a) ==
    /\ appPc[a] = "free"
    /\ queue = <<>>
    /\ qlen' = 0
    /\ appPc' = [appPc EXCEPT ![a] = "teardown"]
    /\ UNCHANGED <<queue, posting, etVars, callVars, initialized, lock,
                   evShutdown, handlerVars>>

\* The rest of voxsdk_shutdown(): the re loop stops, so nobody posts any more,
\* and vox_call_global_reset() drops every wrapper still listed.
ShutdownEnd(a) ==
    /\ appPc[a] = "teardown"
    /\ reHold = NoCall
    /\ refs' = [c \in Calls |-> IF callState[c] = "live" THEN refs[c] - 1 ELSE refs[c]]
    /\ callState' = [c \in Calls |-> IF callState[c] = "live" THEN "gone" ELSE callState[c]]
    /\ initialized' = FALSE
    /\ lock' = None
    /\ retired' = Handlers
    /\ appPc' = [appPc EXCEPT ![a] = "idle"]
    /\ UNCHANGED <<queueVars, etVars, reHold, held, lost, leaked, ended,
                   evShutdown, handler>>

\* voxsdk_event_release() of an owned event that carries a reference.
Release(c) ==
    /\ held[c] > 0
    /\ held' = [held EXCEPT ![c] = @ - 1]
    /\ refs' = [refs EXCEPT ![c] = @ - 1]
    /\ UNCHANGED <<queueVars, etVars, callState, reHold, lost, leaked, ended,
                   coreVars, handlerVars>>

-----------------------------------------------------------------------------
Producer ==
    \/ PostPlain
    \/ PostLog
    \/ PostRaced
    \/ \E c \in Calls : \/ CallNew(c)
                        \/ CallPost(c, State(c))
                        \/ CallPost(c, Sdp(c))
                        \/ CallClosed(c)
    \/ CallClosedPost
    \/ CallClosedOom

EventThread ==
    \/ EtTake \/ EtSkip \/ EtCallOwned \/ EtCallBorrowed
    \/ EtReenter \/ EtReenterIsInit
    \/ \E h \in Callback, owned \in BOOLEAN : EtReenterSet(h, owned)
    \/ EtReturn \/ EtDone \/ EtExit

App(a) ==
    \/ \E h \in Handlers, owned \in BOOLEAN : SdkInit(a, h, owned)
    \/ \E h \in Callback, owned \in BOOLEAN : SwapBegin(a, h, owned)
    \/ SwapReturn(a)
    \/ ShutdownBegin(a) \/ ShutdownJoin(a)
    \/ ShutdownFreeOne(a) \/ ShutdownFreed(a) \/ ShutdownEnd(a)

Next ==
    \/ Producer
    \/ EventThread
    \/ \E a \in AppThreads : App(a)
    \/ \E c \in Calls : Release(c)

Spec == Init /\ [][Next]_vars

\* The scheduler runs every thread that can run; a callback returns, which
\* voxsdk.h asks of it ("A callback that blocks forever blocks this call with
\* it").  Nothing obliges an application to start a call of the API.
Fairness ==
    /\ WF_vars(EtTake) /\ WF_vars(EtSkip \/ EtCallOwned \/ EtCallBorrowed)
    /\ WF_vars(EtReturn) /\ WF_vars(EtDone) /\ WF_vars(EtExit)
    /\ WF_vars(CallClosedPost)
    /\ \A a \in AppThreads :
        /\ WF_vars(SwapReturn(a)) /\ WF_vars(ShutdownJoin(a))
        /\ WF_vars(ShutdownFreeOne(a)) /\ WF_vars(ShutdownFreed(a))
        /\ WF_vars(ShutdownEnd(a))

FairSpec == Spec /\ Fairness

-----------------------------------------------------------------------------
(* Properties.                                                             *)

AppPc == {"idle", "swapwait", "join", "free", "teardown"}
EtPc  == Active \cup {"off", "wait", "exited"}

\* Every variable has its type; ev_queue_len never passes ev_queue_max.
TypeOK ==
    /\ initialized \in BOOLEAN /\ delivering \in BOOLEAN /\ evShutdown \in BOOLEAN
    /\ lock \in AppThreads \cup {None}
    /\ queue \in Seq(Event) /\ qlen \in 0 .. QueueMax /\ posting \in BOOLEAN
    /\ handler \in [cb : Callback, owned : BOOLEAN]
    /\ etPc \in EtPc /\ etEv \in Event
    /\ etHandler \in [cb : Callback, owned : BOOLEAN]
    /\ appPc \in [AppThreads -> AppPc]
    /\ callState \in [Calls -> {"none", "live", "gone"}]
    /\ refs \in [Calls -> Int] /\ held \in [Calls -> Nat]
    /\ reHold \in Calls \cup {NoCall}
    /\ retired \subseteq Handlers
    /\ lost \subseteq Calls /\ leaked \subseteq Calls /\ ended \subseteq Calls

\* While an event thread runs, ev_queue_len is the length of ev_queue: no
\* sequence of shutdowns, late posts and re-inits leaves the counter stale
\* ("a stale non-zero length here would make a re-initialised SDK think its
\* empty queue was already full and drop every event forever", event.c).
QueueLengthExact == etPc # "off" => qlen = Len(queue)

\* Once voxsdk_set_event_handler() has returned to an application thread, or
\* voxsdk_shutdown() has returned, a replaced callback is neither running nor
\* about to be called, whatever the event thread was doing meanwhile.
RetiredUnreachable ==
    /\ etPc \in Active => etHandler.cb \notin retired
    /\ initialized => handler.cb \notin retired

B(b) == IF b THEN 1 ELSE 0

HeldBy(c) ==
    B(callState[c] = "live") + B(reHold = c) + held[c] + B(c \in leaked)
    + Cardinality({i \in DOMAIN queue : queue[i].hold = c})
    + B(etPc \in Active /\ etEv.hold = c)

\* The reference count of every call wrapper is the number of places that will
\* release it: the list, the terminal event on its way through the queue, or
\* the owned clones the application has yet to release.  Nothing releases
\* twice or forgets, except the leaks counted in "leaked".
RefsAccounted == \A c \in Calls : refs[c] = HeldBy(c)

\* The wrapper a callback is given is allocated, except for calls whose terminal
\* event the full queue dropped.
HandleValidUnlessLost ==
    etPc \in {"callback", "reenter"} /\ etEv.kind \in {"state", "sdp"}
        => refs[etEv.call] > 0 \/ etEv.call \in lost

\* The terminal event is the last one a callback gets for a call: the handle in
\* it may be forgotten.
EndedIsLast ==
    etPc = "callback" /\ etEv.kind \in {"state", "sdp"} => etEv.call \notin ended

\* A handle is good from the first event that carries it to the terminal one, the
\* last a callback gets, unless the full queue dropped that one (event.c:242).
HandlesSound == HandleValidUnlessLost /\ EndedIsLast

\* A callback that calls the API is never stuck behind an application thread
\* that is itself waiting for that callback to return.
ReentryNeverBlocks ==
    ~ /\ etPc = "reenter"
      /\ \E a \in AppThreads : lock = a /\ appPc[a] \in {"swapwait", "join"}

\* g_vox.lock is held exactly while an application thread is inside the API.
LockInv == \A a \in AppThreads : appPc[a] # "idle" => lock = a

\* ev_delivering covers every delivery, and vox_event_close() touches the queue
\* without ev_lock only after the event thread is gone.
ThreadInv ==
    /\ etPc # "off" => initialized
    /\ etPc \in Active => delivering
    /\ \A a \in AppThreads : appPc[a] \in {"free", "teardown"} => etPc = "off"

\* The inductive invariant behind QueueLengthExact and RetiredUnreachable.
IInv == TypeOK /\ LockInv /\ ThreadInv /\ QueueLengthExact /\ RetiredUnreachable

\* The call is closed and its terminal event posted, dropped or given up.
Over(c) == callState[c] = "gone" /\ reHold # c

Announces(e) == e.kind \in {"state", "sdp"}

\* Somebody other than an event on its way answers for the wrapper.
Backed(c) == callState[c] = "live" \/ reHold = c \/ c \in leaked \cup lost

Queued(c) == \E i \in DOMAIN queue : queue[i].hold = c

\* Once ev_shutdown is up no call event is posted but the terminal one, so the
\* teardown finds none queued.
QuietInv ==
    \A a \in AppThreads :
        /\ appPc[a] \in {"join", "free", "teardown"} => evShutdown
        /\ appPc[a] = "teardown" => \A i \in DOMAIN queue : ~Announces(queue[i])

\* In the queue, a call's terminal event comes last and alone carries the
\* wrapper's reference...
TerminalLast(i) ==
    /\ queue[i].kind # "closed" => queue[i].hold = NoCall
    /\ queue[i].kind = "closed" =>
          /\ queue[i].hold = queue[i].call
          /\ Over(queue[i].call) /\ queue[i].call \notin leaked
          /\ \A k \in DOMAIN queue : k > i => queue[k].call # queue[i].call

\* ...and every earlier event of the call is about a wrapper with a reference
\* that outlives it.
Outlived(i) ==
    /\ queue[i].kind # "plain" => callState[queue[i].call] # "none"
    /\ Announces(queue[i]) =>
          \/ Backed(queue[i].call)
          \/ \E k \in DOMAIN queue : k > i /\ queue[k].hold = queue[i].call

QueueInv == \A i \in DOMAIN queue : TerminalLast(i) /\ Outlived(i)

\* The same for the event the event thread has in its hands.
CurrentInv ==
    etPc \in Active =>
        /\ etEv.kind # "closed" => etEv.hold = NoCall
        /\ etEv.kind # "plain" => callState[etEv.call] # "none"
        /\ etEv.kind = "closed" =>
              /\ etEv.hold \in {etEv.call, NoCall} /\ Over(etEv.call)
              /\ \A k \in DOMAIN queue : queue[k].call # etEv.call
        /\ Announces(etEv) => Backed(etEv.call) \/ Queued(etEv.call)

\* A call that is over stays over, and a callback that was given its terminal
\* event finds nothing more of it on the way.
CallInv ==
    \A c \in Calls :
        /\ callState[c] = "none" => reHold # c /\ held[c] = 0
        /\ reHold = c => callState[c] = "gone"
        /\ c \in leaked => Over(c)
        /\ c \in ended =>
              /\ Over(c)
              /\ \A i \in DOMAIN queue : queue[i].call # c
              /\ etPc \in Active /\ etEv.call = c => ~Announces(etEv)

\* RefsAccounted with the terminal event counted once.
RefsInv ==
    \A c \in Calls :
        refs[c] = held[c] + B(callState[c] = "live") + B(reHold = c) + B(c \in leaked)
                  + B(Queued(c)) + B(etPc \in Active /\ etEv.hold = c)

\* The inductive invariant behind RefsAccounted and HandlesSound.
OwnInv == QuietInv /\ QueueInv /\ CurrentInv /\ CallInv /\ RefsInv

\* Nothing keeps the event thread busy for ever: events stop coming, and no
\* callback is stuck behind a thread that waits for it.
Settles == <>(~posting) /\ []ReentryNeverBlocks

\* voxsdk_set_event_handler() returns: the wait for deliveries ends.
SwapReturns == Settles => \A a \in AppThreads : appPc[a] = "swapwait" ~> appPc[a] = "idle"

\* voxsdk_shutdown() returns: the event thread drains the queue, exits and is
\* joined, and the teardown finishes.
ShutdownReturns == Settles => \A a \in AppThreads : appPc[a] = "join" ~> appPc[a] = "idle"

\* The two functions that wait for the event thread (core.c) return to their caller.
ApiReturns == SwapReturns /\ ShutdownReturns
=============================================================================
