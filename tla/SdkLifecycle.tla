---------------------------- MODULE SdkLifecycle ----------------------------
(***************************************************************************)
(* Starting and stopping the SDK, and getting work to the re thread: core.c *)
(* (voxsdk_init, voxsdk_shutdown), dispatch.c, re_loop.c, and the init and  *)
(* close functions of the subsystems.                                      *)
(*                                                                         *)
(* Threads: those of the application, the event thread (which calls the API *)
(* from the application's callback) and the re thread.  g_vox.lock is held  *)
(* through the whole of voxsdk_init() and voxsdk_shutdown(); the API tests  *)
(* g_vox.initialized without it, and queues its work later, or takes the    *)
(* lock (voxsdk_is_initialized, voxsdk_set_event_handler, whose wait for    *)
(* deliveries is in EventQueue).                                           *)
(*                                                                         *)
(* libre and baresip are outside the repository, modelled from their use:   *)
(* baresip_init() starts with empty device, filter and message lists, so a  *)
(* registration belongs to one instance of it; re_thread_async_main()       *)
(* accepts work while libre is up, whether or not the loop runs.           *)
(***************************************************************************)
EXTENDS Naturals, Sequences, FiniteSets

CONSTANTS
    AppThreads,     \* the application's threads
    EventThread,    \* g_vox.ev_thread
    None,           \* nobody
    MaxInits,       \* bound on baresip_init() calls
    QueueBound,     \* bound on functions waiting for the re thread
    InitFails,      \* TRUE: a subsystem may refuse to start
    ApiFrom         \* threads that call the API (dispatch)

Threads == AppThreads \cup {EventThread}

ASSUME LifecycleAssumption ==
    /\ EventThread \notin AppThreads /\ None \notin Threads
    /\ MaxInits \in Nat \ {0} /\ QueueBound \in Nat \ {0}
    /\ InitFails \in BOOLEAN /\ ApiFrom \subseteq Threads

VARIABLES
    lock,           \* owner of g_vox.lock
    stranded,       \* threads waiting for a g_vox.lock that was zeroed meanwhile
    initialized,    \* g_vox.initialized
    instance,       \* baresip_init() calls so far
    up,             \* subsystems started and not closed
    reg,            \* reg[s]: the instance s is registered with, 0 for none
    pc,             \* pc[t]: where each thread is
    step,           \* how far the owner of g_vox.lock has got
    re,             \* the re thread: "off" or "running"
    queue,          \* functions queued for the re thread, by who waits for them
    accounts,       \* there are accounts
    failed          \* history: a voxsdk_init() has failed since the last shutdown

vars == <<lock, stranded, initialized, instance, up, reg, pc, step, re, queue,
          accounts, failed>>
bootVars == <<stranded, initialized, instance, up, reg, step, accounts, failed>>

-----------------------------------------------------------------------------
(* What is started and closed, in the order of the code.                   *)

InitSteps ==
    <<"log", "libre", "baresip", "dns", "ua", "event", "trace", "external", "ice",
      "processing", "tap", "message", "presence", "pcap", "stats", "netmon", "loop">>

FailSteps ==
    <<"loop", "netmon", "stats", "trace", "event", "ua", "ice", "dns", "baresip",
      "libre", "log", "pcap", "zero">>

\* Mutant: the loop is stopped before the event thread is joined.
ShutSteps_LoopFirst ==
    <<"loop", "event", "stats", "trace", "message", "presence", "processing",
      "accounts", "netmon", "ua", "external", "ice", "dns", "baresip",
      "pcap", "libre", "log", "tap">>

\* Mutant: the loop is stopped last.
ShutSteps_LoopLast ==
    <<"event", "stats", "trace", "message", "presence", "processing", "accounts",
      "netmon", "ua", "external", "ice", "dns", "baresip", "pcap", "loop",
      "libre", "log", "tap">>

ShutSteps ==
    <<"event", "stats", "trace", "message", "presence", "processing", "accounts",
      "loop", "netmon", "ua", "external", "ice", "dns", "baresip", "pcap",
      "libre", "log", "tap">>

Subsystems == {InitSteps[i] : i \in DOMAIN InitSteps}

\* Subsystems that report no error, or whose error voxsdk_init() tolerates.
Tolerant == {"log", "external", "ice", "processing", "tap", "presence"}

\* Registrations kept in lists of baresip's.  Three are remembered in static
\* memory until closed, and a second one comes to nothing: by a flag (s_ready,
\* s_tap_registered), or because the filters of audio_processing.c are static list
\* elements, which list_append() refuses while they are linked.
Registered == {"external", "ice", "processing", "tap", "message", "presence"}
Flagged    == {"external", "processing", "tap"}

Init ==
    /\ lock = None /\ stranded = {} /\ initialized = FALSE /\ instance = 0
    /\ up = {} /\ reg = [s \in Registered |-> 0]
    /\ pc = [t \in Threads |-> IF t \in AppThreads THEN "idle" ELSE "off"]
    /\ step = 0 /\ re = "off" /\ queue = <<>> /\ accounts = FALSE /\ failed = FALSE

-----------------------------------------------------------------------------
(* voxsdk_init().                                                          *)

\* A thread on its way into voxsdk_init() or voxsdk_shutdown().
Waiting(what) == IF what = "init" THEN "init?" ELSE "shut?"

\* Mutant: an SDK that runs is initialised again.
Enter_NoAlready(t, what) ==
    /\ pc[t] = Waiting(what) /\ lock = None /\ t \notin stranded
    /\ what = "init" /\ ~initialized => instance < MaxInits
    /\ lock' = t /\ pc' = [pc EXCEPT ![t] = what] /\ step' = 1
    /\ UNCHANGED <<stranded, initialized, instance, up, reg, re, queue, accounts, failed>>

\* mtx_lock(&g_vox.lock), and the test of initialized behind it.
Enter(t, what) ==
    /\ pc[t] = Waiting(what) /\ lock = None /\ t \notin stranded
    /\ what = "init" /\ ~initialized => instance < MaxInits
    /\ IF (what = "init") = initialized
       THEN /\ pc' = [pc EXCEPT ![t] = "idle"]     \* ALREADY, or nothing to stop
            /\ UNCHANGED <<lock, step>>
       ELSE /\ lock' = t /\ pc' = [pc EXCEPT ![t] = what] /\ step' = 1
    /\ UNCHANGED <<stranded, initialized, instance, up, reg, re, queue, accounts, failed>>

Want(t, what) ==
    /\ t \in AppThreads /\ pc[t] = "idle"
    /\ pc' = [pc EXCEPT ![t] = Waiting(what)]
    /\ UNCHANGED <<lock, bootVars, re, queue>>

\* The init function of one subsystem.
Start(s) ==
    /\ up' = up \cup {s}
    /\ instance' = IF s = "baresip" THEN instance + 1 ELSE instance
    /\ reg' = IF s \notin Registered \/ (s \in Flagged /\ s \in up) THEN reg
              ELSE [reg EXCEPT ![s] = instance]

InitStep(t) ==
    /\ pc[t] = "init" /\ lock = t /\ step <= Len(InitSteps)
    /\ Start(InitSteps[step])
    /\ step' = step + 1
    /\ re' = IF InitSteps[step] = "loop" THEN "running" ELSE re
    /\ pc' = IF InitSteps[step] = "event" THEN [pc EXCEPT ![EventThread] = "idle"] ELSE pc
    /\ UNCHANGED <<lock, stranded, initialized, queue, accounts, failed>>

InitFail(t) ==
    /\ InitFails /\ pc[t] = "init" /\ step <= Len(InitSteps)
    /\ InitSteps[step] \notin Tolerant
    /\ pc' = [pc EXCEPT ![t] = "fail"] /\ step' = 1 /\ failed' = TRUE
    /\ UNCHANGED <<lock, stranded, initialized, instance, up, reg, re, queue, accounts>>

InitDone(t) ==
    /\ pc[t] = "init" /\ step > Len(InitSteps)
    /\ initialized' = TRUE
    /\ lock' = None /\ pc' = [pc EXCEPT ![t] = "idle"] /\ step' = 0
    /\ UNCHANGED <<stranded, instance, up, reg, re, queue, accounts, failed>>

-----------------------------------------------------------------------------
(* Closing.                                                                *)

\* Mutant: vox_audio_external_close() leaves s_ready set.
Stop_Ready(s) ==
    /\ up' = IF s = "external" THEN up ELSE up \ {s}
    /\ reg' = IF s = "baresip" THEN [x \in Registered |-> 0]
              ELSE IF s \in Registered THEN [reg EXCEPT ![s] = 0] ELSE reg

\* The close function of one subsystem.  baresip_close() drops its lists, and
\* with them every registration still in them.
Stop(s) ==
    /\ up' = up \ {s}
    /\ reg' = IF s = "baresip" THEN [x \in Registered |-> 0]
              ELSE IF s \in Registered THEN [reg EXCEPT ![s] = 0] ELSE reg

\* One close.  vox_event_close() joins the event thread, which first ends its
\* callback; vox_re_loop_stop() cancels the loop from within and joins it;
\* libre_close() drops the work nobody ran, and who waits for it waits on.
CloseOne(t, s) ==
    /\ s = "event" => pc[EventThread] \in {"idle", "off"}
    /\ pc' = IF s = "event" THEN [pc EXCEPT ![EventThread] = "off"] ELSE pc
    /\ re' = IF s = "loop" THEN "off" ELSE re
    /\ queue' = IF s = "libre" THEN <<>> ELSE queue
    /\ IF s \in up THEN Stop(s) ELSE UNCHANGED <<up, reg>>
    /\ step' = step + 1

FailStep(t) ==
    /\ pc[t] = "fail" /\ FailSteps[step] # "zero"
    /\ CloseOne(t, FailSteps[step])
    /\ UNCHANGED <<lock, stranded, initialized, instance, accounts, failed>>

\* memset(&g_vox, 0, sizeof(g_vox)) with g_vox.lock held, and an unlock of what
\* is left: a thread that was waiting for the lock may or may not be woken.
FailEnd(t) ==
    /\ pc[t] = "fail" /\ FailSteps[step] = "zero"
    /\ lock' = None /\ step' = 0 /\ pc' = [pc EXCEPT ![t] = "idle"]
    /\ \E forgotten \in SUBSET {u \in AppThreads : pc[u] \in {"init?", "shut?", "lock?"}} :
        stranded' = stranded \cup forgotten
    /\ UNCHANGED <<initialized, instance, up, reg, re, queue, accounts, failed>>

\* voxsdk_shutdown(), one close at a time.  "accounts": hangup_ua_fn() for each
\* account goes through the re thread like any other synchronous call.
ShutStep(t) ==
    /\ pc[t] = "shut" /\ step <= Len(ShutSteps) /\ ShutSteps[step] # "accounts"
    /\ CloseOne(t, ShutSteps[step])
    /\ UNCHANGED <<lock, stranded, initialized, instance, accounts, failed>>

ShutAccounts(t) ==
    /\ pc[t] = "shut" /\ step <= Len(ShutSteps) /\ ShutSteps[step] = "accounts"
    /\ IF accounts
       THEN /\ queue' = Append(queue, t)
            /\ pc' = [pc EXCEPT ![t] = "shutwait"]
            /\ UNCHANGED step
       ELSE /\ step' = step + 1
            /\ UNCHANGED <<queue, pc>>
    /\ UNCHANGED <<lock, stranded, initialized, instance, up, reg, re, accounts, failed>>

ShutEnd(t) ==
    /\ pc[t] = "shut" /\ step > Len(ShutSteps)
    /\ initialized' = FALSE /\ failed' = FALSE
    /\ lock' = None /\ step' = 0 /\ pc' = [pc EXCEPT ![t] = "idle"]
    /\ UNCHANGED <<stranded, instance, up, reg, re, queue, accounts>>

-----------------------------------------------------------------------------
(* Work for the re thread.                                                 *)

\* vox_dispatch() and vox_dispatch_sync() test initialized ...
Call(t, how) ==
    /\ t \in ApiFrom /\ pc[t] = "idle" /\ initialized
    /\ pc' = [pc EXCEPT ![t] = how]
    /\ UNCHANGED <<lock, bootVars, re, queue>>

\* ... and queue the function, which libre refuses once it is closed; a
\* synchronous caller then waits for the re thread.
Queue(t) ==
    /\ pc[t] \in {"sync", "async"} /\ Len(queue) < QueueBound
    /\ IF "libre" \in up
       THEN /\ queue' = Append(queue, IF pc[t] = "sync" THEN t ELSE None)
            /\ pc' = [pc EXCEPT ![t] = IF @ = "sync" THEN "wait" ELSE "idle"]
       ELSE /\ pc' = [pc EXCEPT ![t] = "idle"]
            /\ UNCHANGED queue
    /\ UNCHANGED <<lock, bootVars, re>>

\* voxsdk_is_initialized() and voxsdk_set_event_handler(), from a thread or from the
\* callback, test initialized and then wait for g_vox.lock ...
AskLock(t) ==
    /\ t \in ApiFrom /\ pc[t] = "idle" /\ initialized
    /\ pc' = [pc EXCEPT ![t] = "lock?"]
    /\ UNCHANGED <<lock, bootVars, re, queue>>

\* ... which they hold for an instant only.
GetLock(t) ==
    /\ pc[t] = "lock?" /\ lock = None /\ t \notin stranded
    /\ pc' = [pc EXCEPT ![t] = "idle"]
    /\ UNCHANGED <<lock, bootVars, re, queue>>

\* Mutant: sync_cb() forgets cnd_signal().
ReRun_NoSignal ==
    /\ re = "running" /\ queue # <<>>
    /\ queue' = Tail(queue)
    /\ accounts' \in BOOLEAN
    /\ UNCHANGED <<lock, pc, stranded, initialized, instance, up, reg, step, re, failed>>

\* The re thread runs dispatch_cb() or sync_cb(), which wakes the caller.  What
\* it runs may create an account or destroy the last one; hangup_ua_fn() of
\* voxsdk_shutdown() ends with the accounts its loop found.
ReRun ==
    LET t == Head(queue)
        shut == t # None /\ pc[t] = "shutwait"
    IN  /\ re = "running" /\ queue # <<>>
        /\ queue' = Tail(queue)
        /\ pc' = IF t = None THEN pc
                 ELSE [pc EXCEPT ![t] = IF shut THEN "shut" ELSE "idle"]
        /\ step' = IF shut THEN step + 1 ELSE step
        /\ accounts' \in IF shut THEN {FALSE} ELSE BOOLEAN
        /\ UNCHANGED <<lock, stranded, initialized, instance, up, reg, re, failed>>

Next ==
    \/ \E t \in AppThreads :
        \/ \E what \in {"init", "shut"} : Want(t, what) \/ Enter(t, what)
        \/ InitStep(t) \/ InitFail(t) \/ InitDone(t)
        \/ FailStep(t) \/ FailEnd(t)
        \/ ShutStep(t) \/ ShutAccounts(t) \/ ShutEnd(t)
    \/ \E t \in Threads : Queue(t) \/ \E how \in {"sync", "async"} : Call(t, how)
    \/ \E t \in Threads : AskLock(t) \/ GetLock(t)
    \/ ReRun

Spec == Init /\ [][Next]_vars

\* Every thread that can run does; a callback makes finitely many calls and then
\* returns, and vox_event_close() has unhooked what would queue more events, so a
\* join that is possible again and again happens.  Nothing obliges the application
\* to start a call of the API, or a subsystem to fail.
Fairness ==
    /\ WF_vars(ReRun)
    /\ \A t \in AppThreads :
        SF_vars(\/ InitStep(t) \/ InitDone(t) \/ FailStep(t) \/ FailEnd(t)
                \/ ShutStep(t) \/ ShutAccounts(t) \/ ShutEnd(t))
    /\ \A t \in ApiFrom : SF_vars(Queue(t))   \* strong: QueueBound may stop it for a while
    /\ \A t \in ApiFrom : SF_vars(GetLock(t)) \* strong: others take the lock in between

FairSpec == Spec /\ Fairness

-----------------------------------------------------------------------------
(* Properties.                                                             *)

\* Every variable has its type.
TypeOK ==
    /\ lock \in AppThreads \cup {None} /\ stranded \subseteq AppThreads
    /\ initialized \in BOOLEAN /\ accounts \in BOOLEAN /\ failed \in BOOLEAN
    /\ instance \in 0 .. MaxInits /\ up \subseteq Subsystems
    /\ reg \in [Registered -> 0 .. MaxInits]
    /\ pc \in [Threads -> {"off", "idle", "init?", "init", "fail", "shut?", "shut",
                           "shutwait", "sync", "async", "wait", "lock?"}]
    /\ step \in 0 .. Len(ShutSteps) + 1
    /\ re \in {"off", "running"}
    /\ queue \in Seq(Threads \cup {None})

\* While the SDK says it is initialised, every registration is with the baresip
\* that runs now, however often it was stopped and started again
\* (audio_external.c: "these registrations do not survive a shutdown/init cycle
\* -- which is exactly why close() has to clear s_ready and let us get back
\* here"), but for the three static ones, which the failure path of voxsdk_init()
\* does not close: they are missing until a voxsdk_shutdown() has closed them.
RegistrationsCurrentUnlessFailed ==
    initialized /\ (\A t \in Threads : pc[t] \notin {"shut", "shutwait"})
        => \A s \in Registered : reg[s] = instance \/ (failed /\ s \in Flagged)

\* What was started before the event thread, and what the re thread never outlives:
\* voxsdk_shutdown() closes the event queue, the statistics, the trace, messages,
\* presence and the audio filters while the re thread still runs (core.c:640-647).
BeforeEvents == {"log", "libre", "baresip", "dns", "ua"}
KeptForLoop  == BeforeEvents \cup {"netmon", "external", "ice", "pcap", "tap"}

\* The threads are joined before what they rest on is closed, on the failure path
\* too: while the event thread exists, everything started before it is up, and while
\* the re thread runs, so is everything but the six parts closed under it.
JoinedFirst ==
    /\ pc[EventThread] # "off" => BeforeEvents \subseteq up
    /\ re = "running" => KeptForLoop \subseteq up

\* Over any inits that fail and any shutdowns, an initialised SDK is registered with
\* the baresip that runs, but for what a failed init left static since the last
\* shutdown, and the threads are joined before libre, baresip, the user agents,
\* the devices and the network monitor are closed (core.c).
LifecycleSound == TypeOK /\ RegistrationsCurrentUnlessFailed /\ JoinedFirst

\* What voxsdk_init()'s failure path does not close.
Leftover == {"external", "processing", "tap", "message", "presence"}

\* g_vox.lock is held exactly by the thread inside voxsdk_init() or voxsdk_shutdown().
LockInv ==
    /\ \A t \in AppThreads : lock = t <=> pc[t] \in {"init", "fail", "shut", "shutwait"}
    /\ \A t \in AppThreads : pc[t] # "off"
    /\ pc[EventThread] \in {"off", "idle", "sync", "async", "wait", "lock?"}
    /\ lock = None => step = 0

\* Who has a function queued waits for it, and has only that one.
QueueInv ==
    \A i \in DOMAIN queue : queue[i] # None =>
        /\ pc[queue[i]] \in {"wait", "shutwait"}
        /\ \A k \in DOMAIN queue : queue[k] = queue[i] => k = i

\* What is up says which threads run, and where registrations can be.
UpInv ==
    /\ re = "running" <=> "loop" \in up
    /\ pc[EventThread] # "off" <=> "event" \in up
    /\ "event" \in up => BeforeEvents \subseteq up
    /\ "loop" \in up => KeptForLoop \subseteq up
    /\ "baresip" \notin up => \A s \in Registered : reg[s] = 0

Current(s) == reg[s] = instance \/ (failed /\ s \in Flagged)

\* How far the owner of the lock has got, and what that leaves up.
InitInv ==
    /\ ~initialized /\ step \in 1 .. Len(InitSteps) + 1
    /\ \A i \in DOMAIN InitSteps :
        /\ i < step => InitSteps[i] \in up
        /\ i < step /\ InitSteps[i] \in Registered => Current(InitSteps[i])
        /\ i >= step /\ InitSteps[i] \in up => failed /\ InitSteps[i] \in Leftover
    /\ step <= 3 => instance < MaxInits     \* baresip is the third to start

FailInv ==
    /\ ~initialized /\ failed /\ step \in 1 .. Len(FailSteps)
    /\ \A i \in DOMAIN FailSteps : i < step => FailSteps[i] \notin up

ShutInv(t) ==
    /\ initialized /\ step \in 1 .. Len(ShutSteps) + 1
    /\ \A i \in DOMAIN ShutSteps : i < step => ShutSteps[i] \notin up
    /\ pc[t] = "shutwait" => step <= Len(ShutSteps) /\ ShutSteps[step] = "accounts"

RestInv ==
    /\ initialized => Subsystems \subseteq up /\ \A s \in Registered : Current(s)
    /\ ~initialized => up \subseteq Leftover /\ (~failed => up = {})

StepInv ==
    /\ lock = None => RestInv
    /\ \A t \in AppThreads : /\ pc[t] = "init" => InitInv
                             /\ pc[t] = "fail" => FailInv
                             /\ pc[t] \in {"shut", "shutwait"} => ShutInv(t)

\* The inductive invariant behind LifecycleSound.
LifeInv == TypeOK /\ LockInv /\ QueueInv /\ UpInv /\ StepInv

\* The callback asks for g_vox.lock while a voxsdk_shutdown() holds it, which joins
\* the event thread before it lets go (core.c:640): the two wait for each other for
\* ever, and nothing in the code prevents it.
JoinBlocked ==
    /\ pc[EventThread] = "lock?"
    /\ \E t \in AppThreads : pc[t] \in {"shut", "shutwait"}

\* voxsdk_shutdown() returns, whatever synchronous calls the callback it joins is in
\* the middle of, unless that callback asked for g_vox.lock.
ShutdownReturns ==
    \A t \in AppThreads : pc[t] = "shut" ~> pc[t] = "idle" \/ JoinBlocked

\* A call from the callback returns, even when a shutdown overtakes it, for the loop
\* is not stopped before the event thread is joined; again unless it is a call that
\* wants g_vox.lock during the shutdown.
CallbackReturns ==
    pc[EventThread] \in {"wait", "lock?"}
        ~> pc[EventThread] \notin {"wait", "lock?"} \/ JoinBlocked
=============================================================================
