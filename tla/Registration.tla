---------------------------- MODULE Registration ----------------------------
(***************************************************************************)
(* The registration state machine of one account: account.c, the REGISTER  *)
(* cases of event.c's bevent_handler() and what netmon.c does to accounts.  *)
(*                                                                         *)
(* Everything here runs on the re thread, so every handler is one step; the *)
(* interleaving is between timers, answers, probes, network changes and the *)
(* application's calls, each of which may come at any moment.  Each step of *)
(* the code that changes the account is an operator from account to account *)
(* and a handler is their composition, in the order of the calls it makes.  *)
(*                                                                         *)
(* baresip's user agent is outside the repository.  It is modelled from its *)
(* use: ua_register() emits REGISTERING at once and supersedes an earlier   *)
(* REGISTER; an answer comes later, or never; a registration refreshes and  *)
(* retries on its own, so answers may come unasked; after ua_unregister()   *)
(* none come.                                                              *)
(***************************************************************************)
EXTENDS Naturals

CONSTANTS
    Policies,           \* retry_max_attempts values in use; 0 is "for ever"
    AttemptBound,       \* bound on retry_attempt under such a policy
    Delays,             \* backoff delays, jitter included; never 0
    WatchTicks,         \* sip_timer_f_ms in watchdog ticks; 0 is "never"
    KeepAlive,          \* keepalive_interval # 0
    KeepaliveReregister,\* cfg.keepalive_reregister
    SrvTargets,         \* SRV records the domain publishes (<= VOX_SRV_MAX_TARGETS)
    Vanish,             \* TRUE: ua_register() may do nothing at all
    Unasked,            \* TRUE: baresip's own refreshes and retries are answered
    AppOps,             \* API calls the application makes
    NetChanges          \* TRUE: the network may change

AllOps == {"register", "unregister", "cancel_retry", "retry_now",
           "set_retry_policy", "set_push_token", "keepalive_now", "destroy"}

ASSUME RegistrationAssumption ==
    /\ AttemptBound \in Nat /\ Policies # {}
    /\ Policies \subseteq 0 .. AttemptBound - 1
    /\ Delays \subseteq Nat \ {0} /\ Delays # {}
    /\ WatchTicks \in Nat /\ SrvTargets \in Nat
    /\ KeepAlive \in BOOLEAN /\ KeepaliveReregister \in BOOLEAN
    /\ Vanish \in BOOLEAN /\ Unasked \in BOOLEAN /\ NetChanges \in BOOLEAN
    /\ AppOps \subseteq AllOps

VARIABLES
    acct,       \* struct voxsdk_account
    settling,   \* netmon's settle timer: a handover is pending
    announced,  \* g_nm.announced
    fired       \* history: retries sent since retry_attempt was last 0

vars == <<acct, settling, announced, fired>>
netVars == <<settling, announced>>

RegStates == {"UNREGISTERED", "REGISTERING", "REGISTERED", "FAILED",
              "UNREGISTERING", "RECONNECTING"}
RegErrors == {"OK", "AUTH", "SERVER_5XX", "TRANSPORT", "TIMEOUT"}
NoSig == [error |-> "none", attempt |-> 0, delay |-> 0]

\* A REG_STATE event as the application last saw it.
Told(state, attempt, delay) == [state |-> state, attempt |-> attempt, delay |-> delay]

\* A fresh account: create_fn() (mem_zalloc, ua_alloc).
NewAccount(policy) ==
    [reg_state |-> "UNREGISTERED", reg_error |-> "OK", reg_wanted |-> FALSE,
     reconnecting |-> FALSE, retry_attempt |-> 0, retry_delay_ms |-> 0,
     last_rc |-> NoSig, retry_tmr |-> FALSE, retry_max_attempts |-> policy,
     reg_watch_tmr |-> FALSE, reg_watch_elapsed |-> 0,
     ka_tmr |-> FALSE, ka_in_flight |-> FALSE, ka_failed |-> FALSE,
     srv_tried |-> FALSE, srv_pending |-> FALSE, srv_count |-> 0, srv_idx |-> 0,
     destroyed |-> FALSE, ua |-> "idle", told |-> Told("UNREGISTERED", 0, 0)]

Init ==
    /\ acct \in {NewAccount(p) : p \in Policies}
    /\ settling = FALSE /\ announced = FALSE
    /\ fired = 0

-----------------------------------------------------------------------------
(* Reporting.                                                              *)

\* vox_account_reconnect_reset()
ReconnectReset(a) == [a EXCEPT !.last_rc = NoSig, !.retry_delay_ms = 0]

Signature(a, error) ==
    [error |-> error, attempt |-> a.retry_attempt, delay |-> a.retry_delay_ms]

\* vox_account_reg_ev_prepare() and, when it says so, vox_event_post(): a
\* RECONNECTING event that repeats the last one is not posted; any other event
\* forgets the signature.
Emit(a, state, error) ==
    LET b == IF state = "RECONNECTING" THEN a ELSE ReconnectReset(a)
        told == Told(state, b.retry_attempt, b.retry_delay_ms)
    IN  IF state # "RECONNECTING" THEN [b EXCEPT !.told = told]
        ELSE IF b.last_rc = Signature(b, error) THEN b
        ELSE [b EXCEPT !.last_rc = Signature(b, error), !.told = told]

\* An event posted without vox_account_reg_ev_prepare().
EmitRaw(a, state) == [a EXCEPT !.told = Told(state, 0, 0)]

-----------------------------------------------------------------------------
(* The retry policy and the timers.                                        *)

RetryBudgetLeft(a) ==
    a.retry_max_attempts = 0 \/ a.retry_attempt < a.retry_max_attempts

\* vox_account_reg_fail_state(): RECONNECTING while the SDK will try again.
RegFailState(a, error) ==
    LET will_retry == /\ a.reg_wanted
                      /\ error # "AUTH"
                      /\ a.retry_tmr \/ RetryBudgetLeft(a)
    IN  [a EXCEPT !.reconnecting = will_retry,
                  !.reg_state = IF will_retry THEN "RECONNECTING" ELSE "FAILED"]

\* Mutant: no guard against a retry that is already armed.
ScheduleRetry_Twice(a, delay) ==
    IF ~RetryBudgetLeft(a)
    THEN IF a.reg_state = "RECONNECTING"
         THEN Emit([a EXCEPT !.reconnecting = FALSE, !.reg_state = "FAILED"],
                   "FAILED", a.reg_error)
         ELSE [a EXCEPT !.reconnecting = FALSE]
    ELSE Emit([a EXCEPT !.retry_attempt = @ + 1, !.retry_delay_ms = delay,
                        !.reconnecting = TRUE, !.reg_state = "RECONNECTING",
                        !.retry_tmr = TRUE], "RECONNECTING", a.reg_error)

\* Mutant: an exhausted budget is not reported.
ScheduleRetry_Quiet(a, delay) ==
    IF a.retry_tmr THEN a
    ELSE IF ~RetryBudgetLeft(a)
    THEN [a EXCEPT !.reconnecting = FALSE,
                   !.reg_state = IF @ = "RECONNECTING" THEN "FAILED" ELSE @]
    ELSE Emit([a EXCEPT !.retry_attempt = @ + 1, !.retry_delay_ms = delay,
                        !.reconnecting = TRUE, !.reg_state = "RECONNECTING",
                        !.retry_tmr = TRUE], "RECONNECTING", a.reg_error)

\* vox_account_schedule_retry(), with the delay it comes to.  (The code starts
\* the timer after the report, which does not look at it.)
ScheduleRetry(a, delay) ==
    IF a.retry_tmr THEN a
    ELSE IF ~RetryBudgetLeft(a)
    THEN IF a.reg_state = "RECONNECTING"
         THEN Emit([a EXCEPT !.reconnecting = FALSE, !.reg_state = "FAILED"],
                   "FAILED", a.reg_error)
         ELSE [a EXCEPT !.reconnecting = FALSE]
    ELSE Emit([a EXCEPT !.retry_attempt = @ + 1, !.retry_delay_ms = delay,
                        !.reconnecting = TRUE, !.reg_state = "RECONNECTING",
                        !.retry_tmr = TRUE], "RECONNECTING", a.reg_error)

KeepaliveArm(a) == IF a.reg_wanted /\ KeepAlive THEN [a EXCEPT !.ka_tmr = TRUE] ELSE a

WatchRegistration(a) ==
    [a EXCEPT !.reg_watch_tmr = TRUE, !.reg_watch_elapsed = 0]

\* Mutant: a REGISTER is reported as REGISTERING inside a recovery too.
OnRegistering_Flips(a) ==
    EmitRaw([a EXCEPT !.reg_state = "REGISTERING"], "REGISTERING")

\* BEVENT_REGISTERING: inside a recovery it is still the recovery.
OnRegistering(a) ==
    IF a.reconnecting
    THEN Emit([a EXCEPT !.reg_state = "RECONNECTING"], "RECONNECTING", a.reg_error)
    ELSE EmitRaw([a EXCEPT !.reg_state = "REGISTERING"], "REGISTERING")

\* ua_register(): the event is emitted at once.  "vanished" is the REGISTER
\* that leaves no trace, which reg_watch_handler() is there for.
UaRegister(a, vanished) ==
    IF vanished THEN a ELSE OnRegistering([a EXCEPT !.ua = "sent"])

Vanishing == IF Vanish THEN BOOLEAN ELSE {FALSE}

\* The body that four places share: report that the registration is back.
Recovered(a) == [a EXCEPT !.reg_state = "REGISTERED", !.retry_attempt = 0,
                          !.reconnecting = FALSE]

-----------------------------------------------------------------------------
(* Answers to a REGISTER (bevent_handler()).                               *)

\* BEVENT_REGISTER_OK / BEVENT_FALLBACK_OK
OnRegisterOk(a) ==
    Emit(KeepaliveArm([Recovered(a) EXCEPT !.ka_failed = FALSE, !.reg_error = "OK",
                                           !.ua = "ok"]),
         "REGISTERED", "OK")

\* BEVENT_REGISTER_FAIL / BEVENT_FALLBACK_FAIL: the state is decided first, the
\* retry is armed next, and the failure is reported last with the first answer.
OnRegisterFail(a, error, delay) ==
    LET b == [RegFailState(a, error) EXCEPT !.reg_error = error, !.ka_tmr = FALSE,
                                            !.ua = "fail"]
        c == IF error = "AUTH" THEN b ELSE ScheduleRetry(b, delay)
    IN  Emit(c, b.reg_state, error)

\* The history of retries: only retry_timer_handler() takes an armed retry
\* without zeroing retry_attempt.
CountFired ==
    fired' = IF acct'.retry_attempt = 0 THEN 0
             ELSE IF acct.retry_tmr /\ ~acct'.retry_tmr THEN fired + 1 ELSE fired

\* A REGISTER is out, or baresip refreshes or retries one by itself.
Answering == acct.ua = "sent" \/ (Unasked /\ acct.ua # "idle")

RegisterOk ==
    /\ Answering
    /\ acct' = OnRegisterOk(acct)
    /\ UNCHANGED netVars /\ CountFired

RegisterFail(error, delay) ==
    /\ Answering
    /\ acct' = OnRegisterFail(acct, error, delay)
    /\ UNCHANGED netVars /\ CountFired

\* The registration comes up and the event that says so goes missing.
RegisterOkUnreported ==
    /\ acct.ua = "sent"
    /\ acct' = [acct EXCEPT !.ua = "ok"]
    /\ UNCHANGED netVars /\ CountFired

-----------------------------------------------------------------------------
(* Timers.                                                                 *)

\* srv_advance(): the next SRV target, when there are several.
SrvAdvance(a) ==
    IF a.srv_count < 2 THEN a
    ELSE [a EXCEPT !.srv_idx = (@ + 1) % a.srv_count]

\* retry_timer_handler()
RetryTimer(vanished) ==
    /\ acct.retry_tmr
    /\ acct.retry_attempt < AttemptBound
    /\ acct' = WatchRegistration(
                   UaRegister(SrvAdvance([acct EXCEPT !.retry_tmr = FALSE]), vanished))
    /\ UNCHANGED netVars /\ CountFired

\* reg_watch_handler() finds baresip registered and the consumer not told.
WatchSynthesise(a) ==
    Emit(KeepaliveArm(Recovered(a)), "REGISTERED", "OK")

\* Mutant: the timeout is reported and no retry is armed.
WatchTimeout_NoRetry(a, delay) ==
    LET b == RegFailState([a EXCEPT !.reg_error = "TIMEOUT"], "TIMEOUT")
    IN  Emit(b, b.reg_state, "TIMEOUT")

\* reg_watch_handler() gives up on the REGISTER it was armed for.
WatchTimeout(a, delay) ==
    LET b == RegFailState([a EXCEPT !.reg_error = "TIMEOUT"], "TIMEOUT")
    IN  ScheduleRetry(Emit(b, b.reg_state, "TIMEOUT"), delay)

WatchOver(a) ==
    \/ ~a.reg_wanted
    \/ a.reg_state \in {"REGISTERED", "FAILED"}
    \/ a.retry_tmr

\* Mutant: the timeout is tested before the tick is counted.
RegWatch_OffByOne(delay) ==
    /\ acct.reg_watch_tmr
    /\ LET a == [acct EXCEPT !.reg_watch_tmr = FALSE]
           elapsed == IF WatchTicks = 0 THEN 0 ELSE a.reg_watch_elapsed + 1
       IN  acct' = IF WatchOver(a) THEN a
                   ELSE IF a.ua = "ok" THEN WatchSynthesise(a)
                   ELSE IF WatchTicks # 0 /\ elapsed > WatchTicks
                   THEN WatchTimeout([a EXCEPT !.reg_watch_elapsed = elapsed], delay)
                   ELSE [a EXCEPT !.reg_watch_elapsed = elapsed, !.reg_watch_tmr = TRUE]
    /\ UNCHANGED netVars /\ CountFired

\* reg_watch_handler()
RegWatch(delay) ==
    /\ acct.reg_watch_tmr
    /\ LET a == [acct EXCEPT !.reg_watch_tmr = FALSE]
           elapsed == IF WatchTicks = 0 THEN 0 ELSE a.reg_watch_elapsed + 1
       IN  acct' = IF WatchOver(a) THEN a
                   ELSE IF a.ua = "ok" THEN WatchSynthesise(a)
                   ELSE IF WatchTicks # 0 /\ elapsed >= WatchTicks
                   THEN WatchTimeout([a EXCEPT !.reg_watch_elapsed = elapsed], delay)
                   ELSE [a EXCEPT !.reg_watch_elapsed = elapsed, !.reg_watch_tmr = TRUE]
    /\ UNCHANGED netVars /\ CountFired

\* Mutant: a skipped round does not arm the next one.
KeepaliveHandler_NoRearm(a, busy) ==
    LET b == [a EXCEPT !.ka_tmr = FALSE]
    IN  IF ~b.reg_wanted \/ b.ka_in_flight \/ busy THEN b
        ELSE [b EXCEPT !.ka_in_flight = TRUE]

\* keepalive_handler(): skipped while a call is up; a probe that cannot be sent is
\* tried again at the next interval.  An account that has a UA has a host, for its AOR
\* names one, so the return for an empty host is not taken.
KeepaliveHandler(a, busy) ==
    LET b == [a EXCEPT !.ka_tmr = FALSE]
    IN  IF ~b.reg_wanted \/ b.ka_in_flight THEN b
        ELSE IF busy THEN KeepaliveArm(b)
        ELSE [b EXCEPT !.ka_in_flight = TRUE]

KeepaliveTimer(busy) ==
    /\ acct.ka_tmr
    /\ acct' = KeepaliveHandler(acct, busy)
    /\ UNCHANGED netVars /\ CountFired

\* keepalive_resp_handler(), an answer of any kind.
KeepaliveAnswered ==
    /\ acct.ka_in_flight
    /\ LET a == [acct EXCEPT !.ka_in_flight = FALSE, !.ka_failed = FALSE]
       IN  acct' = KeepaliveArm(
                IF acct.ka_failed /\ a.reg_state = "RECONNECTING" /\ a.ua = "ok"
                THEN Emit([Recovered(a) EXCEPT !.reg_error = "OK"], "REGISTERED", "OK")
                ELSE a)
    /\ UNCHANGED netVars /\ CountFired

\* keepalive_resp_handler(), no answer.
KeepaliveLost(delay) ==
    /\ acct.ka_in_flight
    /\ LET a == [acct EXCEPT !.ka_in_flight = FALSE, !.ka_failed = TRUE,
                             !.reg_error = "TIMEOUT"]
           rereg == KeepaliveReregister /\ a.reg_wanted
           b == IF rereg THEN RegFailState(a, "TIMEOUT")
                ELSE [a EXCEPT !.reconnecting = a.reg_wanted,
                               !.reg_state = IF a.reg_wanted THEN "RECONNECTING"
                                                             ELSE "FAILED"]
           c == Emit(b, b.reg_state, "TIMEOUT")
       IN  acct' = IF rereg THEN ScheduleRetry(c, delay) ELSE KeepaliveArm(c)
    /\ UNCHANGED netVars /\ CountFired

\* srv_done_handler(): the lookup's answer, or its failure.
SrvDone(n) ==
    /\ acct.srv_pending
    /\ acct' = [acct EXCEPT !.srv_pending = FALSE, !.srv_count = n]
    /\ UNCHANGED netVars /\ CountFired

-----------------------------------------------------------------------------
(* The application.                                                        *)

\* The application has a handle and calls the function.
Invoked(op) == op \in AppOps /\ ~acct.destroyed

\* vox_account_srv_resolve() of an eligible account.
SrvResolve(a) ==
    IF SrvTargets = 0 \/ a.srv_tried THEN a
    ELSE [a EXCEPT !.srv_tried = TRUE, !.srv_pending = TRUE]

\* Mutant: the REGISTER is not watched.
Register_Unwatched(vanished) ==
    /\ Invoked("register")
    /\ acct' = UaRegister(SrvResolve(
                   [acct EXCEPT !.reg_wanted = TRUE, !.reconnecting = FALSE]), vanished)
    /\ UNCHANGED netVars /\ CountFired

\* register_fn()
Register(vanished) ==
    /\ Invoked("register")
    /\ acct' = WatchRegistration(UaRegister(SrvResolve(
                   [acct EXCEPT !.reg_wanted = TRUE, !.reconnecting = FALSE]), vanished))
    /\ UNCHANGED netVars /\ CountFired

\* unregister_fn() and the UNREGISTERING event ua_unregister() emits.
Unregister ==
    /\ Invoked("unregister")
    /\ acct' = Emit([acct EXCEPT !.reg_wanted = FALSE, !.reconnecting = FALSE,
                                 !.ka_failed = FALSE, !.reg_state = "UNREGISTERING",
                                 !.reg_watch_tmr = FALSE, !.ka_tmr = FALSE,
                                 !.ua = "idle"],
                    "UNREGISTERING", "OK")
    /\ UNCHANGED netVars /\ CountFired

CancelRetry ==
    /\ Invoked("cancel_retry")
    /\ LET a == [acct EXCEPT !.retry_tmr = FALSE, !.reg_watch_tmr = FALSE,
                             !.retry_attempt = 0]
       IN  acct' = IF a.reg_state # "RECONNECTING" THEN a
                   ELSE EmitRaw([a EXCEPT !.reconnecting = FALSE,
                                          !.reg_state = "FAILED"], "FAILED")
    /\ UNCHANGED netVars /\ CountFired

RetryNow(vanished) ==
    /\ Invoked("retry_now")
    /\ acct' = WatchRegistration(UaRegister(
                   [acct EXCEPT !.retry_tmr = FALSE, !.retry_attempt = 0,
                                !.reg_wanted = TRUE], vanished))
    /\ UNCHANGED netVars /\ CountFired

SetRetryPolicy(policy) ==
    /\ Invoked("set_retry_policy")
    /\ acct' = [acct EXCEPT !.retry_max_attempts = policy]
    /\ UNCHANGED netVars /\ CountFired

\* set_push_token_fn(): re-REGISTER unless a transaction or a retry is pending.
SetPushToken(vanished) ==
    /\ Invoked("set_push_token")
    /\ acct.reg_state \notin {"REGISTERING", "UNREGISTERING", "RECONNECTING"}
    /\ ~acct.retry_tmr
    /\ acct' = UaRegister(acct, vanished)
    /\ UNCHANGED netVars /\ CountFired

KeepaliveNow(busy) ==
    /\ Invoked("keepalive_now")
    /\ acct.reg_wanted
    /\ acct' = KeepaliveHandler(acct, busy)
    /\ UNCHANGED netVars /\ CountFired

\* destroy_fn() and account_destructor(); the application may then create the
\* account again.
Destroy ==
    /\ Invoked("destroy")
    /\ acct' = [NewAccount(acct.retry_max_attempts) EXCEPT !.destroyed = TRUE]
    /\ UNCHANGED netVars /\ CountFired

Create(policy) ==
    /\ acct.destroyed
    /\ acct' = NewAccount(policy)
    /\ UNCHANGED netVars /\ CountFired

-----------------------------------------------------------------------------
(* netmon.c, as one account sees it.                                       *)

\* vox_account_reg_reconnecting()
RegReconnecting(a) ==
    IF a.reg_wanted /\ a.reg_state \in {"REGISTERED", "REGISTERING"}
    THEN Emit([a EXCEPT !.reconnecting = TRUE, !.reg_state = "RECONNECTING",
                        !.ka_tmr = FALSE], "RECONNECTING", "OK")
    ELSE a

\* netmon_trigger(): a change is detected; the settle timer starts.
NetTrigger ==
    /\ NetChanges
    /\ acct' = IF announced THEN acct ELSE RegReconnecting(acct)
    /\ announced' = TRUE
    /\ settling' = TRUE
    /\ CountFired

\* The accounts are marked once more when apply_handover() finds the link down.
Marked == {acct, RegReconnecting(acct)}

\* apply_handover() finds no address (or its reset fails) and tries again.
NetWait ==
    /\ settling
    /\ acct' \in Marked
    /\ UNCHANGED netVars /\ CountFired

\* apply_handover() re-binds the transports: reregister_accounts().
Reregister(a, vanished) ==
    IF ~a.reg_wanted \/ (a.reg_state = "FAILED" /\ a.reg_error = "AUTH") THEN a
    ELSE WatchRegistration(UaRegister(
             [a EXCEPT !.retry_tmr = FALSE, !.retry_attempt = 0,
                       !.reconnecting = TRUE], vanished))

NetHandover(vanished) ==
    /\ settling
    /\ \E a \in Marked : acct' = Reregister(a, vanished)
    /\ settling' = FALSE /\ announced' = FALSE
    /\ CountFired

\* Mutant: the accounts are not handed to the retry policy.
NetGiveUp_Drops(delay) ==
    /\ settling
    /\ acct' \in Marked
    /\ settling' = FALSE /\ announced' = FALSE
    /\ CountFired

\* apply_handover() is out of attempts: handover_accounts_to_retry().
NetGiveUp(delay) ==
    /\ settling
    /\ \E a \in Marked :
        acct' = IF a.reg_wanted /\ a.reg_state = "RECONNECTING"
                THEN ScheduleRetry(a, delay) ELSE a
    /\ settling' = FALSE /\ announced' = FALSE
    /\ CountFired

-----------------------------------------------------------------------------
Timers ==
    \/ \E v \in Vanishing : RetryTimer(v)
    \/ \E d \in Delays : RegWatch(d)
    \/ \E busy \in BOOLEAN : KeepaliveTimer(busy)

Answers ==
    \/ RegisterOk
    \/ \E e \in {"AUTH", "SERVER_5XX", "TRANSPORT"}, d \in Delays : RegisterFail(e, d)
    \/ RegisterOkUnreported
    \/ KeepaliveAnswered
    \/ \E d \in Delays : KeepaliveLost(d)
    \/ \E n \in 0 .. SrvTargets : SrvDone(n)

Application ==
    \/ \E v \in Vanishing : Register(v) \/ RetryNow(v) \/ SetPushToken(v)
    \/ Unregister \/ CancelRetry \/ Destroy
    \/ \E p \in Policies : SetRetryPolicy(p)
    \/ \E busy \in BOOLEAN : KeepaliveNow(busy)

Netmon ==
    \/ NetTrigger \/ NetWait
    \/ \E v \in Vanishing : NetHandover(v)
    \/ \E d \in Delays : NetGiveUp(d)

Next ==
    \/ Timers \/ Answers \/ Application \/ Netmon
    \/ \E p \in Policies : Create(p)

Spec == Init /\ [][Next]_vars

\* Timers fire: libre's main loop runs every timer that is due.  Nothing obliges
\* a registrar or a proxy to answer, or an application to call.
Fairness ==
    /\ WF_vars(\E v \in Vanishing : RetryTimer(v))
    /\ WF_vars(\E d \in Delays : RegWatch(d))

FairSpec == Spec /\ Fairness

-----------------------------------------------------------------------------
(* Properties.                                                             *)

Attempts == 0 .. AttemptBound
DelayOrNone == Delays \cup {0}

AcctType ==
    [reg_state : RegStates, reg_error : RegErrors, reg_wanted : BOOLEAN,
     reconnecting : BOOLEAN, retry_attempt : Attempts, retry_delay_ms : DelayOrNone,
     last_rc : [error : RegErrors \cup {"none"}, attempt : Attempts, delay : DelayOrNone],
     retry_tmr : BOOLEAN, retry_max_attempts : Policies,
     reg_watch_tmr : BOOLEAN, reg_watch_elapsed : 0 .. WatchTicks,
     ka_tmr : BOOLEAN, ka_in_flight : BOOLEAN, ka_failed : BOOLEAN,
     srv_tried : BOOLEAN, srv_pending : BOOLEAN,
     srv_count : 0 .. SrvTargets, srv_idx : 0 .. SrvTargets,
     destroyed : BOOLEAN, ua : {"idle", "sent", "ok", "fail"},
     told : [state : RegStates, attempt : Attempts, delay : DelayOrNone]]

\* Every variable has its type; the watchdog never runs past its timeout.
TypeOK ==
    /\ acct \in AcctType
    /\ settling \in BOOLEAN /\ announced \in BOOLEAN
    /\ fired \in Attempts

\* Someone is working on the registration: a retry is armed, the watchdog polls
\* a REGISTER, a handover is pending, or a probe will report.
Driven ==
    \/ acct.retry_tmr \/ acct.reg_watch_tmr \/ settling
    \/ acct.ka_tmr \/ acct.ka_in_flight

\* An application left on "Reconnecting" is never left there with nothing to
\* reconnect it (account.c, vox_account_schedule_retry()).
PromiseKept ==
    acct.told.state = "RECONNECTING" /\ acct.reg_wanted => Driven

\* Every REGISTER of a wanted account is watched or has a retry behind it: it
\* cannot stay unanswered for ever (account.c: "After every ua_register()").
InFlightWatched ==
    acct.reg_wanted /\ acct.reg_state = "REGISTERING"
        => acct.reg_watch_tmr \/ acct.retry_tmr

\* A terminal state the account is in is a state the application was told.
TerminalTold ==
    acct.reg_state \in {"REGISTERED", "FAILED"} => acct.told.state = acct.reg_state

\* retry_attempt is the number of retries sent in this outage and the one that
\* is armed: a failure that is reported two or three times (watchdog, answer,
\* probe) costs one attempt (schedule_retry()).
AttemptsSent ==
    IF acct.retry_attempt = 0 THEN fired = 0
    ELSE acct.retry_attempt = fired + (IF acct.retry_tmr THEN 1 ELSE 0)

\* A registration the application wants and believes up is being probed.
ProbeAlive ==
    acct.reg_wanted /\ acct.reg_state = "REGISTERED" /\ KeepAlive
        => acct.ka_tmr \/ acct.ka_in_flight

\* Inside a recovery only an application's own register() is reported as
\* REGISTERING (docs/api/events.md: "it does not flip back to REGISTERING").
NoFlicker ==
    [][acct.told.state = "RECONNECTING" /\ acct'.told.state = "REGISTERING"
        => \E v \in BOOLEAN : Register(v)]_vars

\* After unregister() the SDK is not recovering the registration any more
\* (voxsdk_internal.h: "Cleared ... on unregister").
UnregisterEnds ==
    ~acct.reg_wanted => ~acct.reconnecting /\ acct.reg_state # "RECONNECTING"

\* Unless the application keeps asking, a registration in progress or in
\* recovery ends at REGISTERED or FAILED, whatever the registrar does.
Resolves ==
    (<>[][~ \E v \in BOOLEAN : Register(v)]_vars)
        => (acct.reg_state \in {"REGISTERING", "RECONNECTING"}
                ~> acct.reg_state \in {"REGISTERED", "FAILED"})
=============================================================================
