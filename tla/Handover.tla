------------------------------ MODULE Handover ------------------------------
(***************************************************************************)
(* netmon.c: noticing a network change, re-binding the transports, and     *)
(* moving every call to the new address.                                   *)
(*                                                                         *)
(* Everything runs on the re thread, so a handler is one step.  Three      *)
(* timers interleave (poll, settle, verify) with the kernel's addresses,   *)
(* the application's calls and what happens to each call.  Timers fire at  *)
(* any moment once armed, so backoffs (wait_ticks) do not appear; the one  *)
(* delay a handler looks at, net_mig_due, is a flag that time clears.      *)
(*                                                                         *)
(* What a handler asks of baresip and of the kernel (is the dialog         *)
(* refreshable, which source address reaches the peer, did the re-INVITE   *)
(* go out, did packets arrive) is answered nondeterministically: each step *)
(* of a migration is an operator from a call to the set of calls it may    *)
(* become.                                                                 *)
(***************************************************************************)
EXTENDS Naturals, FiniteSets

CONSTANTS
    Calls,          \* slots for voxsdk_call wrappers
    Addrs,          \* addresses an interface may carry
    LinkLocal,      \* the link-local ones
    NoAddr,         \* an unset struct sa
    WsCalls,        \* calls that signal over WebSocket
    IceCalls,       \* calls with a live ICE media-NAT
    MaxAttempts,    \* cfg.net_max_attempts
    StallAttempts,  \* VOX_NET_STALL_ATTEMPTS
    StallRounds,    \* VOX_NET_STALL_ROUNDS
    MaxCand,        \* VOX_NET_MAX_CAND
    VerifyMedia,    \* cfg.net_verify_ms # 0
    FailFast,       \* cfg.net_ice_handover is FAIL_FAST
    Interval,       \* cfg.net_monitor_interval_s, 0 for no polling
    Intervals,      \* what the application may set instead
    SettleMs,       \* cfg.net_settle_ms
    AppOps,         \* API calls the application makes
    MaxChanges      \* bound: address changes and voxsdk_network_changed() calls

AllOps == {"network_changed", "set_monitor", "set_policy", "shutdown"}

ASSUME HandoverAssumption ==
    /\ LinkLocal \subseteq Addrs /\ NoAddr \notin Addrs
    /\ WsCalls \subseteq Calls /\ IceCalls \subseteq Calls
    /\ MaxAttempts \in Nat \ {0} /\ StallAttempts \in Nat \ {0}
    /\ StallRounds \in Nat /\ MaxCand \in Nat /\ MaxChanges \in Nat
    /\ VerifyMedia \in BOOLEAN /\ FailFast \in BOOLEAN
    /\ Interval \in Nat /\ Intervals \subseteq Nat /\ SettleMs \in Nat
    /\ AppOps \subseteq AllOps

VARIABLES
    os,         \* addresses the kernel has
    known,      \* addresses baresip's list has
    g_nm,       \* struct vox_netmon
    call,       \* the net_* fields of every struct voxsdk_call
    owed,       \* accounts were moved to RECONNECTING and nobody else drives them
    changes,    \* bound: changes so far
    movedGen    \* history: the last generation whose calls were migrated

vars == <<os, known, g_nm, call, owed, changes, movedGen>>

MigStates == {"IDLE", "STALLED", "WAIT_ADDR", "DEFERRED", "SENT", "DONE", "FAILED"}
Pending == {"STALLED", "WAIT_ADDR", "DEFERRED", "SENT"}
Stages == {"none", "DEFERRED", "MIGRATING", "ACCEPTED", "MIGRATED", "FAILED"}

Call == [up : BOOLEAN, state : MigStates, gen : Nat, tries : 0 .. MaxAttempts,
         due : BOOLEAN, path_moved : BOOLEAN, ice_restarted : BOOLEAN,
         stall : BOOLEAN, cooling : BOOLEAN, rounds : 0 .. StallRounds,
         laddr : Addrs \cup {NoAddr}, tried : SUBSET Addrs,
         sdp_laddr : Addrs \cup {NoAddr},   \* call_laddr(): the session address
         gathering : BOOLEAN,               \* an ICE restart has not offered yet
         told : Stages,                     \* the last CALL_* stage reported
         repairs : Nat]                     \* history: offers of stall repairs

NoCall == [up |-> FALSE, state |-> "IDLE", gen |-> 0, tries |-> 0,
           due |-> FALSE, path_moved |-> FALSE, ice_restarted |-> FALSE,
           stall |-> FALSE, cooling |-> FALSE, rounds |-> 0,
           laddr |-> NoAddr, tried |-> {}, sdp_laddr |-> NoAddr,
           gathering |-> FALSE, told |-> "none", repairs |-> 0]

Netmon == [started : BOOLEAN, reset_pending : BOOLEAN, force : BOOLEAN,
           announced : BOOLEAN, down : BOOLEAN, gen : Nat,
           attempt : 0 .. MaxAttempts - 1, poll_s : Nat, tmr_poll : BOOLEAN,
           tmr_settle : BOOLEAN, tmr_verify : BOOLEAN,
           reinvite_calls : BOOLEAN, hangup_on_fail : BOOLEAN]

Routable(addrs) == addrs \ LinkLocal # {}

\* vox_netmon_init() with migration on.
FreshNetmon ==
    [started |-> TRUE, reset_pending |-> FALSE, force |-> FALSE,
     announced |-> FALSE, down |-> ~Routable(os), gen |-> 0, attempt |-> 0,
     poll_s |-> Interval, tmr_poll |-> Interval # 0, tmr_settle |-> FALSE,
     tmr_verify |-> FALSE, reinvite_calls |-> TRUE, hangup_on_fail |-> FALSE]

Init ==
    /\ os \in SUBSET Addrs /\ known = os
    /\ g_nm = FreshNetmon
    /\ call = [c \in Calls |-> NoCall]
    /\ owed = FALSE /\ changes = 0 /\ movedGen = 0

\* The calls still owed a verdict in generation gen (migration_pending()).
Awaited(calls, gen) == {c \in Calls : calls[c].gen = gen /\ calls[c].state \in Pending}

(***************************************************************************)
(* One call's migration                                                    *)
(***************************************************************************)
Least(m, n) == IF m < n THEN m ELSE n

\* How often the re-INVITE itself may be sent.
MaxAttemptsFor_OffByOne(c, r) ==
    IF r.stall THEN Least(MaxAttempts, StallAttempts)
    ELSE IF FailFast /\ c \in IceCalls /\ ~r.ice_restarted THEN 1
    ELSE MaxAttempts + 1

MaxAttemptsFor_NoStall(c, r) ==
    IF FailFast /\ c \in IceCalls /\ ~r.ice_restarted THEN 1 ELSE MaxAttempts

MaxAttemptsFor(c, r) ==
    IF r.stall THEN Least(MaxAttempts, StallAttempts)
    ELSE IF FailFast /\ c \in IceCalls /\ ~r.ice_restarted THEN 1
    ELSE MaxAttempts

\* laddr_remember()
Remember(r) ==
    IF r.laddr = NoAddr \/ Cardinality(r.tried) >= MaxCand THEN r
    ELSE [r EXCEPT !.tried = @ \cup {r.laddr}]

\* rotate_laddr(): has the address in hand had its chances?
Rotate(r) == r.tries >= (IF r.stall THEN 1 ELSE 2)

\* next_laddr(): an untried address; when there is none, the record is cleared
\* and the rotation starts again.
NextLaddr(r) ==
    LET cand  == known \ LinkLocal
        again == [r EXCEPT !.tried = {}]
    IN  IF cand \ r.tried # {} THEN {[r EXCEPT !.laddr = a] : a \in cand \ r.tried}
        ELSE IF cand # {} THEN {[again EXCEPT !.laddr = a] : a \in cand}
        ELSE {again}

\* fail_migration(); a hang-up runs CALL_CLOSED, which takes the wrapper away.
Fail(r) ==
    IF g_nm.hangup_on_fail THEN NoCall
    ELSE [r EXCEPT !.state = "FAILED", !.told = "FAILED"]

Done(r) == [r EXCEPT !.state = "DONE", !.told = "MIGRATED"]

\* An offer is on the wire, or will be when the gathering ends.
Sent(r) ==
    [r EXCEPT !.state = "SENT", !.due = TRUE, !.told = "MIGRATING",
              !.repairs = IF r.stall THEN @ + 1 ELSE @]

\* call_reset_transp() rewrites the session address and sends the re-INVITE.
PlainOffer(c, r) ==
    LET o == [r EXCEPT !.sdp_laddr = r.laddr]
    IN  {IF o.tries >= MaxAttemptsFor(c, o) THEN Fail(o)
         ELSE [o EXCEPT !.state = "DEFERRED"],
         IF VerifyMedia THEN Sent(o) ELSE Done(Sent(o))}

\* vox_ice_restart() on a call with ICE: EALREADY while an earlier restart is
\* gathering (its offer keeps the earlier address), success, or a failure that
\* leaves the plain offer.
IceOffer(c, r) ==
    LET i == [r EXCEPT !.ice_restarted = TRUE]
    IN  IF r.gathering THEN {Sent(i)}
        ELSE {Sent([i EXCEPT !.sdp_laddr = r.laddr, !.gathering = TRUE])}
                 \cup PlainOffer(c, r)

Offer_Uncounted(c, r) ==
    IF r.path_moved /\ c \in IceCalls THEN IceOffer(c, Remember(r))
    ELSE PlainOffer(c, Remember(r))

\* send_migration() on a dialog that may be refreshed.
Offer(c, r) ==
    LET t == Remember([r EXCEPT !.tries = @ + 1])
    IN  IF r.path_moved /\ c \in IceCalls THEN IceOffer(c, t) ELSE PlainOffer(c, t)

Defer(r) == IF r.state = "DEFERRED" THEN r
            ELSE [r EXCEPT !.state = "DEFERRED", !.told = "DEFERRED"]

\* send_migration()
Send(c, r) == {Defer(r)} \cup Offer(c, r)

\* retry_migration()
Retry(c, r) ==
    LET q == Remember(r)
    IN  IF Rotate(q) /\ q.laddr # NoAddr
        THEN UNION {Send(c, n) : n \in NextLaddr(q)}
        ELSE Send(c, q)

\* wait_for_addr()
WaitForAddr(r) == IF r.state = "WAIT_ADDR" THEN r
                  ELSE [r EXCEPT !.state = "WAIT_ADDR", !.told = "DEFERRED"]

Stamp_Unclaimed(r, gen) ==
    IF r.gen = gen THEN r
    ELSE [r EXCEPT !.tries = 0, !.due = FALSE, !.ice_restarted = FALSE,
                   !.path_moved = FALSE, !.stall = FALSE, !.tried = {},
                   !.laddr = NoAddr]

\* start_migration() claims the call for the generation before anything else.
Stamp(r, gen) ==
    IF r.gen = gen THEN r
    ELSE [r EXCEPT !.gen = gen, !.tries = 0, !.due = FALSE, !.ice_restarted = FALSE,
                   !.path_moved = FALSE, !.stall = FALSE, !.tried = {},
                   !.laddr = NoAddr]

\* The source address the routing table names, or another when that one has
\* been offered enough.
Sources(r) ==
    UNION {LET x == [r EXCEPT !.laddr = a]
           IN  IF Rotate(r) /\ a \in r.tried THEN NextLaddr(x) ELSE {x} : a \in os}

\* start_migration()
Start(c, r0, gen) ==
    LET r == Stamp(r0, gen)
        Decide(n) ==
            IF n.laddr = n.sdp_laddr /\ c \notin WsCalls /\ ~n.stall
            THEN {[n EXCEPT !.state = "IDLE", !.laddr = r.laddr]}
            ELSE Send(c, [n EXCEPT !.path_moved = @ \/ n.stall \/ n.laddr # n.sdp_laddr])
    IN  {WaitForAddr(r)} \cup UNION {Decide(n) : n \in Sources(r)}

\* The verify tick's case for one call.
Verify(c, r) ==
    LET t == [r EXCEPT !.tries = @ + 1]
    IN  CASE r.gen # g_nm.gen -> {r}
          [] r.gen = g_nm.gen /\ r.state = "STALLED" -> Start(c, r, g_nm.gen)
          [] r.gen = g_nm.gen /\ r.state = "WAIT_ADDR" ->
                IF t.tries >= MaxAttempts THEN {Fail(t)} ELSE Start(c, t, g_nm.gen)
          [] r.gen = g_nm.gen /\ r.state = "DEFERRED" ->
                {IF t.tries >= MaxAttempts THEN Fail(t) ELSE t} \cup Offer(c, r)
          [] r.gen = g_nm.gen /\ r.state = "SENT" ->
                IF r.due THEN {r}
                ELSE IF ~VerifyMedia THEN {Done(r)}
                ELSE {Done(r)} \cup
                     (IF r.tries >= MaxAttemptsFor(c, r) THEN {Fail(r)} ELSE Retry(c, r))
          [] OTHER -> {r}

\* One outcome for every call.
Outcomes(S(_)) ==
    {f \in [Calls -> UNION {S(c) : c \in Calls}] : \A c \in Calls : f[c] \in S(c)}

(***************************************************************************)
(* The handover                                                            *)
(***************************************************************************)
\* netmon_trigger(): scan_addresses() brings baresip's list up to date; the
\* first notice of a change moves the accounts to RECONNECTING.
Triggered(forced) ==
    LET pending == g_nm.reset_pending \/ os # known
        force   == g_nm.force \/ forced
    IN  [g_nm EXCEPT !.reset_pending = pending, !.force = force,
                     !.announced = @ \/ pending \/ force,
                     !.tmr_settle = @ \/ pending \/ force]

MarkAccounts == owed' = (owed \/ (g_nm'.announced /\ ~g_nm.announced))

PollHandler_OneShot ==
    /\ g_nm.started /\ g_nm.tmr_poll
    /\ g_nm' = [Triggered(FALSE) EXCEPT !.tmr_poll = FALSE]
    /\ known' = os /\ MarkAccounts
    /\ UNCHANGED <<os, call, changes, movedGen>>

PollHandler ==
    /\ g_nm.started /\ g_nm.tmr_poll
    /\ g_nm' = [Triggered(FALSE) EXCEPT !.tmr_poll = g_nm.poll_s # 0]
    /\ known' = os /\ MarkAccounts
    /\ UNCHANGED <<os, call, changes, movedGen>>

\* voxsdk_network_changed()
NetworkChanged ==
    /\ "network_changed" \in AppOps /\ g_nm.started /\ changes < MaxChanges
    /\ changes' = changes + 1
    /\ g_nm' = Triggered(TRUE)
    /\ known' = os /\ MarkAccounts
    /\ UNCHANGED <<os, call, movedGen>>

\* settle_handler(): the addresses are still moving.
SettleMoving ==
    /\ g_nm.started /\ g_nm.tmr_settle /\ os # known
    /\ known' = os
    /\ g_nm' = [g_nm EXCEPT !.reset_pending = TRUE]
    /\ UNCHANGED <<os, call, owed, changes, movedGen>>

Settled_ScanOnly ==
    /\ g_nm.started /\ g_nm.tmr_settle /\ os = known
    /\ g_nm.reset_pending

\* settle_handler() goes on to apply_handover().  That neither flag is set is
\* excluded by HandoverDriven below.
Settled ==
    /\ g_nm.started /\ g_nm.tmr_settle /\ os = known
    /\ g_nm.reset_pending \/ g_nm.force

\* apply_handover() with no address at all: hold, and look again.
ApplyDown ==
    /\ Settled /\ os = {}
    /\ g_nm' = [g_nm EXCEPT !.down = TRUE]
    /\ owed' = (owed \/ ~g_nm.down)
    /\ UNCHANGED <<os, known, call, changes, movedGen>>

\* fail_pending_migrations() for one call
FailPending(r) ==
    IF ~r.up \/ r.state \in {"DONE", "FAILED"} THEN r ELSE Fail(r)

\* What the application is told of the link: link-local addresses bind sockets,
\* and do not make the network up.
Usable_AnyAddress(g) == [g EXCEPT !.down = os = {}]
Usable(g) == [g EXCEPT !.down = ~Routable(os)]

\* Out of attempts: the next round starts afresh.
GiveUp_StaysAnnounced(g) == [g EXCEPT !.attempt = 0, !.tmr_settle = FALSE]
GiveUp(g) == [g EXCEPT !.attempt = 0, !.announced = FALSE, !.tmr_settle = FALSE]

ApplyFailed_KeepsAccounts ==
    /\ Settled /\ os # {}
    /\ LET g == Usable(g_nm)
           again == g.attempt + 1 < MaxAttempts
       IN  /\ g_nm' = IF again THEN [g EXCEPT !.attempt = @ + 1] ELSE GiveUp(g)
           /\ owed' = (owed \/ (g.down /\ ~g_nm.down))
           /\ call' = IF again THEN call ELSE [c \in Calls |-> FailPending(call[c])]
    /\ UNCHANGED <<os, known, changes, movedGen>>

\* uag_reset_transp() failed: try again after a backoff, or give up, hand the
\* accounts to their retry policy and fail the calls.
ApplyFailed ==
    /\ Settled /\ os # {}
    /\ LET g == Usable(g_nm)
           again == g.attempt + 1 < MaxAttempts
       IN  /\ g_nm' = IF again THEN [g EXCEPT !.attempt = @ + 1] ELSE GiveUp(g)
           /\ owed' = (again /\ (owed \/ (g.down /\ ~g_nm.down)))
           /\ call' = IF again THEN call ELSE [c \in Calls |-> FailPending(call[c])]
    /\ UNCHANGED <<os, known, changes, movedGen>>

\* migrate_calls() for one call
Migrate(c) == IF call[c].up THEN Start(c, call[c], g_nm.gen + 1) ELSE {call[c]}

\* The transports are re-bound: re-register the accounts, migrate the calls.
ApplyDone ==
    /\ Settled /\ os # {}
    /\ LET gen == g_nm.gen + 1
       IN  /\ IF g_nm.reinvite_calls
              THEN call' \in Outcomes(Migrate) /\ movedGen' = gen
              ELSE UNCHANGED <<call, movedGen>>
           /\ g_nm' = [Usable(g_nm) EXCEPT
                          !.attempt = 0, !.reset_pending = FALSE, !.force = FALSE,
                          !.announced = FALSE, !.tmr_settle = FALSE, !.gen = gen,
                          !.tmr_verify = @ \/ (/\ g_nm.reinvite_calls
                                               /\ Awaited(call', gen) # {})]
    /\ owed' = FALSE
    /\ UNCHANGED <<os, known, changes>>

VerifyHandler_OneShot ==
    /\ g_nm.started /\ g_nm.tmr_verify
    /\ call' \in Outcomes(LAMBDA c : Verify(c, call[c]))
    /\ g_nm' = [g_nm EXCEPT !.tmr_verify = FALSE]
    /\ UNCHANGED <<os, known, owed, changes, movedGen>>

\* verify_handler()
VerifyHandler ==
    /\ g_nm.started /\ g_nm.tmr_verify
    /\ call' \in Outcomes(LAMBDA c : Verify(c, call[c]))
    /\ g_nm' = [g_nm EXCEPT !.tmr_verify = Awaited(call', g_nm.gen) # {}]
    /\ UNCHANGED <<os, known, owed, changes, movedGen>>

(***************************************************************************)
(* What happens to a call                                                  *)
(***************************************************************************)
CallNew(c) ==
    /\ g_nm.started /\ ~call[c].up
    /\ \E a \in known : call' = [call EXCEPT ![c] = [NoCall EXCEPT !.up = TRUE, !.sdp_laddr = a]]
    /\ UNCHANGED <<os, known, g_nm, owed, changes, movedGen>>

CallClosed(c) ==
    /\ call[c].up
    /\ call' = [call EXCEPT ![c] = NoCall]
    /\ UNCHANGED <<os, known, g_nm, owed, changes, movedGen>>

\* A call claimed for a repair round of its own.
Claimed(r) ==
    [r EXCEPT !.cooling = TRUE, !.rounds = @ + 1, !.gen = g_nm.gen, !.tries = 0,
              !.due = FALSE, !.ice_restarted = FALSE, !.path_moved = FALSE,
              !.tried = {}, !.stall = TRUE, !.state = "STALLED", !.laddr = NoAddr]

\* vox_netmon_call_stalled() of a call that is not on hold; adapt.c reports no
\* stall while a migration is pending.
CallStalled(c) ==
    /\ g_nm.started /\ call[c].up /\ call[c].state \notin Pending
    /\ ~call[c].cooling /\ call[c].rounds < StallRounds
    /\ call' = [call EXCEPT ![c] = Claimed(call[c])]
    /\ g_nm' = [g_nm EXCEPT !.tmr_verify = TRUE]
    /\ UNCHANGED <<os, known, owed, changes, movedGen>>

\* vox_netmon_call_refreshable(): the dialog was established or resumed.
CallRefreshable(c) ==
    /\ g_nm.started /\ call[c].state = "DEFERRED" /\ call[c].gen = g_nm.gen
    /\ g_nm' = [g_nm EXCEPT !.tmr_verify = TRUE]
    /\ UNCHANGED <<os, known, call, owed, changes, movedGen>>

\* vox_netmon_call_sdp_answer()
CallSdpAnswer(c) ==
    /\ g_nm.started /\ call[c].state = "SENT" /\ call[c].gen = g_nm.gen
    /\ call' = [call EXCEPT ![c].told = "ACCEPTED"]
    /\ UNCHANGED <<os, known, g_nm, owed, changes, movedGen>>

\* ice_estab() or gather_deadline(): the restart's offer goes out.
GatherDone(c) ==
    /\ call[c].gathering
    /\ call' = [call EXCEPT ![c].gathering = FALSE]
    /\ UNCHANGED <<os, known, g_nm, owed, changes, movedGen>>

\* Time: an offer may be judged (a restart's after its gathering deadline), a
\* stalled call may be repaired again.
OfferDue(c) ==
    /\ call[c].state = "SENT" /\ call[c].due /\ ~call[c].gathering
    /\ call' = [call EXCEPT ![c].due = FALSE]
    /\ UNCHANGED <<os, known, g_nm, owed, changes, movedGen>>

CooldownOver(c) ==
    /\ call[c].cooling
    /\ call' = [call EXCEPT ![c].cooling = FALSE]
    /\ UNCHANGED <<os, known, g_nm, owed, changes, movedGen>>

(***************************************************************************)
(* Kernel, configuration, lifecycle                                        *)
(***************************************************************************)
OsChange ==
    /\ changes < MaxChanges /\ changes' = changes + 1
    /\ os' \in (SUBSET Addrs) \ {os}
    /\ UNCHANGED <<known, g_nm, call, owed, movedGen>>

\* set_monitor_fn()
SetMonitor ==
    /\ "set_monitor" \in AppOps /\ g_nm.started
    /\ \E s \in Intervals : g_nm' = [g_nm EXCEPT !.poll_s = s, !.tmr_poll = s # 0]
    /\ UNCHANGED <<os, known, call, owed, changes, movedGen>>

\* set_policy_fn()
SetPolicy ==
    /\ "set_policy" \in AppOps /\ g_nm.started
    /\ \E reinvite, hangup \in BOOLEAN :
           g_nm' = [g_nm EXCEPT !.reinvite_calls = reinvite, !.hangup_on_fail = hangup]
    /\ UNCHANGED <<os, known, call, owed, changes, movedGen>>

\* vox_netmon_stop(): from here on the handlers return at once.
Stop ==
    /\ "shutdown" \in AppOps /\ g_nm.started
    /\ g_nm' = [g_nm EXCEPT !.started = FALSE]
    /\ UNCHANGED <<os, known, call, owed, changes, movedGen>>

\* vox_netmon_close() once accounts and calls are gone and the loop has stopped,
\* then vox_netmon_init() of the next voxsdk_init(); baresip reads the addresses
\* anew.
Restart ==
    /\ ~g_nm.started
    /\ g_nm' = FreshNetmon /\ known' = os
    /\ call' = [c \in Calls |-> NoCall]
    /\ owed' = FALSE /\ movedGen' = 0
    /\ UNCHANGED <<os, changes>>

Next ==
    \/ PollHandler \/ NetworkChanged \/ SettleMoving
    \/ ApplyDown \/ ApplyFailed \/ ApplyDone \/ VerifyHandler
    \/ \E c \in Calls : CallNew(c) \/ CallClosed(c) \/ CallStalled(c)
                           \/ CallRefreshable(c) \/ CallSdpAnswer(c)
                           \/ GatherDone(c) \/ OfferDue(c) \/ CooldownOver(c)
    \/ OsChange \/ SetMonitor \/ SetPolicy \/ Stop \/ Restart

Spec == Init /\ [][Next]_vars

\* Every poll of a handover under way starts tmr_settle again (netmon.c:1428), so with
\* polls no further apart than SettleMs it need never fire.
SettleFires == g_nm.poll_s = 0 \/ g_nm.poll_s * 1000 > SettleMs

\* libre runs the timers that are armed and left alone, gathering has a deadline, time
\* passes.  uag_reset_transp() may fail each time; nobody has to answer or send media.
Fairness ==
    /\ WF_vars(PollHandler) /\ WF_vars(SettleFires /\ SettleMoving)
    /\ WF_vars(SettleFires /\ (ApplyFailed \/ ApplyDone)) /\ WF_vars(VerifyHandler)
    /\ \A c \in Calls : WF_vars(GatherDone(c)) /\ WF_vars(OfferDue(c))

FairSpec == Spec /\ Fairness

(***************************************************************************)
(* Properties                                                              *)
(***************************************************************************)
TypeOK ==
    /\ os \in SUBSET Addrs /\ known \in SUBSET Addrs
    /\ g_nm \in Netmon /\ call \in [Calls -> Call]
    /\ owed \in BOOLEAN /\ changes \in 0 .. MaxChanges /\ movedGen \in Nat

\* A handover that was announced has its settle timer running and work to do,
\* and no timer runs for one that was not: neither a wait for an address, nor a
\* failed reset, nor giving up leaves one of the two behind.
HandoverDriven ==
    g_nm.started =>
        /\ g_nm.announced = g_nm.tmr_settle
        /\ g_nm.announced => g_nm.reset_pending \/ g_nm.force

\* An account that netmon moved to RECONNECTING is driven by netmon until it is
\* re-registered or handed to its retry policy ("the recovery has to stay
\* somebody's job").
RecoveryOwned == g_nm.started /\ owed => g_nm.tmr_settle

\* NET_DOWN and NET_UP tell the truth once a change has been dealt with, after a
\* given-up handover too.
DownTruthful ==
    g_nm.started /\ ~g_nm.announced /\ os = known => g_nm.down = ~Routable(os)

\* A call still owed a verdict in this generation has the shared verify timer
\* running, whatever the other calls on that timer do.
MigrationDriven == g_nm.started /\ Awaited(call, g_nm.gen) # {} => g_nm.tmr_verify

\* A handover that migrates calls claims every one: no migration of an earlier
\* generation stays pending where verify_handler() does not look.
NotStranded == \A c \in Calls : call[c].state \in Pending => call[c].gen >= movedGen

\* A call whose media never returns is not re-INVITEd for the rest of its life:
\* stall repairs offer at most StallAttempts times in each of StallRounds rounds.
RepairsBounded ==
    \A c \in Calls : call[c].repairs <= StallRounds * Least(MaxAttempts, StallAttempts)

\* An announced handover re-binds or gives up, unless there is no address or polls
\* come too often for the settle timer to fire.
HandoverEnds ==
    g_nm.announced ~> (~g_nm.announced \/ os = {} \/ ~g_nm.started \/ ~SettleFires)

\* The poll notices a change nobody announced.
ChangeNoticed == os # known ~> (os = known \/ g_nm.poll_s = 0 \/ ~g_nm.started)

\* Every migration gets a verdict or is superseded, whatever the peer, the
\* routing table and the dialog do.
MigrationEnds ==
    \A c \in Calls :
        (call[c].state \in Pending /\ call[c].gen = g_nm.gen)
            ~> ~(call[c].state \in Pending /\ call[c].gen = g_nm.gen /\ g_nm.started)

\* A change of addresses runs its whole course: while the addresses are polled it is
\* noticed, while they are not polled as often as the settle time its handover ends, and
\* every migration it starts gets a verdict (netmon.c).
ChangesSettle == ChangeNoticed /\ HandoverEnds /\ MigrationEnds
=============================================================================
