--------------------------- MODULE HandoverProofs ---------------------------
(***************************************************************************)
(* Handover, proved for any number of calls and addresses and any budget.  *)
(*                                                                         *)
(* Each step of a migration has a lemma: what it makes of a good call is   *)
(* good, and belongs to the same generation or is gone.                    *)
(***************************************************************************)
EXTENDS Handover, TLAPS

\* A well-typed call that may still be offered while its state says so.
Good(r) ==
    /\ r \in Call
    /\ r.state \in {"STALLED", "WAIT_ADDR", "DEFERRED"} => r.tries < MaxAttempts

\* What a step may make of the call r it handles in generation gen.
From(n, r, gen) == Good(n) /\ (n = NoCall \/ (n.gen = gen /\ n.up = r.up))

\* An empty slot is a good call with nothing pending.
LEMMA NoCallGood == Good(NoCall) /\ NoCall.state \notin Pending /\ NoCall.gen = 0
BY HandoverAssumption DEF Good, Call, NoCall, MigStates, Stages, Pending

\* laddr_remember() only adds to the record of addresses offered.
LEMMA RememberGood ==
    ASSUME NEW r \in Call
    PROVE  /\ Remember(r) \in Call /\ Remember(r).gen = r.gen
           /\ Remember(r).tries = r.tries /\ Remember(r).up = r.up
BY DEF Remember, Call

\* next_laddr() changes the address in hand and the record, and nothing else.
LEMMA NextLaddrGood ==
    ASSUME NEW r \in Call, known \in SUBSET Addrs, NEW n \in NextLaddr(r)
    PROVE  /\ n \in Call /\ n.gen = r.gen /\ n.tries = r.tries /\ n.up = r.up
<1>1. ASSUME NEW a \in Addrs, n = [r EXCEPT !.laddr = a]
      PROVE  n \in Call /\ n.gen = r.gen /\ n.tries = r.tries /\ n.up = r.up
  BY <1>1 DEF Call
<1>2. ASSUME NEW a \in Addrs, n = [[r EXCEPT !.tried = {}] EXCEPT !.laddr = a]
      PROVE  n \in Call /\ n.gen = r.gen /\ n.tries = r.tries /\ n.up = r.up
  BY <1>2 DEF Call
<1>3. ASSUME n = [r EXCEPT !.tried = {}]
      PROVE  n \in Call /\ n.gen = r.gen /\ n.tries = r.tries /\ n.up = r.up
  BY <1>3 DEF Call
<1>4. \/ \E a \in Addrs : n = [r EXCEPT !.laddr = a]
      \/ \E a \in Addrs : n = [[r EXCEPT !.tried = {}] EXCEPT !.laddr = a]
      \/ n = [r EXCEPT !.tried = {}]
  BY DEF NextLaddr
<1> QED BY <1>1, <1>2, <1>3, <1>4

\* fail_migration() ends the migration, or the call.
LEMMA FailGood ==
    ASSUME NEW r \in Call
    PROVE  From(Fail(r), r, r.gen) /\ Fail(r).state \notin Pending
<1>1. CASE g_nm.hangup_on_fail
  BY <1>1, NoCallGood DEF Fail, From
<1>2. CASE ~g_nm.hangup_on_fail
  BY <1>2 DEF Fail, From, Good, Call, MigStates, Stages, Pending
<1> QED BY <1>1, <1>2

\* An offer puts the call in SENT, or straight in DONE.
LEMMA SentGood ==
    ASSUME NEW r \in Call
    PROVE  /\ From(Sent(r), r, r.gen) /\ From(Done(r), r, r.gen)
           /\ Sent(r) \in Call /\ Sent(r).gen = r.gen /\ Sent(r).up = r.up
<1>1. /\ Sent(r) \in Call /\ Sent(r).state = "SENT"
      /\ Sent(r).gen = r.gen /\ Sent(r).up = r.up
  <2> DEFINE k == IF r.stall THEN r.repairs + 1 ELSE r.repairs
  <2>1. k \in Nat
    BY DEF Call
  <2>2. Sent(r) = [r EXCEPT !.state = "SENT", !.due = TRUE, !.told = "MIGRATING",
                            !.repairs = k]
    BY DEF Sent
  <2> HIDE DEF k
  <2> QED BY ZenonT(60), <2>1, <2>2 DEF Call, MigStates, Stages
<1>2. Done(r) \in Call /\ Done(r).state = "DONE" /\ Done(r).gen = r.gen
         /\ Done(r).up = r.up
  BY DEF Done, Call, MigStates, Stages
<1> QED BY <1>1, <1>2 DEF From, Good

\* The budget for offers lies within the budget of the migration.
LEMMA BudgetBounded ==
    ASSUME NEW c, NEW r \in Call
    PROVE  MaxAttemptsFor(c, r) \in Nat /\ MaxAttemptsFor(c, r) <= MaxAttempts
BY HandoverAssumption DEF MaxAttemptsFor, Least, Call

\* A failing call_reset_transp() leaves a call to try again only within budget.
LEMMA PlainOfferGood ==
    ASSUME NEW c, NEW r \in Call, NEW n \in PlainOffer(c, r)
    PROVE  From(n, r, r.gen)
<1> DEFINE o == [r EXCEPT !.sdp_laddr = r.laddr]
<1>1. o \in Call /\ o.gen = r.gen /\ o.up = r.up
  BY DEF Call
<1>2. CASE o.tries >= MaxAttemptsFor(c, o) /\ n = Fail(o)
  BY <1>1, <1>2, FailGood DEF From
<1>3. CASE ~(o.tries >= MaxAttemptsFor(c, o)) /\ n = [o EXCEPT !.state = "DEFERRED"]
  <2>1. o.tries < MaxAttempts
    BY <1>1, <1>3, BudgetBounded, HandoverAssumption DEF Call
  <2>2. n \in Call /\ n.tries = o.tries /\ n.gen = o.gen /\ n.up = o.up
    BY <1>1, <1>3 DEF Call, MigStates
  <2> QED BY <1>1, <1>3, <2>1, <2>2 DEF From, Good
<1>4. CASE n = Sent(o)
  BY <1>1, <1>4, SentGood DEF From
<1>5. CASE n = Done(Sent(o))
  <2>1. Sent(o) \in Call /\ Sent(o).gen = r.gen /\ Sent(o).up = r.up
    BY <1>1, SentGood
  <2> QED BY <2>1, <1>5, SentGood DEF From
<1> QED BY <1>2, <1>3, <1>4, <1>5 DEF PlainOffer

\* An ICE restart, a restart still gathering, or the plain offer.
LEMMA IceOfferGood ==
    ASSUME NEW c, NEW r \in Call, NEW n \in IceOffer(c, r)
    PROVE  From(n, r, r.gen)
<1> DEFINE i == [r EXCEPT !.ice_restarted = TRUE]
           j == [i EXCEPT !.sdp_laddr = r.laddr, !.gathering = TRUE]
<1>1. /\ i \in Call /\ i.gen = r.gen /\ i.up = r.up
      /\ j \in Call /\ j.gen = r.gen /\ j.up = r.up
  BY DEF Call
<1>2. n = Sent(i) \/ n = Sent(j) \/ n \in PlainOffer(c, r)
  BY DEF IceOffer
<1> HIDE DEF i, j
<1>3. CASE n = Sent(i)
  BY <1>1, <1>3, SentGood DEF From
<1>4. CASE n = Sent(j)
  BY <1>1, <1>4, SentGood DEF From
<1> QED BY <1>2, <1>3, <1>4, PlainOfferGood

\* send_migration() on a refreshable dialog.
LEMMA OfferGood ==
    ASSUME NEW c, NEW r \in Call, r.tries < MaxAttempts, NEW n \in Offer(c, r)
    PROVE  From(n, r, r.gen)
<1> DEFINE u == [r EXCEPT !.tries = @ + 1]
<1>1. u \in Call /\ u.gen = r.gen /\ u.up = r.up
  BY HandoverAssumption DEF Call
<1>2. Remember(u) \in Call /\ Remember(u).gen = r.gen /\ Remember(u).up = r.up
  BY <1>1, RememberGood
<1>3. n \in IceOffer(c, Remember(u)) \/ n \in PlainOffer(c, Remember(u))
  BY DEF Offer
<1> QED BY <1>2, <1>3, IceOfferGood, PlainOfferGood DEF From

\* send_migration()
LEMMA SendGood ==
    ASSUME NEW c, NEW r \in Call, r.tries < MaxAttempts, NEW n \in Send(c, r)
    PROVE  From(n, r, r.gen)
<1>1. From(Defer(r), r, r.gen)
  <2>1. CASE r.state = "DEFERRED"
    BY <2>1 DEF Defer, From, Good
  <2>2. CASE r.state # "DEFERRED"
    <3>1. Defer(r) = [r EXCEPT !.state = "DEFERRED", !.told = "DEFERRED"]
      BY <2>2 DEF Defer
    <3>2. /\ Defer(r) \in Call /\ Defer(r).tries = r.tries
          /\ Defer(r).gen = r.gen /\ Defer(r).up = r.up
      BY <3>1 DEF Call, MigStates, Stages
    <3> QED BY <3>2 DEF From, Good
  <2> QED BY <2>1, <2>2
<1> QED BY <1>1, OfferGood DEF Send

\* retry_migration()
LEMMA RetryGood ==
    ASSUME NEW c, NEW r \in Call, r.tries < MaxAttempts, known \in SUBSET Addrs,
           NEW n \in Retry(c, r)
    PROVE  From(n, r, r.gen)
<1> DEFINE q == Remember(r)
<1>1. q \in Call /\ q.gen = r.gen /\ q.tries = r.tries /\ q.up = r.up
  BY RememberGood
<1>2. CASE n \in Send(c, q)
  BY <1>1, <1>2, SendGood DEF From
<1>3. CASE \E m \in NextLaddr(q) : n \in Send(c, m)
  <2>1. PICK m \in NextLaddr(q) : n \in Send(c, m)
    BY <1>3
  <2>2. m \in Call /\ m.gen = r.gen /\ m.tries = r.tries /\ m.up = r.up
    BY <1>1, NextLaddrGood
  <2> QED BY <2>1, <2>2, SendGood DEF From
<1> QED BY <1>2, <1>3 DEF Retry

\* start_migration() claims the call: whatever comes of it belongs to gen.
LEMMA StartGood ==
    ASSUME NEW c, NEW r \in Call, NEW gen \in Nat, r.gen = gen => r.tries < MaxAttempts,
           known \in SUBSET Addrs, os \in SUBSET Addrs, NEW n \in Start(c, r, gen)
    PROVE  From(n, r, gen)
<1> DEFINE s == Stamp(r, gen)
<1>1. s \in Call /\ s.gen = gen /\ s.tries < MaxAttempts /\ s.up = r.up
  <2>1. CASE r.gen = gen
    BY <2>1 DEF Stamp
  <2>2. CASE r.gen # gen
    <3> DEFINE x == [r EXCEPT !.gen = gen, !.tries = 0, !.due = FALSE,
                              !.ice_restarted = FALSE]
               y == [x EXCEPT !.path_moved = FALSE, !.stall = FALSE, !.tried = {},
                              !.laddr = NoAddr]
    <3>0. 0 \in 0 .. MaxAttempts
      BY HandoverAssumption
    <3>1. x \in Call /\ x.gen = gen /\ x.tries = 0 /\ x.up = r.up
      BY <3>0 DEF Call
    <3>2. s = y
      BY <2>2 DEF Stamp, Call
    <3> HIDE DEF x
    <3>3. y \in Call /\ y.gen = x.gen /\ y.tries = x.tries /\ y.up = x.up
      BY ZenonT(60), <3>1 DEF Call
    <3> QED BY <3>1, <3>2, <3>3, HandoverAssumption
  <2> QED BY <2>1, <2>2
<1> HIDE DEF s
<1>2. CASE n = WaitForAddr(s)
  <2>1. CASE s.state = "WAIT_ADDR"
    BY <1>1, <1>2, <2>1 DEF WaitForAddr, From, Good
  <2>2. CASE s.state # "WAIT_ADDR"
    <3>1. n = [s EXCEPT !.state = "WAIT_ADDR", !.told = "DEFERRED"]
      BY <1>2, <2>2 DEF WaitForAddr
    <3>2. n \in Call /\ n.tries = s.tries /\ n.gen = s.gen /\ n.up = s.up
      BY <1>1, <3>1 DEF Call, MigStates, Stages
    <3> QED BY <1>1, <3>2 DEF From, Good
  <2> QED BY <2>1, <2>2
<1>3. ASSUME NEW m \in Sources(s)
      PROVE  m \in Call /\ m.gen = gen /\ m.tries < MaxAttempts /\ m.up = r.up
  <2>1. PICK a \in os : \/ m = [s EXCEPT !.laddr = a]
                        \/ m \in NextLaddr([s EXCEPT !.laddr = a])
    BY <1>3 DEF Sources
  <2>2. [s EXCEPT !.laddr = a] \in Call /\ [s EXCEPT !.laddr = a].gen = gen
           /\ [s EXCEPT !.laddr = a].tries = s.tries /\ [s EXCEPT !.laddr = a].up = s.up
    BY <1>1 DEF Call
  <2> QED BY <1>1, <2>1, <2>2, NextLaddrGood
<1>4. CASE \E m \in Sources(s) : n = [m EXCEPT !.state = "IDLE", !.laddr = s.laddr]
  BY ZenonT(60), <1>1, <1>3, <1>4 DEF From, Good, Call, MigStates
<1>5. CASE \E m \in Sources(s) :
              n \in Send(c, [m EXCEPT !.path_moved = @ \/ m.stall \/ m.laddr # m.sdp_laddr])
  <2>1. PICK m \in Sources(s) :
              n \in Send(c, [m EXCEPT !.path_moved = @ \/ m.stall \/ m.laddr # m.sdp_laddr])
    BY <1>5
  <2> DEFINE k == [m EXCEPT !.path_moved = @ \/ m.stall \/ m.laddr # m.sdp_laddr]
  <2>2. k \in Call /\ k.gen = gen /\ k.tries < MaxAttempts /\ k.up = r.up
    BY <1>3 DEF Call
  <2> HIDE DEF k
  <2>3. n \in Send(c, k)
    BY <2>1 DEF k
  <2>4. From(n, k, gen)
    BY <2>2, <2>3, SendGood
  <2> QED BY <2>2, <2>4 DEF From
<1> QED BY <1>2, <1>4, <1>5 DEF Start, s

\* The verify tick keeps a call good and in its generation.
LEMMA VerifyGood ==
    ASSUME NEW c, NEW r, Good(r), g_nm.gen \in Nat,
           known \in SUBSET Addrs, os \in SUBSET Addrs, NEW n \in Verify(c, r)
    PROVE  From(n, r, r.gen) /\ (n.state \in Pending => r.state \in Pending)
<1> DEFINE t == [r EXCEPT !.tries = @ + 1]
<1>r. r \in Call
  BY DEF Good
<1>1. CASE n = r
  BY <1>1 DEF From
<1>2. CASE r.gen = g_nm.gen /\ r.state = "STALLED"
  <2>1. n \in Start(c, r, g_nm.gen)
    BY <1>2 DEF Verify
  <2> QED BY <1>2, <2>1, <1>r, StartGood DEF Good, Pending
<1>t. r.state \in {"WAIT_ADDR", "DEFERRED"} =>
         t \in Call /\ t.gen = r.gen /\ t.up = r.up /\ t.tries = r.tries + 1
  BY <1>r, HandoverAssumption DEF Good, Call
<1>3. CASE r.gen = g_nm.gen /\ r.state = "WAIT_ADDR"
  <2>1. IF t.tries >= MaxAttempts THEN n = Fail(t) ELSE n \in Start(c, t, g_nm.gen)
    BY <1>3 DEF Verify
  <2>2. CASE t.tries >= MaxAttempts
    BY <1>3, <1>t, <2>1, <2>2, FailGood DEF Pending, From
  <2>3. CASE ~(t.tries >= MaxAttempts)
    <3>1. t.tries < MaxAttempts
      BY <1>3, <1>t, <2>3, HandoverAssumption DEF Call
    <3>2. t \in Call /\ t.gen = r.gen /\ t.up = r.up /\ n \in Start(c, t, g_nm.gen)
      BY <1>3, <1>t, <2>1, <2>3
    <3> HIDE DEF t
    <3>3. From(n, t, g_nm.gen)
      BY <3>1, <3>2, StartGood
    <3> QED BY <1>3, <3>2, <3>3 DEF Pending, From
  <2> QED BY <2>2, <2>3
<1>4. CASE r.gen = g_nm.gen /\ r.state = "DEFERRED"
  <2>1. n \in Offer(c, r) \/ (IF t.tries >= MaxAttempts THEN n = Fail(t) ELSE n = t)
    BY <1>4 DEF Verify
  <2>2. CASE n \in Offer(c, r)
    BY <1>4, <1>r, <2>2, OfferGood DEF Good, Pending
  <2>3. CASE t.tries >= MaxAttempts /\ n = Fail(t)
    BY <1>4, <1>t, <2>3, FailGood DEF Pending, From
  <2>4. CASE ~(t.tries >= MaxAttempts) /\ n = t
    <3>1. t.tries < MaxAttempts
      BY <1>4, <1>t, <2>4, HandoverAssumption DEF Call
    <3> QED BY <1>4, <1>t, <2>4, <3>1 DEF From, Good, Pending
  <2> QED BY <2>1, <2>2, <2>3, <2>4
<1>5. CASE r.gen = g_nm.gen /\ r.state = "SENT"
  <2>1. \/ n = r \/ n = Done(r) \/ n = Fail(r)
        \/ ~(r.tries >= MaxAttemptsFor(c, r)) /\ n \in Retry(c, r)
    BY <1>5 DEF Verify
  <2>2. CASE ~(r.tries >= MaxAttemptsFor(c, r)) /\ n \in Retry(c, r)
    <3>1. r.tries < MaxAttempts
      BY <1>r, <2>2, BudgetBounded, HandoverAssumption DEF Call
    <3> QED BY <1>5, <1>r, <2>2, <3>1, RetryGood DEF Pending
  <2> QED BY <1>1, <1>5, <1>r, <2>1, <2>2, SentGood, FailGood DEF Pending
<1> QED BY <1>1, <1>2, <1>3, <1>4, <1>5 DEF Verify

(***************************************************************************)
(* The handover: everything but the calls                                  *)
(***************************************************************************)
\* What is told of the link fits the addresses netmon has seen: DownTruthful
\* alone is not inductive, since the kernel may change its mind unobserved.
DownSeen == g_nm.started /\ ~g_nm.announced => g_nm.down = ~Routable(known)

GlobalInv ==
    /\ os \in SUBSET Addrs /\ known \in SUBSET Addrs /\ g_nm \in Netmon
    /\ owed \in BOOLEAN /\ changes \in 0 .. MaxChanges
    /\ HandoverDriven /\ RecoveryOwned /\ DownSeen

\* netmon_trigger() announces and arms together.
LEMMA TriggeredGood ==
    ASSUME g_nm \in Netmon, NEW forced \in BOOLEAN, NEW g, g = Triggered(forced)
    PROVE  /\ g \in Netmon /\ g.started = g_nm.started /\ g.down = g_nm.down
           /\ g.announced <=> g_nm.announced \/ g.reset_pending \/ g.force
           /\ g.tmr_settle <=> g_nm.tmr_settle \/ g.reset_pending \/ g.force
           /\ g_nm.reset_pending => g.reset_pending
           /\ g_nm.force => g.force
           /\ os # known => g.reset_pending
<1> DEFINE p == g_nm.reset_pending \/ os # known
           f == g_nm.force \/ forced
<1>1. p \in BOOLEAN /\ f \in BOOLEAN
  BY DEF Netmon
<1>2. g = [g_nm EXCEPT !.reset_pending = p, !.force = f,
                       !.announced = @ \/ p \/ f, !.tmr_settle = @ \/ p \/ f]
  BY DEF Triggered
<1>3. (g_nm.reset_pending => p) /\ (g_nm.force => f) /\ (os # known => p)
  OBVIOUS
<1> HIDE DEF p, f
<1> QED BY ZenonT(60), <1>1, <1>2, <1>3 DEF Netmon

\* What a trigger leaves of announcement, timer, accounts and link state.
LEMMA TriggerStep ==
    ASSUME GlobalInv, NEW forced \in BOOLEAN, NEW g, g = Triggered(forced),
           g_nm.started, g_nm' \in Netmon, known' = os, os' = os,
           g_nm'.announced = g.announced, g_nm'.tmr_settle = g.tmr_settle,
           g_nm'.reset_pending = g.reset_pending, g_nm'.force = g.force,
           g_nm'.down = g.down, changes' \in 0 .. MaxChanges,
           owed' = (owed \/ (g_nm'.announced /\ ~g_nm.announced))
    PROVE  GlobalInv'
<1>1. g_nm \in Netmon /\ owed \in BOOLEAN /\ os \in SUBSET Addrs
  BY DEF GlobalInv
<1>2. /\ g.announced \in BOOLEAN /\ g.tmr_settle \in BOOLEAN
      /\ g_nm.announced \in BOOLEAN /\ g_nm.tmr_settle \in BOOLEAN
      /\ g_nm'.announced \in BOOLEAN
  BY <1>1, TriggeredGood DEF Netmon
<1>3. /\ g.announced <=> g_nm.announced \/ g.reset_pending \/ g.force
      /\ g.tmr_settle <=> g_nm.tmr_settle \/ g.reset_pending \/ g.force
      /\ g_nm.reset_pending => g.reset_pending
      /\ g_nm.force => g.force
      /\ os # known => g.reset_pending
      /\ g.down = g_nm.down
  BY <1>1, TriggeredGood
<1>4. /\ g_nm.announced = g_nm.tmr_settle
      /\ g_nm.announced => g_nm.reset_pending \/ g_nm.force
      /\ owed => g_nm.tmr_settle
      /\ ~g_nm.announced => g_nm.down = ~Routable(known)
  BY DEF GlobalInv, HandoverDriven, RecoveryOwned, DownSeen
<1>5. g.announced = g.tmr_settle /\ (g.announced => g.reset_pending \/ g.force)
  BY <1>2, <1>3, <1>4
<1>6. HandoverDriven'
  BY <1>5 DEF HandoverDriven
<1>7. RecoveryOwned'
  BY <1>3, <1>4, <1>5 DEF RecoveryOwned
<1>8. DownSeen'
  <2>1. CASE g.announced
    BY <2>1 DEF DownSeen
  <2>2. CASE ~g.announced
    <3>1. os = known /\ ~g_nm.announced
      BY <1>3, <2>2
    <3>2. known' = known /\ g_nm'.down = ~Routable(known)
      BY <1>3, <1>4, <3>1
    <3> QED BY <3>2 DEF DownSeen, Routable
  <2> QED BY <2>1, <2>2
<1>9. owed' \in BOOLEAN
  BY <1>1, <1>2
<1> QED BY <1>1, <1>6, <1>7, <1>8, <1>9 DEF GlobalInv

\* Every step keeps announcement, timer, accounts and link state in agreement,
\* whatever it does to the calls.
LEMMA GlobalStep == GlobalInv /\ [Next]_vars => GlobalInv'
<1> SUFFICES ASSUME GlobalInv, [Next]_vars PROVE GlobalInv'
  OBVIOUS
<1>z. 0 \in 0 .. MaxAttempts - 1
  BY HandoverAssumption
<1>f. Interval \in Nat /\ 0 \in Nat
  BY HandoverAssumption
<1> USE DEF GlobalInv, HandoverDriven, RecoveryOwned, DownSeen, Netmon
<1>1. CASE PollHandler
  <2>1. PICK g : g = Triggered(FALSE) /\ g_nm' = [g EXCEPT !.tmr_poll = g_nm.poll_s # 0]
    BY <1>1 DEF PollHandler
  <2>2. g_nm' \in Netmon /\ g_nm'.announced = g.announced /\ g_nm'.started = g.started
           /\ g_nm'.tmr_settle = g.tmr_settle /\ g_nm'.reset_pending = g.reset_pending
           /\ g_nm'.force = g.force /\ g_nm'.down = g.down
    <3>1. g \in Netmon /\ g_nm.poll_s \in Nat
      BY <2>1, TriggeredGood
    <3> QED BY <2>1, <3>1
  <2>3. /\ g_nm.started /\ known' = os /\ os' = os /\ changes' = changes
        /\ owed' = (owed \/ (g_nm'.announced /\ ~g_nm.announced))
    BY <1>1 DEF PollHandler, MarkAccounts
  <2>4. g = Triggered(FALSE)
    BY <2>1
  <2> QED BY <2>2, <2>3, <2>4, TriggerStep
<1>2. CASE NetworkChanged
  <2>1. g_nm' = Triggered(TRUE)
    BY <1>2 DEF NetworkChanged
  <2>2. changes' \in 0 .. MaxChanges /\ g_nm.started /\ known' = os /\ os' = os
    BY <1>2, HandoverAssumption DEF NetworkChanged
  <2>3. owed' = (owed \/ (g_nm'.announced /\ ~g_nm.announced))
    BY <1>2 DEF NetworkChanged, MarkAccounts
  <2>4. g_nm' \in Netmon
    BY <2>1, TriggeredGood
  <2> QED BY <2>1, <2>2, <2>3, <2>4, TriggerStep
<1>3. CASE SettleMoving
  BY <1>3 DEF SettleMoving
<1>4. CASE ApplyDown
  BY <1>4 DEF ApplyDown, Settled
<1>5. CASE ApplyFailed
  <2> DEFINE g == Usable(g_nm)
  <2>1. g \in Netmon /\ (g.down <=> ~Routable(os)) /\ g.announced = g_nm.announced
           /\ g.tmr_settle = g_nm.tmr_settle /\ g.reset_pending = g_nm.reset_pending
           /\ g.force = g_nm.force /\ g.started = g_nm.started /\ g.attempt = g_nm.attempt
    BY DEF Usable, Routable
  <2>2. \/ /\ g.attempt + 1 < MaxAttempts
           /\ g_nm' = [g EXCEPT !.attempt = @ + 1]
        \/ g_nm' = GiveUp(g) /\ owed' = FALSE
    BY <1>5 DEF ApplyFailed
  <2>u. /\ os' = os /\ known' = known /\ changes' = changes /\ owed' \in BOOLEAN
        /\ os = known /\ g_nm.started /\ g_nm.tmr_settle
    BY <1>5 DEF ApplyFailed, Settled
  <2> HIDE DEF g
  <2>3. CASE g.attempt + 1 < MaxAttempts /\ g_nm' = [g EXCEPT !.attempt = @ + 1]
    <3>1. g.attempt + 1 \in 0 .. MaxAttempts - 1
      BY <2>1, <2>3, HandoverAssumption
    <3>2. g_nm' \in Netmon /\ g_nm'.announced = g.announced /\ g_nm'.started = g.started
             /\ g_nm'.tmr_settle = g.tmr_settle /\ g_nm'.force = g.force
             /\ g_nm'.reset_pending = g.reset_pending
      BY <2>1, <2>3, <3>1
    <3> QED BY <2>1, <2>u, <3>2
  <2>4. CASE g_nm' = GiveUp(g) /\ owed' = FALSE
    <3>1. g_nm' \in Netmon /\ ~g_nm'.announced /\ ~g_nm'.tmr_settle
             /\ g_nm'.down = g.down
      BY ZenonT(60), <2>1, <2>4, <1>z DEF GiveUp
    <3> QED BY <2>1, <2>4, <2>u, <3>1 DEF Routable
  <2> QED BY <2>2, <2>3, <2>4
<1>6. CASE ApplyDone
  <2> DEFINE v == g_nm.tmr_verify \/ (/\ g_nm.reinvite_calls
                                       /\ Awaited(call', g_nm.gen + 1) # {})
             g == Usable(g_nm)
  <2>1. g \in Netmon /\ (g.down <=> ~Routable(os)) /\ v \in BOOLEAN
           /\ g.tmr_verify = g_nm.tmr_verify
    BY DEF Usable, Routable
  <2>2. g_nm' = [g EXCEPT
                    !.attempt = 0, !.reset_pending = FALSE, !.force = FALSE,
                    !.announced = FALSE, !.tmr_settle = FALSE, !.gen = g_nm.gen + 1,
                    !.tmr_verify = v]
    BY <1>6, <2>1 DEF ApplyDone
  <2>3. /\ os' = os /\ known' = known /\ changes' = changes /\ owed' = FALSE
        /\ os = known
    BY <1>6 DEF ApplyDone, Settled
  <2> HIDE DEF g, v
  <2>4. g_nm' \in Netmon /\ ~g_nm'.announced /\ ~g_nm'.tmr_settle /\ g_nm'.down = g.down
    <3> DEFINE x == [g EXCEPT !.attempt = 0, !.reset_pending = FALSE, !.force = FALSE,
                              !.announced = FALSE]
    <3>1. x \in Netmon /\ ~x.announced /\ x.down = g.down
      BY <2>1, <1>z
    <3>2. g_nm' = [x EXCEPT !.tmr_settle = FALSE, !.gen = g_nm.gen + 1, !.tmr_verify = v]
      BY <2>1, <2>2
    <3>3. g_nm.gen + 1 \in Nat
      OBVIOUS
    <3> HIDE DEF x
    <3> QED BY <2>1, <3>1, <3>2, <3>3
  <2> QED BY <2>1, <2>3, <2>4 DEF Routable
<1>7. CASE VerifyHandler
  BY <1>7 DEF VerifyHandler
<1>8. ASSUME NEW c \in Calls, CallNew(c) \/ CallClosed(c) \/ CallSdpAnswer(c)
                                \/ GatherDone(c) \/ OfferDue(c) \/ CooldownOver(c)
      PROVE  GlobalInv'
  BY <1>8 DEF CallNew, CallClosed, CallSdpAnswer, GatherDone, OfferDue, CooldownOver
<1>9. ASSUME NEW c \in Calls, CallStalled(c) \/ CallRefreshable(c)
      PROVE  GlobalInv'
  <2>1. /\ g_nm' = [g_nm EXCEPT !.tmr_verify = TRUE]
        /\ UNCHANGED <<os, known, owed, changes>>
    BY <1>9 DEF CallStalled, CallRefreshable
  <2> QED BY <2>1
<1>10. CASE OsChange
  BY <1>10, HandoverAssumption DEF OsChange
<1>11. CASE SetMonitor
  <2>1. PICK s \in Intervals : g_nm' = [g_nm EXCEPT !.poll_s = s, !.tmr_poll = s # 0]
    BY <1>11 DEF SetMonitor
  <2>2. PICK on \in BOOLEAN : on = (s # 0)
    OBVIOUS
  <2>3. s \in Nat /\ g_nm' = [g_nm EXCEPT !.poll_s = s, !.tmr_poll = on]
    BY <2>1, <2>2, HandoverAssumption
  <2>4. UNCHANGED <<os, known, owed, changes>>
    BY <1>11 DEF SetMonitor
  <2> QED BY ZenonT(60), <2>3, <2>4
<1>12. CASE SetPolicy
  BY ZenonT(60), <1>12 DEF SetPolicy
<1>13. CASE Stop
  BY <1>13 DEF Stop
<1>14. CASE Restart
  <2>1. FreshNetmon \in Netmon /\ ~FreshNetmon.announced /\ ~FreshNetmon.tmr_settle
           /\ (FreshNetmon.down <=> ~Routable(os))
    BY ZenonT(60), <1>z, <1>f DEF FreshNetmon, Routable
  <2>2. /\ g_nm' = FreshNetmon /\ known' = os /\ os' = os /\ owed' = FALSE
        /\ changes' = changes
    BY <1>14 DEF Restart
  <2> QED BY ZenonT(60), <2>1, <2>2 DEF Routable
<1>15. CASE UNCHANGED vars
  BY <1>15 DEF vars
<1> QED BY <1>1, <1>2, <1>3, <1>4, <1>5, <1>6, <1>7, <1>8, <1>9, <1>10, <1>11,
           <1>12, <1>13, <1>14, <1>15 DEF Next

(***************************************************************************)
(* The calls                                                               *)
(***************************************************************************)
CallsInv ==
    /\ call \in [Calls -> Call] /\ movedGen \in Nat /\ movedGen <= g_nm.gen
    /\ \A c \in Calls : /\ Good(call[c]) /\ call[c].gen <= g_nm.gen
                        /\ ~call[c].up => call[c].state \notin Pending
    /\ MigrationDriven /\ NotStranded

\* A step that begins no migration of the call.
Calmer(n, r) ==
    /\ Good(n) /\ (n.gen = r.gen \/ n.gen = 0)
    /\ n.state \in Pending => r.state \in Pending /\ n.gen = r.gen /\ n.up = r.up

\* Where no migration begins, the timer that drives the old ones still does.
LEMMA CalmStep ==
    ASSUME CallsInv, g_nm \in Netmon, g_nm' \in Netmon,
           call' \in [Calls -> Call], \A c \in Calls : Calmer(call'[c], call[c]),
           movedGen' = movedGen, g_nm'.gen = g_nm.gen,
           g_nm'.started => g_nm.started, g_nm.tmr_verify => g_nm'.tmr_verify
    PROVE  CallsInv'
<1>1. \A c \in Calls : /\ call[c] \in Call /\ call'[c] \in Call
                       /\ call[c].gen \in Nat /\ g_nm.gen \in Nat
  BY DEF CallsInv, Call, Netmon
<1>2. \A c \in Calls : /\ Good(call'[c]) /\ call'[c].gen <= g_nm'.gen
                       /\ ~call'[c].up => call'[c].state \notin Pending
  BY <1>1 DEF CallsInv, Calmer
<1>3. MigrationDriven'
  BY DEF CallsInv, Calmer, MigrationDriven, Awaited
<1>4. NotStranded'
  BY DEF CallsInv, Calmer, NotStranded
<1> QED BY <1>2, <1>3, <1>4 DEF CallsInv

\* The steps that change one call and begin no migration.
LEMMA OneCallCalm ==
    ASSUME GlobalInv, CallsInv, NEW c \in Calls, NEW n, Calmer(n, call[c]),
           call' = [call EXCEPT ![c] = n], g_nm' = g_nm, movedGen' = movedGen
    PROVE  CallsInv'
<1>1. n \in Call
  BY DEF Calmer, Good
<1>2. call' \in [Calls -> Call]
  BY <1>1 DEF CallsInv
<1>3. \A d \in Calls : Calmer(call[d], call[d])
  BY DEF CallsInv, Calmer
<1>4. \A d \in Calls : Calmer(call'[d], call[d])
  BY <1>3 DEF CallsInv
<1> QED BY <1>2, <1>4, CalmStep DEF GlobalInv

\* Everything that happens to one call outside a handover.
LEMMA CallEvents ==
    ASSUME GlobalInv, CallsInv, NEW c \in Calls,
           CallNew(c) \/ CallClosed(c) \/ CallSdpAnswer(c)
               \/ GatherDone(c) \/ OfferDue(c) \/ CooldownOver(c)
    PROVE  CallsInv'
<1>1. call[c] \in Call /\ Good(call[c]) /\ call \in [Calls -> Call]
  BY DEF CallsInv
<1>2. CASE CallNew(c)
  <2>1. PICK a \in known :
            call' = [call EXCEPT ![c] = [NoCall EXCEPT !.up = TRUE, !.sdp_laddr = a]]
    BY <1>2 DEF CallNew
  <2> DEFINE n == [NoCall EXCEPT !.up = TRUE, !.sdp_laddr = a]
  <2>2. a \in Addrs /\ NoCall \in Call /\ NoCall.state = "IDLE" /\ NoCall.gen = 0
    BY NoCallGood DEF GlobalInv, Good, NoCall
  <2>3. n \in Call /\ n.state = "IDLE" /\ n.gen = 0
    BY <2>2 DEF Call
  <2>4. Calmer(n, call[c])
    BY <2>3 DEF Calmer, Good, Pending
  <2> HIDE DEF n
  <2>5. call' = [call EXCEPT ![c] = n]
    BY <2>1 DEF n
  <2> QED BY <1>2, <2>4, <2>5, OneCallCalm DEF CallNew
<1>3. CASE CallClosed(c)
  <2>1. Calmer(NoCall, call[c])
    BY NoCallGood DEF Calmer
  <2> QED BY <1>3, <2>1, OneCallCalm DEF CallClosed
<1>4. CASE CallSdpAnswer(c)
  <2> DEFINE n == [call[c] EXCEPT !.told = "ACCEPTED"]
  <2>1. call' = [call EXCEPT ![c] = n]
    BY <1>1, <1>4 DEF CallSdpAnswer
  <2>2. /\ n \in Call /\ n.state = call[c].state /\ n.gen = call[c].gen
        /\ n.up = call[c].up /\ n.tries = call[c].tries
    BY <1>1 DEF Call, Stages
  <2> HIDE DEF n
  <2> QED BY <1>1, <1>4, <2>1, <2>2, OneCallCalm DEF CallSdpAnswer, Calmer, Good
<1>5. CASE GatherDone(c)
  <2> DEFINE n == [call[c] EXCEPT !.gathering = FALSE]
  <2>1. call' = [call EXCEPT ![c] = n]
    BY <1>1, <1>5 DEF GatherDone
  <2>2. /\ n \in Call /\ n.state = call[c].state /\ n.gen = call[c].gen
        /\ n.up = call[c].up /\ n.tries = call[c].tries
    BY <1>1 DEF Call
  <2> HIDE DEF n
  <2> QED BY <1>1, <1>5, <2>1, <2>2, OneCallCalm DEF GatherDone, Calmer, Good
<1>6. CASE OfferDue(c)
  <2> DEFINE n == [call[c] EXCEPT !.due = FALSE]
  <2>1. call' = [call EXCEPT ![c] = n]
    BY <1>1, <1>6 DEF OfferDue
  <2>2. /\ n \in Call /\ n.state = call[c].state /\ n.gen = call[c].gen
        /\ n.up = call[c].up /\ n.tries = call[c].tries
    BY <1>1 DEF Call
  <2> HIDE DEF n
  <2> QED BY <1>1, <1>6, <2>1, <2>2, OneCallCalm DEF OfferDue, Calmer, Good
<1>7. CASE CooldownOver(c)
  <2> DEFINE n == [call[c] EXCEPT !.cooling = FALSE]
  <2>1. call' = [call EXCEPT ![c] = n]
    BY <1>1, <1>7 DEF CooldownOver
  <2>2. /\ n \in Call /\ n.state = call[c].state /\ n.gen = call[c].gen
        /\ n.up = call[c].up /\ n.tries = call[c].tries
    BY <1>1 DEF Call
  <2> HIDE DEF n
  <2> QED BY <1>1, <1>7, <2>1, <2>2, OneCallCalm DEF CooldownOver, Calmer, Good
<1> QED BY <1>2, <1>3, <1>4, <1>5, <1>6, <1>7

\* vox_netmon_call_stalled() claims the call and arms the timer.
LEMMA StalledStep ==
    ASSUME GlobalInv, CallsInv, NEW c \in Calls, CallStalled(c)
    PROVE  CallsInv'
<1> DEFINE r == call[c]
           w == [r EXCEPT !.cooling = TRUE, !.rounds = r.rounds + 1]
           x == [w EXCEPT !.gen = g_nm.gen, !.tries = 0, !.due = FALSE]
           y == [x EXCEPT !.ice_restarted = FALSE, !.path_moved = FALSE, !.tried = {},
                          !.stall = TRUE]
           n == [y EXCEPT !.state = "STALLED", !.laddr = NoAddr]
<1>1. r \in Call /\ r.up /\ r.rounds + 1 \in 0 .. StallRounds /\ g_nm.gen \in Nat
         /\ 0 \in 0 .. MaxAttempts /\ call \in [Calls -> Call]
  BY HandoverAssumption DEF CallStalled, CallsInv, Call, GlobalInv, Netmon
<1>2. call' = [call EXCEPT ![c] = n]
  <2>1. n = Claimed(r)
    BY <1>1 DEF Claimed, Call
  <2> HIDE DEF n
  <2> QED BY <2>1 DEF CallStalled
<1>w. w \in Call /\ w.up
  BY <1>1 DEF Call
<1> HIDE DEF w
<1>3. x \in Call /\ x.gen = g_nm.gen /\ x.tries = 0 /\ x.up
  BY <1>1, <1>w DEF Call
<1> HIDE DEF x
<1>4. y \in Call /\ y.gen = g_nm.gen /\ y.tries = 0 /\ y.up
  BY <1>3 DEF Call
<1> HIDE DEF y
<1>5. n \in Call /\ n.gen = g_nm.gen /\ n.tries = 0 /\ n.up
  BY <1>4 DEF Call, MigStates
<1> HIDE DEF n
<1>6. g_nm' = [g_nm EXCEPT !.tmr_verify = TRUE] /\ movedGen' = movedGen
  BY DEF CallStalled
<1>7. g_nm'.gen = g_nm.gen /\ g_nm'.tmr_verify
  BY <1>6 DEF GlobalInv, Netmon
<1>8. call'[c] = n /\ \A d \in Calls \ {c} : call'[d] = call[d]
  BY <1>2 DEF CallsInv
<1>9. call' \in [Calls -> Call]
  BY <1>2, <1>5 DEF CallsInv
<1>10. Good(n) /\ n.gen <= g_nm.gen
  BY <1>1, <1>5, HandoverAssumption DEF Good
<1>11. NotStranded'
  BY <1>1, <1>5, <1>6, <1>8 DEF NotStranded, CallsInv
<1>12. MigrationDriven'
  BY <1>7 DEF MigrationDriven
<1>13. \A d \in Calls : /\ Good(call'[d]) /\ call'[d].gen <= g_nm'.gen
                        /\ ~call'[d].up => call'[d].state \notin Pending
  BY <1>5, <1>7, <1>8, <1>10 DEF CallsInv
<1> QED BY <1>6, <1>7, <1>9, <1>11, <1>12, <1>13 DEF CallsInv

\* Giving up ends every pending migration and begins none.
LEMMA ApplyFailedStep ==
    ASSUME GlobalInv, CallsInv, GlobalInv', ApplyFailed
    PROVE  CallsInv'
<1>1. \A c \in Calls : Good(call[c]) /\ call[c] \in Call
  BY DEF CallsInv
<1>2. ASSUME NEW r, Good(r) PROVE Calmer(r, r) /\ Calmer(FailPending(r), r)
  <2>1. Calmer(r, r)
    BY <1>2 DEF Calmer
  <2>2. r \in Call
    BY <1>2 DEF Good
  <2>3. Calmer(Fail(r), r)
    BY <2>2, FailGood, NoCallGood DEF Calmer, From
  <2> QED BY <2>1, <2>3 DEF FailPending
<1>3. call' = call \/ call' = [c \in Calls |-> FailPending(call[c])]
  BY DEF ApplyFailed
<1>4. \A c \in Calls : call'[c] \in Call /\ Calmer(call'[c], call[c])
  BY <1>1, <1>2, <1>3 DEF Calmer, Good
<1>5. call' \in [Calls -> Call]
  BY <1>3, <1>4 DEF CallsInv
<1>6. /\ movedGen' = movedGen /\ g_nm'.gen = g_nm.gen /\ g_nm'.started = g_nm.started
      /\ g_nm'.tmr_verify = g_nm.tmr_verify
  BY DEF ApplyFailed, Usable, GiveUp, GlobalInv, Netmon
<1> QED BY <1>4, <1>5, <1>6, CalmStep DEF GlobalInv

\* A re-bound transport: every live call is claimed for the new generation.
LEMMA ApplyDoneStep ==
    ASSUME GlobalInv, CallsInv, GlobalInv', ApplyDone
    PROVE  CallsInv'
<1> DEFINE gen == g_nm.gen + 1
<1>1. /\ g_nm.gen \in Nat /\ gen \in Nat /\ g_nm'.gen = gen
      /\ g_nm'.tmr_verify = (g_nm.tmr_verify \/ (/\ g_nm.reinvite_calls
                                                /\ Awaited(call', gen) # {}))
  BY DEF ApplyDone, Usable, GlobalInv, Netmon
<1>2. \A c \in Calls : /\ Good(call[c]) /\ call[c] \in Call
                       /\ call[c].gen \in Nat /\ call[c].gen <= g_nm.gen
                       /\ ~call[c].up => call[c].state \notin Pending
  BY DEF CallsInv, Call
<1>3. CASE ~g_nm.reinvite_calls
  <2>1. call' = call /\ movedGen' = movedGen
    BY <1>3 DEF ApplyDone
  <2>2. Awaited(call', gen) = {}
    BY <1>1, <1>2, <2>1 DEF Awaited
  <2>3. MigrationDriven'
    BY <1>1, <2>2 DEF MigrationDriven, Awaited
  <2>4. \A c \in Calls : call[c].gen <= gen
    BY <1>1, <1>2
  <2>5. movedGen' \in Nat /\ movedGen' <= gen
    BY <1>1, <2>1 DEF CallsInv
  <2>6. NotStranded'
    BY <2>1 DEF CallsInv, NotStranded
  <2> HIDE DEF gen
  <2>7. call' \in [Calls -> Call]
    BY <2>1 DEF CallsInv
  <2>8. \A c \in Calls : /\ Good(call'[c]) /\ call'[c].gen <= g_nm'.gen
                         /\ ~call'[c].up => call'[c].state \notin Pending
    BY <1>1, <1>2, <2>1, <2>4
  <2> QED BY <1>1, <2>3, <2>5, <2>6, <2>7, <2>8 DEF CallsInv
<1>4. CASE g_nm.reinvite_calls
  <2>1. call' \in Outcomes(Migrate) /\ movedGen' = gen
    BY <1>4 DEF ApplyDone
  <2>2. /\ DOMAIN call' = Calls /\ call' = [c \in Calls |-> call'[c]]
        /\ \A c \in Calls : call'[c] \in Migrate(c)
    BY <2>1 DEF Outcomes
  <2>3. ASSUME NEW c \in Calls
        PROVE  /\ call'[c] \in Call /\ Good(call'[c]) /\ call'[c].gen <= gen
               /\ ~call'[c].up => call'[c].state \notin Pending
               /\ call'[c].state \in Pending => call'[c].gen = gen
    <3>1. CASE ~call[c].up
      BY <1>1, <1>2, <2>2, <3>1 DEF Migrate
    <3>2. CASE call[c].up
      <4>1. call'[c] \in Start(c, call[c], gen)
        BY <2>2, <3>2 DEF Migrate
      <4>2. call[c].gen # gen
        BY <1>1, <1>2
      <4>3. From(call'[c], call[c], gen)
        BY <1>1, <1>2, <4>1, <4>2, StartGood DEF GlobalInv
      <4> HIDE DEF gen
      <4>4. CASE call'[c] = NoCall
        BY <1>1, <4>4, NoCallGood DEF Good
      <4>5. CASE call'[c].gen = gen /\ call'[c].up = call[c].up
        BY <1>1, <3>2, <4>3, <4>5 DEF From, Good
      <4> QED BY <4>3, <4>4, <4>5 DEF From
    <3> QED BY <3>1, <3>2
  <2> HIDE DEF gen
  <2>4. call' \in [Calls -> Call]
    BY <2>2, <2>3
  <2>5. MigrationDriven'
    BY <1>1, <1>4 DEF MigrationDriven, Awaited
  <2>6. NotStranded'
    BY <1>1, <2>1, <2>3 DEF NotStranded
  <2> QED BY <1>1, <2>1, <2>3, <2>4, <2>5, <2>6 DEF CallsInv
<1> QED BY <1>3, <1>4

\* The verify tick re-arms itself for whatever it leaves pending.
LEMMA VerifyStep ==
    ASSUME GlobalInv, CallsInv, GlobalInv', VerifyHandler
    PROVE  CallsInv'
<1>1. /\ g_nm.gen \in Nat /\ g_nm'.gen = g_nm.gen /\ movedGen' = movedGen
      /\ g_nm'.tmr_verify = (Awaited(call', g_nm.gen) # {})
  BY DEF VerifyHandler, GlobalInv, Netmon
<1>2. \A c \in Calls : /\ Good(call[c]) /\ call[c] \in Call
                       /\ call[c].gen \in Nat /\ call[c].gen <= g_nm.gen
                       /\ ~call[c].up => call[c].state \notin Pending
                       /\ call[c].state \in Pending => call[c].gen >= movedGen
  BY DEF CallsInv, Call, NotStranded
<1>3. /\ call' = [c \in Calls |-> call'[c]]
      /\ \A c \in Calls : call'[c] \in Verify(c, call[c])
  BY DEF VerifyHandler, Outcomes
<1>4. ASSUME NEW c \in Calls
      PROVE  /\ call'[c] \in Call /\ Good(call'[c]) /\ call'[c].gen <= g_nm.gen
             /\ ~call'[c].up => call'[c].state \notin Pending
             /\ call'[c].state \in Pending => call'[c].gen >= movedGen
  <2>1. /\ From(call'[c], call[c], call[c].gen)
        /\ call'[c].state \in Pending => call[c].state \in Pending
    BY <1>1, <1>2, <1>3, VerifyGood DEF GlobalInv
  <2> QED BY <1>1, <1>2, <2>1, NoCallGood DEF From, Good
<1>5. call' \in [Calls -> Call]
  BY <1>3, <1>4
<1>6. MigrationDriven'
  BY <1>1 DEF MigrationDriven, Awaited
<1>7. NotStranded'
  BY <1>1, <1>4 DEF NotStranded
<1> QED BY <1>1, <1>4, <1>5, <1>6, <1>7 DEF CallsInv

\* The steps that leave the calls alone.
LEMMA QuietStep ==
    ASSUME GlobalInv, CallsInv, GlobalInv', call' = call, movedGen' = movedGen,
           g_nm'.gen = g_nm.gen, g_nm'.started => g_nm.started,
           g_nm.tmr_verify => g_nm'.tmr_verify
    PROVE  CallsInv'
BY CalmStep DEF CallsInv, GlobalInv, Calmer

\* Every step keeps the calls good, claimed and driven.
LEMMA CallsStep == GlobalInv /\ CallsInv /\ GlobalInv' /\ [Next]_vars => CallsInv'
<1> SUFFICES ASSUME GlobalInv, CallsInv, GlobalInv', [Next]_vars PROVE CallsInv'
  OBVIOUS
<1>g. g_nm \in Netmon
  BY DEF GlobalInv
<1>1. CASE PollHandler
  BY <1>1, <1>g, QuietStep DEF PollHandler, Triggered, Netmon
<1>2. CASE NetworkChanged
  BY <1>2, <1>g, QuietStep DEF NetworkChanged, Triggered, Netmon
<1>3. CASE SettleMoving
  BY <1>3, <1>g, QuietStep DEF SettleMoving, Netmon
<1>4. CASE ApplyDown
  BY <1>4, <1>g, QuietStep DEF ApplyDown, Netmon
<1>5. CASE ApplyFailed
  BY <1>5, ApplyFailedStep
<1>6. CASE ApplyDone
  BY <1>6, ApplyDoneStep
<1>7. CASE VerifyHandler
  BY <1>7, VerifyStep
<1>8. ASSUME NEW c \in Calls, CallNew(c) \/ CallClosed(c) \/ CallSdpAnswer(c)
                                \/ GatherDone(c) \/ OfferDue(c) \/ CooldownOver(c)
      PROVE  CallsInv'
  BY <1>8, CallEvents
<1>9. ASSUME NEW c \in Calls, CallStalled(c) PROVE CallsInv'
  BY <1>9, StalledStep
<1>10. ASSUME NEW c \in Calls, CallRefreshable(c) PROVE CallsInv'
  BY <1>10, <1>g, QuietStep DEF CallRefreshable, Netmon
<1>11. CASE OsChange
  BY <1>11, QuietStep DEF OsChange
<1>12. CASE SetMonitor
  BY <1>12, <1>g, QuietStep DEF SetMonitor, Netmon
<1>13. CASE SetPolicy
  BY <1>13, <1>g, QuietStep DEF SetPolicy, Netmon
<1>14. CASE Stop
  BY <1>14, <1>g, QuietStep DEF Stop, Netmon
<1>15. CASE Restart
  <2>1. call' = [c \in Calls |-> NoCall] /\ movedGen' = 0 /\ g_nm'.gen = 0
    BY <1>15 DEF Restart, FreshNetmon
  <2>2. NoCall \in Call /\ Good(NoCall) /\ NoCall.gen = 0 /\ NoCall.state \notin Pending
    BY NoCallGood DEF Good
  <2>3. MigrationDriven'
    BY <2>1, <2>2 DEF MigrationDriven, Awaited
  <2>4. NotStranded'
    BY <2>1, <2>2 DEF NotStranded
  <2> QED BY <2>1, <2>2, <2>3, <2>4 DEF CallsInv
<1>16. CASE UNCHANGED vars
  BY <1>16, QuietStep DEF vars
<1> QED BY <1>1, <1>2, <1>3, <1>4, <1>5, <1>6, <1>7, <1>8, <1>9, <1>10, <1>11,
           <1>12, <1>13, <1>14, <1>15, <1>16 DEF Next

(***************************************************************************)
(* Theorems                                                                *)
(***************************************************************************)
IInv == GlobalInv /\ CallsInv

\* A fresh netmon has nothing announced, nothing armed and nothing pending.
LEMMA InitInv == Init => IInv
<1> SUFFICES ASSUME Init PROVE IInv
  OBVIOUS
<1>0. 0 \in 0 .. MaxAttempts - 1 /\ 0 \in 0 .. MaxChanges /\ Interval \in Nat /\ 0 \in Nat
  BY HandoverAssumption
<1>1. /\ FreshNetmon \in Netmon /\ FreshNetmon.gen = 0
      /\ FreshNetmon.announced = FALSE /\ FreshNetmon.tmr_settle = FALSE
      /\ FreshNetmon.down = ~Routable(os)
  BY ZenonT(60), <1>0 DEF FreshNetmon, Routable, Netmon
<1>2. NoCall \in Call /\ Good(NoCall) /\ NoCall.gen = 0 /\ NoCall.state \notin Pending
  BY NoCallGood DEF Good
<1>3. GlobalInv
  <2>1. HandoverDriven
    BY <1>1, Zenon DEF Init, HandoverDriven
  <2>2. RecoveryOwned /\ DownSeen
    BY <1>1, Zenon DEF Init, RecoveryOwned, DownSeen
  <2> QED BY <1>0, <1>1, <2>1, <2>2 DEF Init, GlobalInv
<1>4. CallsInv
  BY <1>1, <1>2 DEF Init, CallsInv, MigrationDriven, NotStranded, Awaited
<1> QED BY <1>3, <1>4 DEF IInv

\* The agreement of announcement, timers, accounts and link state, and the
\* generations and budgets of the calls, are together inductive.
THEOREM InductiveInvariant == Spec => []IInv
<1>1. IInv /\ [Next]_vars => IInv'
  BY GlobalStep, CallsStep DEF IInv
<1> QED BY InitInv, <1>1, PTL DEF Spec

\* Every field keeps its type; no migration and no reset exceeds its budget.
THEOREM TypeCorrect == Spec => []TypeOK
<1>1. IInv => TypeOK
  BY DEF IInv, GlobalInv, CallsInv, TypeOK
<1> QED BY InductiveInvariant, <1>1, PTL

\* An announced handover has its timer running and work to do.
THEOREM AnnouncedIsDriven == Spec => []HandoverDriven
<1>1. IInv => HandoverDriven
  BY DEF IInv, GlobalInv
<1> QED BY InductiveInvariant, <1>1, PTL

\* Accounts moved to RECONNECTING are netmon's job until handed on.
THEOREM AccountsAreDriven == Spec => []RecoveryOwned
<1>1. IInv => RecoveryOwned
  BY DEF IInv, GlobalInv
<1> QED BY InductiveInvariant, <1>1, PTL

\* NET_DOWN and NET_UP tell the truth between handovers.
THEOREM LinkStateTrue == Spec => []DownTruthful
<1>1. IInv => DownTruthful
  BY DEF IInv, GlobalInv, DownSeen, DownTruthful
<1> QED BY InductiveInvariant, <1>1, PTL

\* A call owed a verdict has the verify timer running.
THEOREM VerdictIsDriven == Spec => []MigrationDriven
<1>1. IInv => MigrationDriven
  BY DEF IInv, CallsInv
<1> QED BY InductiveInvariant, <1>1, PTL

\* No pending migration is left in a generation that calls were moved past.
THEOREM NoneStranded == Spec => []NotStranded
<1>1. IInv => NotStranded
  BY DEF IInv, CallsInv
<1> QED BY InductiveInvariant, <1>1, PTL

(***************************************************************************)
(* The budget of stall repairs                                             *)
(***************************************************************************)
\* Offers a repair round has.
Budget == Least(MaxAttempts, StallAttempts)

\* The rounds claimed so far pay for the repairs made, with s offers of the
\* latest round used.
Paid(r, s) == r.repairs + Budget <= r.rounds * Budget + s

\* RepairsBounded alone is not inductive: what bounds the offers of the round
\* under way is the count of tries, and that a call waiting to be offered again
\* has not used its round up.
Frugal(r) ==
    \E s \in 0 .. Budget :
        /\ Paid(r, s)
        /\ r.stall /\ r.state \in Pending => s <= r.tries
        /\ r.stall /\ r.state \in Pending \ {"SENT"} => s < Budget

\* A call that may be offered once more.
Affords(r) ==
    \E s \in 0 .. Budget : Paid(r, s) /\ (r.stall => s <= r.tries /\ s < Budget)

FrugalInv == \A c \in Calls : Frugal(call[c])

\* n has the repairs, the rounds and the cause of r.
SameBill(n, r) ==
    n.repairs = r.repairs /\ n.rounds = r.rounds /\ n.stall = r.stall

\* The budget of a round is a number.
LEMMA BudgetNat == Budget \in Nat /\ 0 < Budget
BY HandoverAssumption DEF Budget, Least

\* The arithmetic of the bill: leaving it alone, one more offer, one more round.
LEMMA PaidKept ==
    ASSUME NEW n, NEW r, n.repairs = r.repairs, n.rounds = r.rounds, r.repairs \in Nat,
           r.rounds \in Nat, NEW s \in Nat, NEW t \in Nat, s <= t, Paid(r, s)
    PROVE  Paid(n, t)
<1> DEFINE p == r.rounds * Budget
<1>1. p \in Nat
  BY BudgetNat
<1>2. r.repairs + Budget <= p + s
  BY DEF Paid
<1> HIDE DEF p
<1>3. r.repairs + Budget <= p + t
  BY <1>1, <1>2, BudgetNat
<1> QED BY <1>3 DEF Paid, p

\* One more offer is charged to the round.
LEMMA PaidOffer ==
    ASSUME NEW n, NEW r, n.repairs = r.repairs + 1, n.rounds = r.rounds,
           r.repairs \in Nat, r.rounds \in Nat, NEW s \in Nat, Paid(r, s)
    PROVE  Paid(n, s + 1)
<1> DEFINE p == r.rounds * Budget
<1>1. p \in Nat
  BY BudgetNat
<1>2. r.repairs + Budget <= p + s
  BY DEF Paid
<1> HIDE DEF p
<1>3. (r.repairs + 1) + Budget <= p + (s + 1)
  BY <1>1, <1>2, BudgetNat
<1> QED BY <1>3 DEF Paid, p

\* A new round brings its own budget.
LEMMA PaidRound ==
    ASSUME NEW n, NEW r, n.repairs = r.repairs, n.rounds = r.rounds + 1,
           r.repairs \in Nat, r.rounds \in Nat, NEW s \in 0 .. Budget, Paid(r, s)
    PROVE  Paid(n, 0)
<1> DEFINE p == r.rounds * Budget
<1>1. p \in Nat /\ (r.rounds + 1) * Budget = p + Budget
  BY BudgetNat
<1>2. r.repairs + Budget <= p + s
  BY DEF Paid
<1> HIDE DEF p
<1>3. r.repairs + Budget <= (p + Budget) + 0
  BY <1>1, <1>2, BudgetNat
<1> QED BY <1>1, <1>3 DEF Paid

\* A product grows with its factor.
LEMMA RoundsMonotone ==
    ASSUME NEW m \in Nat, NEW n \in Nat, m <= n
    PROVE  m * Budget <= n * Budget
BY BudgetNat

\* The invariant gives the bound the run checks.
LEMMA FrugalBounded ==
    ASSUME NEW r \in Call, Frugal(r)
    PROVE  r.repairs <= StallRounds * Least(MaxAttempts, StallAttempts)
<1>1. PICK s \in 0 .. Budget : Paid(r, s)
  BY DEF Frugal
<1> DEFINE p == r.rounds * Budget
           q == StallRounds * Budget
<1>2. r.repairs \in Nat /\ r.rounds \in Nat /\ r.rounds <= StallRounds
  BY HandoverAssumption DEF Call
<1>3. p \in Nat /\ q \in Nat /\ p <= q
  BY <1>2, BudgetNat, RoundsMonotone, HandoverAssumption
<1>4. r.repairs + Budget <= p + s
  BY <1>1 DEF Paid
<1> HIDE DEF p, q
<1>5. r.repairs <= q
  BY <1>2, <1>3, <1>4, BudgetNat
<1> QED BY <1>5 DEF q, Budget

\* A call that can afford an offer is frugal in every state.
LEMMA AffordsFrugal == ASSUME NEW r, Affords(r) PROVE Frugal(r)
BY DEF Affords, Frugal

\* Steps that leave the bill alone, and take no try back.
LEMMA AffordsKept ==
    ASSUME NEW r \in Call, NEW n, SameBill(n, r), n.tries \in Nat, r.tries <= n.tries,
           Affords(r)
    PROVE  Affords(n)
<1>1. PICK s \in 0 .. Budget : Paid(r, s) /\ (r.stall => s <= r.tries /\ s < Budget)
  BY DEF Affords
<1>2. r.repairs \in Nat /\ r.rounds \in Nat /\ r.tries \in Nat /\ s \in Nat
  BY <1>1, BudgetNat, HandoverAssumption DEF Call
<1>3. Paid(n, s)
  BY <1>1, <1>2, PaidKept DEF SameBill
<1>4. n.stall => s <= n.tries /\ s < Budget
  BY <1>1, <1>2, BudgetNat DEF SameBill
<1> QED BY <1>3, <1>4 DEF Affords

\* What ends a migration keeps the bill.
LEMMA FrugalKept ==
    ASSUME NEW r \in Call, NEW n, n.repairs = r.repairs, n.rounds = r.rounds,
           n.stall => n.state \notin Pending, Frugal(r)
    PROVE  Frugal(n)
<1>1. PICK s \in 0 .. Budget : Paid(r, s)
  BY DEF Frugal
<1>2. r.repairs \in Nat /\ r.rounds \in Nat /\ s \in Nat
  BY <1>1, BudgetNat, HandoverAssumption DEF Call
<1>3. Paid(n, s)
  BY <1>1, <1>2, PaidKept
<1> QED BY <1>3 DEF Frugal

\* Steps that touch neither the bill nor the migration.
LEMMA FrugalSame ==
    ASSUME NEW r \in Call, NEW n, SameBill(n, r), n.state = r.state,
           n.tries = r.tries, Frugal(r)
    PROVE  Frugal(n)
<1>1. PICK s \in 0 .. Budget :
        /\ Paid(r, s)
        /\ r.stall /\ r.state \in Pending => s <= r.tries
        /\ r.stall /\ r.state \in Pending \ {"SENT"} => s < Budget
  BY DEF Frugal
<1>2. r.repairs \in Nat /\ r.rounds \in Nat /\ s \in Nat
  BY <1>1, BudgetNat, HandoverAssumption DEF Call
<1>3. Paid(n, s)
  BY <1>1, <1>2, PaidKept DEF SameBill
<1> QED BY <1>1, <1>3 DEF Frugal, SameBill

\* An empty slot has no bill.
LEMMA NoCallFrugal == Frugal(NoCall)
<1>1. Paid(NoCall, Budget)
  <2>1. 0 * Budget = 0
    BY BudgetNat
  <2> QED BY <2>1, BudgetNat DEF Paid, NoCall
<1> QED BY <1>1, BudgetNat DEF Frugal, NoCall, Pending

\* laddr_remember() and next_laddr() leave the bill alone.
LEMMA AddressBill ==
    ASSUME NEW r \in Call
    PROVE  /\ SameBill(Remember(r), r)
           /\ \A n \in NextLaddr(r) : SameBill(n, r)
<1>1. SameBill(Remember(r), r)
  BY DEF Remember, SameBill, Call
<1>2. ASSUME NEW n \in NextLaddr(r) PROVE SameBill(n, r)
  <2>1. ASSUME NEW a, n = [r EXCEPT !.laddr = a] PROVE SameBill(n, r)
    BY <2>1 DEF SameBill, Call
  <2>2. ASSUME NEW a, n = [[r EXCEPT !.tried = {}] EXCEPT !.laddr = a]
        PROVE  SameBill(n, r)
    BY <2>2 DEF SameBill, Call
  <2>3. ASSUME n = [r EXCEPT !.tried = {}] PROVE SameBill(n, r)
    BY <2>3 DEF SameBill, Call
  <2> QED BY <1>2, <2>1, <2>2, <2>3 DEF NextLaddr
<1> QED BY <1>1, <1>2

\* fail_migration() and a verdict keep the bill.
LEMMA VerdictFrugal ==
    ASSUME NEW r \in Call, Frugal(r)
    PROVE  Frugal(Fail(r)) /\ Frugal(Done(r))
<1>1. Frugal(Done(r))
  <2>1. /\ Done(r).repairs = r.repairs /\ Done(r).rounds = r.rounds
        /\ Done(r).state \notin Pending
    BY DEF Done, Call, Pending
  <2> QED BY <2>1, FrugalKept
<1>2. Frugal(Fail(r))
  <2> DEFINE f == [r EXCEPT !.state = "FAILED", !.told = "FAILED"]
  <2>1. f.repairs = r.repairs /\ f.rounds = r.rounds /\ f.state \notin Pending
    BY DEF Call, Pending
  <2>2. Fail(r) = NoCall \/ Fail(r) = f
    BY DEF Fail
  <2> HIDE DEF f
  <2>3. Frugal(f)
    BY <2>1, FrugalKept
  <2> QED BY <2>2, <2>3, NoCallFrugal
<1> QED BY <1>1, <1>2

\* Just after the try was counted: the offer it is for is still affordable.
Counted(r) ==
    \E s \in 0 .. Budget : Paid(r, s) /\ (r.stall => s < r.tries /\ s < Budget)

\* A step that touches neither the bill nor the tries keeps it counted.
LEMMA CountedKept ==
    ASSUME NEW r \in Call, NEW n, SameBill(n, r), n.tries = r.tries, Counted(r)
    PROVE  Counted(n)
<1>1. PICK s \in 0 .. Budget : Paid(r, s) /\ (r.stall => s < r.tries /\ s < Budget)
  BY DEF Counted
<1>2. r.repairs \in Nat /\ r.rounds \in Nat /\ s \in Nat
  BY <1>1, BudgetNat, HandoverAssumption DEF Call
<1>3. Paid(n, s)
  BY <1>1, <1>2, PaidKept DEF SameBill
<1> QED BY <1>1, <1>3 DEF Counted, SameBill

\* A counted call can afford the try under way.
LEMMA CountedAffords == ASSUME NEW r \in Call, Counted(r) PROVE Affords(r)
<1>1. PICK s \in 0 .. Budget : Paid(r, s) /\ (r.stall => s < r.tries /\ s < Budget)
  BY DEF Counted
<1>2. r.tries \in Nat /\ s \in Nat
  BY <1>1, BudgetNat, HandoverAssumption DEF Call
<1> QED BY <1>1, <1>2 DEF Affords

\* An offer is charged to the round under way.
LEMMA SentFrugal ==
    ASSUME NEW r \in Call, Counted(r)
    PROVE  Frugal(Sent(r))
<1>1. PICK s \in 0 .. Budget : Paid(r, s) /\ (r.stall => s < r.tries /\ s < Budget)
  BY DEF Counted
<1>2. /\ r.repairs \in Nat /\ r.rounds \in Nat /\ r.tries \in Nat /\ s \in Nat
      /\ r.stall \in BOOLEAN
  BY <1>1, BudgetNat, HandoverAssumption DEF Call
<1>3. /\ Sent(r).rounds = r.rounds /\ Sent(r).stall = r.stall
      /\ Sent(r).tries = r.tries /\ Sent(r).state = "SENT"
      /\ Sent(r).repairs = IF r.stall THEN r.repairs + 1 ELSE r.repairs
  BY DEF Sent, Call
<1>4. CASE r.stall
  <2>1. Paid(Sent(r), s + 1)
    BY <1>1, <1>2, <1>3, <1>4, PaidOffer
  <2>2. s + 1 \in 0 .. Budget /\ s + 1 <= r.tries
    BY <1>1, <1>2, <1>4, BudgetNat
  <2> QED BY <1>3, <2>1, <2>2 DEF Frugal
<1>5. CASE ~r.stall
  <2>1. Paid(Sent(r), s)
    BY <1>1, <1>2, <1>3, <1>5, PaidKept
  <2> QED BY <1>3, <1>5, <2>1 DEF Frugal
<1> QED BY <1>4, <1>5

\* A plain re-INVITE is paid for.
LEMMA PlainOfferFrugal ==
    ASSUME NEW c, NEW r \in Call, Counted(r), NEW n \in PlainOffer(c, r)
    PROVE  Frugal(n)
<1> DEFINE o == [r EXCEPT !.sdp_laddr = r.laddr]
<1>1. o \in Call /\ SameBill(o, r) /\ o.tries = r.tries
  BY DEF Call, SameBill
<1>2. \/ n = Fail(o) \/ n = [o EXCEPT !.state = "DEFERRED"]
      \/ n = Sent(o) \/ n = Done(Sent(o))
  BY DEF PlainOffer
<1> HIDE DEF o
<1>3. Counted(o)
  BY <1>1, CountedKept
<1>4. Affords(o) /\ Frugal(o) /\ Frugal(Sent(o))
  BY <1>1, <1>3, CountedAffords, AffordsFrugal, SentFrugal
<1>5. CASE n = Fail(o)
  BY <1>1, <1>4, <1>5, VerdictFrugal
<1>6. CASE n = [o EXCEPT !.state = "DEFERRED"]
  <2>1. SameBill(n, o) /\ n.tries = o.tries /\ o.tries \in Nat
    BY <1>1, <1>6, HandoverAssumption DEF Call, SameBill
  <2>2. Affords(n)
    BY <1>1, <1>4, <2>1, AffordsKept
  <2> QED BY <2>2, AffordsFrugal
<1>7. CASE n = Done(Sent(o))
  <2>1. Sent(o) \in Call
    BY <1>1, SentGood
  <2> QED BY <1>4, <1>7, <2>1, VerdictFrugal
<1> QED BY <1>2, <1>4, <1>5, <1>6, <1>7

\* So is one with an ICE restart.
LEMMA IceOfferFrugal ==
    ASSUME NEW c, NEW r \in Call, Counted(r), NEW n \in IceOffer(c, r)
    PROVE  Frugal(n)
<1> DEFINE i == [r EXCEPT !.ice_restarted = TRUE]
           j == [i EXCEPT !.sdp_laddr = r.laddr, !.gathering = TRUE]
<1>1. /\ i \in Call /\ SameBill(i, r) /\ i.tries = r.tries
      /\ j \in Call /\ SameBill(j, r) /\ j.tries = r.tries
  BY DEF Call, SameBill
<1>2. n = Sent(i) \/ n = Sent(j) \/ n \in PlainOffer(c, r)
  BY DEF IceOffer
<1> HIDE DEF i, j
<1>3. Frugal(Sent(i)) /\ Frugal(Sent(j))
  BY <1>1, CountedKept, SentFrugal
<1> QED BY <1>2, <1>3, PlainOfferFrugal

\* send_migration() counts the try before it offers.
LEMMA OfferFrugal ==
    ASSUME NEW c, NEW r \in Call, r.tries < MaxAttempts, Affords(r), NEW n \in Offer(c, r)
    PROVE  Frugal(n)
<1> DEFINE u == [r EXCEPT !.tries = @ + 1]
<1>1. u \in Call /\ SameBill(u, r) /\ u.tries = r.tries + 1
  BY HandoverAssumption DEF Call, SameBill
<1>2. n \in IceOffer(c, Remember(u)) \/ n \in PlainOffer(c, Remember(u))
  BY DEF Offer
<1> HIDE DEF u
<1>3. Counted(u)
  <2>1. PICK s \in 0 .. Budget : Paid(r, s) /\ (r.stall => s <= r.tries /\ s < Budget)
    BY DEF Affords
  <2>2. r.repairs \in Nat /\ r.rounds \in Nat /\ r.tries \in Nat /\ s \in Nat
    BY <2>1, BudgetNat, HandoverAssumption DEF Call
  <2>3. Paid(u, s)
    BY <1>1, <2>1, <2>2, PaidKept DEF SameBill
  <2>4. u.stall => s < u.tries /\ s < Budget
    BY <1>1, <2>1, <2>2, BudgetNat DEF SameBill
  <2> QED BY <2>3, <2>4 DEF Counted
<1>4. Remember(u) \in Call /\ Counted(Remember(u))
  BY <1>1, <1>3, RememberGood, AddressBill, CountedKept
<1> QED BY <1>2, <1>4, IceOfferFrugal, PlainOfferFrugal

\* An attempt that is sent, deferred or given up leaves the bill in order.
LEMMA SendFrugal ==
    ASSUME NEW c, NEW r \in Call, r.tries < MaxAttempts, Affords(r), NEW n \in Send(c, r)
    PROVE  Frugal(n)
<1> DEFINE d == [r EXCEPT !.state = "DEFERRED", !.told = "DEFERRED"]
<1>1. SameBill(d, r) /\ d.tries = r.tries /\ r.tries \in Nat
  BY HandoverAssumption DEF SameBill, Call
<1>2. Defer(r) = r \/ Defer(r) = d
  BY DEF Defer
<1> HIDE DEF d
<1>3. Affords(d)
  BY <1>1, AffordsKept
<1>4. Frugal(Defer(r))
  BY <1>2, <1>3, AffordsFrugal
<1> QED BY <1>4, OfferFrugal DEF Send

\* So does a retry, with the address it takes.
LEMMA RetryFrugal ==
    ASSUME NEW c, NEW r \in Call, r.tries < MaxAttempts, Affords(r),
           known \in SUBSET Addrs, NEW n \in Retry(c, r)
    PROVE  Frugal(n)
<1> DEFINE q == Remember(r)
<1>0. r.tries \in Nat
  BY HandoverAssumption DEF Call
<1>1. q \in Call /\ q.tries = r.tries /\ Affords(q)
  BY <1>0, RememberGood, AddressBill, AffordsKept
<1>2. n \in Send(c, q) \/ \E m \in NextLaddr(q) : n \in Send(c, m)
  BY DEF Retry
<1> HIDE DEF q
<1>3. ASSUME NEW m \in NextLaddr(q)
      PROVE  m \in Call /\ m.tries = r.tries /\ Affords(m)
  BY <1>0, <1>1, NextLaddrGood, AddressBill, AffordsKept
<1> QED BY <1>1, <1>2, <1>3, SendFrugal

\* Claiming a call for a new generation ends its repair round.
LEMMA StampAffords ==
    ASSUME NEW r \in Call, NEW gen \in Nat, Frugal(r), r.gen = gen => Affords(r)
    PROVE  Affords(Stamp(r, gen))
<1>1. CASE r.gen = gen
  BY <1>1 DEF Stamp
<1>2. CASE r.gen # gen
  <2> DEFINE n == Stamp(r, gen)
  <2>1. n.repairs = r.repairs /\ n.rounds = r.rounds /\ n.stall = FALSE
    BY <1>2 DEF Stamp, Call
  <2> HIDE DEF n
  <2>2. PICK s \in 0 .. Budget : Paid(r, s)
    BY DEF Frugal
  <2>3. r.repairs \in Nat /\ r.rounds \in Nat /\ s \in Nat
    BY <2>2, BudgetNat, HandoverAssumption DEF Call
  <2>4. Paid(n, s)
    BY <2>1, <2>2, <2>3, PaidKept
  <2>5. Affords(n)
    BY <2>1, <2>4 DEF Affords
  <2> QED BY <2>5 DEF n
<1> QED BY <1>1, <1>2

\* A stamped call is of the generation, within its budget.
LEMMA StampGood ==
    ASSUME NEW r \in Call, NEW gen \in Nat, r.gen = gen => r.tries < MaxAttempts
    PROVE  Stamp(r, gen) \in Call /\ Stamp(r, gen).tries < MaxAttempts
<1>1. CASE r.gen = gen
  BY <1>1 DEF Stamp
<1>2. CASE r.gen # gen
  <2> DEFINE x == [r EXCEPT !.gen = gen, !.tries = 0, !.due = FALSE,
                            !.ice_restarted = FALSE]
             y == [x EXCEPT !.path_moved = FALSE, !.stall = FALSE, !.tried = {},
                            !.laddr = NoAddr]
  <2>1. 0 \in 0 .. MaxAttempts
    BY HandoverAssumption
  <2>2. x \in Call /\ x.tries = 0
    BY <2>1 DEF Call
  <2>3. Stamp(r, gen) = y
    BY <1>2 DEF Stamp, Call
  <2> HIDE DEF x
  <2>4. y \in Call /\ y.tries = x.tries
    BY ZenonT(60), <2>2 DEF Call
  <2> QED BY <2>2, <2>3, <2>4, HandoverAssumption
<1> QED BY <1>1, <1>2

\* start_migration()
LEMMA StartFrugal ==
    ASSUME NEW c, NEW r \in Call, NEW gen \in Nat, Frugal(r),
           r.gen = gen => r.tries < MaxAttempts /\ Affords(r),
           known \in SUBSET Addrs, os \in SUBSET Addrs, NEW n \in Start(c, r, gen)
    PROVE  Frugal(n)
<1> DEFINE s == Stamp(r, gen)
<1>1. s \in Call /\ s.tries < MaxAttempts /\ Affords(s) /\ s.tries \in Nat
  BY StampGood, StampAffords, HandoverAssumption DEF Call
<1> HIDE DEF s
<1>2. CASE n = WaitForAddr(s)
  <2> DEFINE w == [s EXCEPT !.state = "WAIT_ADDR", !.told = "DEFERRED"]
  <2>1. SameBill(w, s) /\ w.tries = s.tries
    BY <1>1 DEF SameBill, Call
  <2>2. n = s \/ n = w
    BY <1>2 DEF WaitForAddr
  <2> HIDE DEF w
  <2>3. Affords(w)
    BY <1>1, <2>1, AffordsKept
  <2> QED BY <1>1, <2>2, <2>3, AffordsFrugal
<1>3. ASSUME NEW m \in Sources(s)
      PROVE  m \in Call /\ m.tries = s.tries /\ Affords(m)
  <2>1. PICK a \in os : \/ m = [s EXCEPT !.laddr = a]
                        \/ m \in NextLaddr([s EXCEPT !.laddr = a])
    BY <1>3 DEF Sources
  <2> DEFINE x == [s EXCEPT !.laddr = a]
  <2>2. x \in Call /\ x.tries = s.tries /\ SameBill(x, s)
    BY <1>1 DEF Call, SameBill
  <2>3. m = x \/ m \in NextLaddr(x)
    BY <2>1
  <2> HIDE DEF x
  <2>4. Affords(x)
    BY <1>1, <2>2, AffordsKept
  <2>5. CASE m \in NextLaddr(x)
    BY <1>1, <2>2, <2>4, <2>5, NextLaddrGood, AddressBill, AffordsKept
  <2> QED BY <2>2, <2>3, <2>4, <2>5
<1>4. CASE \E m \in Sources(s) : n = [m EXCEPT !.state = "IDLE", !.laddr = s.laddr]
  <2>1. PICK m \in Sources(s) : n = [m EXCEPT !.state = "IDLE", !.laddr = s.laddr]
    BY <1>4
  <2>2. SameBill(n, m) /\ n.tries = m.tries
    BY <1>3, <2>1 DEF SameBill, Call
  <2>3. Affords(n)
    BY <1>1, <1>3, <2>2, AffordsKept
  <2> QED BY <2>3, AffordsFrugal
<1>5. CASE \E m \in Sources(s) :
              n \in Send(c, [m EXCEPT !.path_moved = @ \/ m.stall \/ m.laddr # m.sdp_laddr])
  <2>1. PICK m \in Sources(s) :
              n \in Send(c, [m EXCEPT !.path_moved = @ \/ m.stall \/ m.laddr # m.sdp_laddr])
    BY <1>5
  <2> DEFINE k == [m EXCEPT !.path_moved = @ \/ m.stall \/ m.laddr # m.sdp_laddr]
  <2>2. k \in Call /\ SameBill(k, m) /\ k.tries = m.tries
    BY <1>3 DEF Call, SameBill
  <2>3. n \in Send(c, k)
    BY <2>1
  <2> HIDE DEF k
  <2>4. Affords(k)
    BY <1>1, <1>3, <2>2, AffordsKept
  <2> QED BY <1>1, <1>3, <2>2, <2>3, <2>4, SendFrugal
<1> QED BY <1>2, <1>4, <1>5 DEF Start, s

\* A frugal call that is not SENT, or is with tries left, can afford an offer.
LEMMA PendingAffords ==
    ASSUME NEW r \in Call, Frugal(r), r.state \in Pending,
           r.state = "SENT" /\ r.stall => r.tries < Budget
    PROVE  Affords(r)
<1>1. PICK s \in 0 .. Budget :
        /\ Paid(r, s)
        /\ r.stall /\ r.state \in Pending => s <= r.tries
        /\ r.stall /\ r.state \in Pending \ {"SENT"} => s < Budget
  BY DEF Frugal
<1>2. r.tries \in Nat /\ s \in Nat
  BY <1>1, BudgetNat, HandoverAssumption DEF Call
<1> QED BY <1>1, <1>2, BudgetNat DEF Affords

\* The verify tick
LEMMA VerifyFrugal ==
    ASSUME NEW c, NEW r, Good(r), Frugal(r), g_nm.gen \in Nat,
           known \in SUBSET Addrs, os \in SUBSET Addrs, NEW n \in Verify(c, r)
    PROVE  Frugal(n)
<1> DEFINE t == [r EXCEPT !.tries = @ + 1]
<1>r. r \in Call
  BY DEF Good
<1>2. CASE r.gen = g_nm.gen /\ r.state = "STALLED"
  <2>1. n \in Start(c, r, g_nm.gen)
    BY <1>2 DEF Verify
  <2>2. Affords(r) /\ r.tries < MaxAttempts
    BY <1>2, <1>r, PendingAffords DEF Good, Pending
  <2> QED BY <2>1, <2>2, <1>r, StartFrugal
<1>t. r.state \in {"WAIT_ADDR", "DEFERRED"} =>
         /\ t \in Call /\ SameBill(t, r) /\ t.state = r.state
         /\ t.tries \in Nat /\ r.tries <= t.tries /\ Affords(t) /\ Frugal(t)
  <2> SUFFICES ASSUME r.state \in {"WAIT_ADDR", "DEFERRED"}
               PROVE  /\ t \in Call /\ SameBill(t, r) /\ t.state = r.state
                      /\ t.tries \in Nat /\ r.tries <= t.tries /\ Affords(t) /\ Frugal(t)
    OBVIOUS
  <2>1. /\ t \in Call /\ SameBill(t, r) /\ t.state = r.state
        /\ t.tries \in Nat /\ r.tries <= t.tries
    BY <1>r, HandoverAssumption DEF Good, Call, SameBill
  <2> HIDE DEF t
  <2>2. Affords(r)
    BY <1>r, PendingAffords DEF Pending
  <2>3. Affords(t)
    BY <1>r, <2>1, <2>2, AffordsKept
  <2> QED BY <2>1, <2>3, AffordsFrugal
<1>3. CASE r.gen = g_nm.gen /\ r.state = "WAIT_ADDR"
  <2>1. IF t.tries >= MaxAttempts THEN n = Fail(t) ELSE n \in Start(c, t, g_nm.gen)
    BY <1>3 DEF Verify
  <2> HIDE DEF t
  <2>2. CASE t.tries >= MaxAttempts
    BY <1>3, <1>t, <2>1, <2>2, VerdictFrugal
  <2>3. CASE ~(t.tries >= MaxAttempts)
    <3>1. t.tries < MaxAttempts
      BY <1>3, <1>t, <2>3, HandoverAssumption
    <3> QED BY <1>3, <1>t, <2>1, <2>3, <3>1, StartFrugal
  <2> QED BY <2>2, <2>3
<1>4. CASE r.gen = g_nm.gen /\ r.state = "DEFERRED"
  <2>1. n \in Offer(c, r) \/ n = Fail(t) \/ n = t
    BY <1>4 DEF Verify
  <2> HIDE DEF t
  <2>2. Affords(r) /\ r.tries < MaxAttempts
    BY <1>4, <1>r, PendingAffords DEF Good, Pending
  <2> QED BY <1>4, <1>t, <1>r, <2>1, <2>2, OfferFrugal, VerdictFrugal
<1>5. CASE r.gen = g_nm.gen /\ r.state = "SENT"
  <2>1. \/ n = r \/ n = Done(r) \/ n = Fail(r)
        \/ ~(r.tries >= MaxAttemptsFor(c, r)) /\ n \in Retry(c, r)
    BY <1>5 DEF Verify
  <2>2. CASE ~(r.tries >= MaxAttemptsFor(c, r)) /\ n \in Retry(c, r)
    <3>1. r.tries < MaxAttempts
      BY <1>r, <2>2, BudgetBounded, HandoverAssumption DEF Call
    <3>2. r.stall => r.tries < Budget
      BY <1>r, <2>2, BudgetNat, HandoverAssumption DEF Call, MaxAttemptsFor, Budget
    <3>3. Affords(r)
      BY <1>5, <1>r, <3>2, PendingAffords DEF Pending
    <3> QED BY <1>r, <2>2, <3>1, <3>3, RetryFrugal
  <2> QED BY <1>r, <2>1, <2>2, VerdictFrugal
<1>6. n = r \/ (r.gen = g_nm.gen /\ r.state \in Pending)
  BY DEF Verify, Pending
<1> QED BY <1>2, <1>3, <1>4, <1>5, <1>6 DEF Pending

\* A repair round is claimed and paid for.
LEMMA ClaimedFrugal ==
    ASSUME NEW r \in Call, Frugal(r)
    PROVE  Frugal(Claimed(r))
<1> DEFINE n == Claimed(r)
<1>1. n.repairs = r.repairs /\ n.rounds = r.rounds + 1 /\ n.tries = 0
  BY DEF Claimed, Call
<1> HIDE DEF n
<1>2. PICK s \in 0 .. Budget : Paid(r, s)
  BY DEF Frugal
<1>3. r.repairs \in Nat /\ r.rounds \in Nat
  BY HandoverAssumption DEF Call
<1>4. Paid(n, 0)
  BY <1>1, <1>2, <1>3, PaidRound
<1>5. Frugal(n)
  BY <1>1, <1>4, BudgetNat DEF Frugal
<1> QED BY <1>5 DEF n

\* Every step keeps every call's bill.
LEMMA FrugalStep == IInv /\ FrugalInv /\ [Next]_vars => FrugalInv'
<1> SUFFICES ASSUME IInv, FrugalInv, [Next]_vars PROVE FrugalInv'
  OBVIOUS
<1>1. /\ call \in [Calls -> Call] /\ g_nm.gen \in Nat
      /\ os \in SUBSET Addrs /\ known \in SUBSET Addrs
  BY DEF IInv, GlobalInv, CallsInv, Netmon
<1>2. \A c \in Calls : /\ call[c] \in Call /\ Good(call[c]) /\ Frugal(call[c])
                       /\ call[c].gen \in Nat /\ call[c].gen <= g_nm.gen
  BY <1>1 DEF IInv, CallsInv, FrugalInv, Call
<1>3. CASE call' = call
  BY <1>3 DEF FrugalInv
<1>4. CASE ApplyFailed
  <2>1. call' = call \/ call' = [c \in Calls |-> FailPending(call[c])]
    BY <1>4 DEF ApplyFailed
  <2> QED BY <1>2, <1>3, <2>1, VerdictFrugal DEF FrugalInv, FailPending
<1>5. CASE ApplyDone
  <2>1. CASE ~g_nm.reinvite_calls
    BY <1>3, <1>5, <2>1 DEF ApplyDone
  <2>2. CASE g_nm.reinvite_calls
    <3>1. \A c \in Calls : call'[c] \in Migrate(c)
      BY <1>5, <2>2 DEF ApplyDone, Outcomes
    <3>2. ASSUME NEW c \in Calls PROVE Frugal(call'[c])
      <4>1. call[c].gen # g_nm.gen + 1 /\ g_nm.gen + 1 \in Nat
        BY <1>1, <1>2
      <4>2. call'[c] = call[c] \/ call'[c] \in Start(c, call[c], g_nm.gen + 1)
        BY <3>1 DEF Migrate
      <4> QED BY <1>1, <1>2, <4>1, <4>2, StartFrugal
    <3> QED BY <3>2 DEF FrugalInv
  <2> QED BY <2>1, <2>2
<1>6. CASE VerifyHandler
  <2>1. \A c \in Calls : call'[c] \in Verify(c, call[c])
    BY <1>6 DEF VerifyHandler, Outcomes
  <2>2. ASSUME NEW c \in Calls PROVE Frugal(call'[c])
    BY <1>1, <1>2, <2>1, VerifyFrugal
  <2> QED BY <2>2 DEF FrugalInv
<1>7. ASSUME NEW c \in Calls, NEW n, Frugal(n), call' = [call EXCEPT ![c] = n]
      PROVE  FrugalInv'
  BY <1>1, <1>2, <1>7 DEF FrugalInv
<1>8. ASSUME NEW c \in Calls, CallNew(c) PROVE FrugalInv'
  <2>1. PICK a \in known :
          call' = [call EXCEPT ![c] = [NoCall EXCEPT !.up = TRUE, !.sdp_laddr = a]]
    BY <1>8 DEF CallNew
  <2> DEFINE n == [NoCall EXCEPT !.up = TRUE, !.sdp_laddr = a]
  <2>2. SameBill(n, NoCall) /\ n.state = NoCall.state /\ n.tries = NoCall.tries
    BY DEF SameBill, NoCall
  <2>3. call' = [call EXCEPT ![c] = n]
    BY <2>1
  <2> HIDE DEF n
  <2>4. Frugal(n)
    BY <2>2, NoCallFrugal, NoCallGood, FrugalSame DEF Good
  <2> QED BY <1>7, <2>3, <2>4
<1>9. ASSUME NEW c \in Calls, CallClosed(c) PROVE FrugalInv'
  BY <1>7, <1>9, NoCallFrugal DEF CallClosed
<1>10. ASSUME NEW c \in Calls, CallStalled(c) PROVE FrugalInv'
  BY <1>2, <1>7, <1>10, ClaimedFrugal DEF CallStalled
<1>11. ASSUME NEW c \in Calls, CallSdpAnswer(c) \/ GatherDone(c) \/ OfferDue(c)
                                 \/ CooldownOver(c)
       PROVE  FrugalInv'
  <2>1. ASSUME NEW n, call' = [call EXCEPT ![c] = n], SameBill(n, call[c]),
               n.state = call[c].state, n.tries = call[c].tries
        PROVE  FrugalInv'
    <3>1. Frugal(n)
      BY <1>2, <2>1, FrugalSame
    <3> QED BY <1>7, <2>1, <3>1
  <2>2. CASE CallSdpAnswer(c)
    <3> DEFINE n == [call[c] EXCEPT !.told = "ACCEPTED"]
    <3>1. call' = [call EXCEPT ![c] = n]
      BY <2>2, <1>1 DEF CallSdpAnswer
    <3>2. SameBill(n, call[c]) /\ n.state = call[c].state /\ n.tries = call[c].tries
      BY <1>2 DEF SameBill, Call
    <3> HIDE DEF n
    <3> QED BY <2>1, <3>1, <3>2
  <2>3. CASE GatherDone(c)
    <3> DEFINE n == [call[c] EXCEPT !.gathering = FALSE]
    <3>1. call' = [call EXCEPT ![c] = n]
      BY <2>3, <1>1 DEF GatherDone
    <3>2. SameBill(n, call[c]) /\ n.state = call[c].state /\ n.tries = call[c].tries
      BY <1>2 DEF SameBill, Call
    <3> HIDE DEF n
    <3> QED BY <2>1, <3>1, <3>2
  <2>4. CASE OfferDue(c)
    <3> DEFINE n == [call[c] EXCEPT !.due = FALSE]
    <3>1. call' = [call EXCEPT ![c] = n]
      BY <2>4, <1>1 DEF OfferDue
    <3>2. SameBill(n, call[c]) /\ n.state = call[c].state /\ n.tries = call[c].tries
      BY <1>2 DEF SameBill, Call
    <3> HIDE DEF n
    <3> QED BY <2>1, <3>1, <3>2
  <2>5. CASE CooldownOver(c)
    <3> DEFINE n == [call[c] EXCEPT !.cooling = FALSE]
    <3>1. call' = [call EXCEPT ![c] = n]
      BY <2>5, <1>1 DEF CooldownOver
    <3>2. SameBill(n, call[c]) /\ n.state = call[c].state /\ n.tries = call[c].tries
      BY <1>2 DEF SameBill, Call
    <3> HIDE DEF n
    <3> QED BY <2>1, <3>1, <3>2
  <2> QED BY <1>11, <2>2, <2>3, <2>4, <2>5
<1>12. CASE Restart
  BY <1>12, NoCallFrugal DEF Restart, FrugalInv
<1>13. CASE PollHandler \/ NetworkChanged \/ SettleMoving \/ ApplyDown \/ OsChange
              \/ SetMonitor \/ SetPolicy \/ Stop
  BY <1>3, <1>13 DEF PollHandler, NetworkChanged, SettleMoving, ApplyDown, OsChange,
     SetMonitor, SetPolicy, Stop
<1>14. ASSUME NEW c \in Calls, CallRefreshable(c) PROVE FrugalInv'
  BY <1>3, <1>14 DEF CallRefreshable
<1>15. CASE UNCHANGED vars
  BY <1>3, <1>15 DEF vars
<1> QED BY <1>4, <1>5, <1>6, <1>8, <1>9, <1>10, <1>11, <1>12, <1>13, <1>14, <1>15
        DEF Next

\* The bill of every call stays paid: FrugalInv with the generations and budgets
\* of IInv is inductive.
THEOREM RepairsArePaid == Spec => [](IInv /\ FrugalInv)
<1>1. Init => FrugalInv
  BY NoCallFrugal DEF Init, FrugalInv
<1> QED BY InductiveInvariant, FrugalStep, <1>1, PTL DEF Spec

\* A call whose media never returns gets at most StallRounds * Budget repair
\* offers, whatever handovers, answers and ICE restarts come in between.
THEOREM RepairsAreBounded == Spec => []RepairsBounded
<1>1. IInv /\ FrugalInv => RepairsBounded
  BY FrugalBounded DEF IInv, CallsInv, FrugalInv, RepairsBounded
<1> QED BY RepairsArePaid, <1>1, PTL
=============================================================================
