------------------------- MODULE RegistrationProofs -------------------------
(***************************************************************************)
(* Proofs about Registration, for every policy, delay, watchdog length and  *)
(* mix of API calls.  An account is good when it is well typed and its last *)
(* report agrees with a terminal state; every operator from account to      *)
(* account that Registration is built from has a lemma that says what it    *)
(* does to a good account and to its retry, and the actions follow by       *)
(* composition.                                                            *)
(***************************************************************************)
EXTENDS Registration, TLAPS

\* There is room for the attempt that an idle retry timer may still count.
Room(a) == ~a.retry_tmr => a.retry_attempt < AttemptBound

\* A running watchdog has not timed out.
Ticking(a) == a.reg_watch_tmr => WatchTicks = 0 \/ a.reg_watch_elapsed < WatchTicks

Sound(a) == a \in AcctType /\ Room(a) /\ Ticking(a)

Terminal == {"REGISTERED", "FAILED"}

\* The last report agrees with a terminal state.
Faithful(a) == a.reg_state \in Terminal => a.told.state = a.reg_state

Good(a) == Sound(a) /\ Faithful(a)

\* What a step from a to b does to the retry and to the watchdog.
Same(a, b) == b.retry_attempt = a.retry_attempt /\ b.retry_tmr = a.retry_tmr
Armed(a, b) == ~a.retry_tmr /\ b.retry_tmr /\ b.retry_attempt = a.retry_attempt + 1
Kept(a, b) ==
    b.reg_watch_tmr = a.reg_watch_tmr /\ b.reg_watch_elapsed = a.reg_watch_elapsed
Alike(a, b) ==
    Same(a, b) /\ Kept(a, b) /\ b.reg_state = a.reg_state /\ b.told = a.told

USE DEF Terminal

\* A step on fields that neither the retry, the watchdog nor the report look at
\* keeps an account sound and its report faithful.
LEMMA AlikeLemma ==
    ASSUME NEW a, Sound(a), NEW b \in AcctType, Alike(a, b)
    PROVE  Sound(b) /\ (Faithful(a) => Faithful(b)) /\ Same(a, b)
BY DEF Good, Sound, Room, Ticking, Faithful, Alike, Kept, Same

\* What RegistrationAssumption says of the bounds.
LEMMA ZeroFacts ==
    /\ AttemptBound \in Nat \ {0}
    /\ 0 \in Attempts /\ 0 \in DelayOrNone /\ 0 \in 0 .. WatchTicks
    /\ Attempts \subseteq Nat
    /\ \A n \in Attempts : n < AttemptBound => n + 1 \in Attempts
    /\ \A p \in Policies : p \in Nat /\ p < AttemptBound
<1>1. AttemptBound \in Nat \ {0}
  <2>1. PICK p \in Policies : TRUE
    BY RegistrationAssumption
  <2>2. p \in 0 .. AttemptBound - 1
    BY RegistrationAssumption
  <2> QED BY <2>2, RegistrationAssumption
<1>2. \A p \in Policies : p \in Nat /\ p < AttemptBound
  BY <1>1, RegistrationAssumption
<1>3. 0 \in 0 .. WatchTicks
  BY RegistrationAssumption
<1> QED BY <1>1, <1>2, <1>3 DEF Attempts, DelayOrNone

\* vox_account_reg_ev_prepare() leaves the timers alone, and a report of the
\* state the account is in makes it faithful, suppressed or not.
LEMMA EmitLemma ==
    ASSUME NEW a, Sound(a), NEW state \in RegStates, NEW error \in RegErrors,
           a.reg_state \in Terminal => state = a.reg_state
    PROVE  LET b == Emit(a, state, error)
           IN  Good(b) /\ Same(a, b) /\ b.reg_state = a.reg_state
<1> DEFINE b == Emit(a, state, error)
           sig == Signature(a, error)
           t1 == Told(state, a.retry_attempt, a.retry_delay_ms)
           t2 == Told(state, a.retry_attempt, 0)
<1>t. /\ a.retry_attempt \in Attempts /\ a.retry_delay_ms \in DelayOrNone
      /\ a \in AcctType
  BY DEF Sound, AcctType
<1>s. /\ sig \in [error : RegErrors \cup {"none"}, attempt : Attempts, delay : DelayOrNone]
      /\ NoSig \in [error : RegErrors \cup {"none"}, attempt : Attempts, delay : DelayOrNone]
      /\ t1 \in [state : RegStates, attempt : Attempts, delay : DelayOrNone]
      /\ t2 \in [state : RegStates, attempt : Attempts, delay : DelayOrNone]
      /\ t1.state = state /\ t2.state = state
  BY <1>t, ZeroFacts DEF Signature, NoSig, Told
<1>1. CASE state = "RECONNECTING" /\ a.last_rc = sig
  <2>1. b = a BY <1>1 DEF Emit
  <2> QED BY <1>1, <2>1 DEF Good, Sound, Faithful, Same
<1>2. CASE state = "RECONNECTING" /\ a.last_rc # sig
  <2>1. b = [a EXCEPT !.last_rc = sig, !.told = t1] BY <1>2 DEF Emit
  <2> HIDE DEF b, sig, t1
  <2>2. b \in AcctType
    BY <1>t, <1>s, <2>1 DEF AcctType
  <2>3. /\ b.told.state = state /\ b.reg_state = a.reg_state
        /\ Same(a, b) /\ Kept(a, b)
    BY <1>t, <1>s, <2>1 DEF AcctType, Same, Kept
  <2>4. Good(b)
    BY <2>2, <2>3 DEF Good, Sound, Room, Ticking, Faithful, Same, Kept
  <2> QED BY <2>3, <2>4 DEF b
<1>3. CASE state # "RECONNECTING"
  <2>1. b = [a EXCEPT !.last_rc = NoSig, !.retry_delay_ms = 0, !.told = t2]
    BY <1>3, <1>t DEF Emit, ReconnectReset, AcctType
  <2>2. 0 \in DelayOrNone
    BY DEF DelayOrNone
  <2> HIDE DEF t2
  <2> HIDE DEF b
  <2>3. b \in AcctType
    BY <1>t, <1>s, <2>1, <2>2 DEF AcctType
  <2>4. /\ b.told.state = state /\ b.reg_state = a.reg_state
        /\ Same(a, b) /\ Kept(a, b)
    BY <1>t, <1>s, <2>1 DEF AcctType, Same, Kept
  <2>5. Good(b)
    BY <2>3, <2>4 DEF Good, Sound, Room, Ticking, Faithful, Same, Kept
  <2> QED BY <2>4, <2>5 DEF b
<1> QED BY <1>1, <1>2, <1>3

\* vox_account_schedule_retry() counts an attempt exactly when it arms the timer,
\* and only an exhausted budget takes the account out of RECONNECTING.
LEMMA ScheduleLemma ==
    ASSUME NEW a, Sound(a), NEW d \in Delays
    PROVE  LET b == ScheduleRetry(a, d)
           IN  /\ Sound(b) /\ (Faithful(a) => Faithful(b))
               /\ Same(a, b) \/ Armed(a, b)
               /\ \/ b.reg_state \in {a.reg_state, "RECONNECTING"}
                  \/ a.reg_state = "RECONNECTING" /\ ~a.retry_tmr /\ ~RetryBudgetLeft(a)
<1>1. CASE a.retry_tmr
  BY <1>1 DEF ScheduleRetry, Same
<1>2. CASE ~a.retry_tmr /\ ~RetryBudgetLeft(a) /\ a.reg_state = "RECONNECTING"
  <2> DEFINE b == [a EXCEPT !.reconnecting = FALSE, !.reg_state = "FAILED"]
  <2>1. Sound(b) /\ b.reg_state = "FAILED" /\ Same(a, b)
    BY <1>2 DEF Sound, Room, Ticking, AcctType, RegStates, Same
  <2>2. a.reg_error \in RegErrors
    BY DEF Sound, AcctType
  <2> HIDE DEF b
  <2>3. Good(Emit(b, "FAILED", a.reg_error)) /\ Same(b, Emit(b, "FAILED", a.reg_error))
    BY <2>1, <2>2, EmitLemma DEF RegStates
  <2>4. ScheduleRetry(a, d) = Emit(b, "FAILED", a.reg_error)
    BY <1>2 DEF ScheduleRetry, b
  <2> QED BY <1>2, <2>1, <2>3, <2>4 DEF Same, Good
<1>3. CASE ~a.retry_tmr /\ ~RetryBudgetLeft(a) /\ a.reg_state # "RECONNECTING"
  <2> DEFINE b == [a EXCEPT !.reconnecting = FALSE]
  <2>1. ScheduleRetry(a, d) = b
    BY <1>3 DEF ScheduleRetry
  <2>2. b \in AcctType /\ Alike(a, b)
    BY DEF Sound, AcctType, Alike, Kept, Same
  <2> HIDE DEF b
  <2> QED BY <2>1, <2>2, AlikeLemma DEF Alike, Kept
<1>4. CASE ~a.retry_tmr /\ RetryBudgetLeft(a)
  <2> DEFINE b == [a EXCEPT !.retry_attempt = @ + 1, !.retry_delay_ms = d,
                            !.reconnecting = TRUE, !.reg_state = "RECONNECTING",
                            !.retry_tmr = TRUE]
  <2>1. a.retry_attempt \in Nat /\ a.retry_attempt + 1 \in Attempts
    BY <1>4, ZeroFacts DEF Sound, Room, Ticking, AcctType
  <2>2. /\ Sound(b) /\ b.reg_state = "RECONNECTING" /\ Armed(a, b)
        /\ a.reg_error \in RegErrors
    BY <1>4, <2>1 DEF Sound, Room, Ticking, AcctType, RegStates, Armed, DelayOrNone
  <2>3. ScheduleRetry(a, d) = Emit(b, "RECONNECTING", a.reg_error)
    BY <1>4 DEF ScheduleRetry
  <2> HIDE DEF b
  <2>4. /\ Good(ScheduleRetry(a, d)) /\ Same(b, ScheduleRetry(a, d))
        /\ ScheduleRetry(a, d).reg_state = "RECONNECTING"
    BY <2>2, <2>3, EmitLemma DEF RegStates
  <2> QED BY <2>2, <2>4 DEF Same, Armed, Good
<1> QED BY <1>1, <1>2, <1>3, <1>4

\* The same for an event posted without vox_account_reg_ev_prepare().
LEMMA EmitRawLemma ==
    ASSUME NEW a, Sound(a), NEW state \in RegStates,
           a.reg_state \in Terminal => state = a.reg_state
    PROVE  Good(EmitRaw(a, state)) /\ Same(a, EmitRaw(a, state))
<1> DEFINE t == Told(state, 0, 0)
<1>1. t \in [state : RegStates, attempt : Attempts, delay : DelayOrNone] /\ t.state = state
  BY ZeroFacts DEF Told
<1>2. EmitRaw(a, state) = [a EXCEPT !.told = t]
  BY DEF EmitRaw
<1> HIDE DEF t
<1> QED BY <1>1, <1>2 DEF Good, Sound, Room, Ticking, Faithful, Same, AcctType

\* ua_register() and the REGISTERING event it emits leave the retry alone.
LEMMA UaRegisterLemma ==
    ASSUME NEW a, Good(a), NEW vanished \in BOOLEAN
    PROVE  Good(UaRegister(a, vanished)) /\ Same(a, UaRegister(a, vanished))
<1> DEFINE b == [[a EXCEPT !.ua = "sent"] EXCEPT !.reg_state = "RECONNECTING"]
           c == [[a EXCEPT !.ua = "sent"] EXCEPT !.reg_state = "REGISTERING"]
<1>1. /\ Sound(b) /\ Same(a, b) /\ b.reg_state = "RECONNECTING"
      /\ Sound(c) /\ Same(a, c) /\ c.reg_state = "REGISTERING"
      /\ [a EXCEPT !.ua = "sent"].reg_error \in RegErrors
  BY DEF Good, Sound, Room, Ticking, Same, AcctType, RegStates
<1>2. \/ UaRegister(a, vanished) = a
      \/ UaRegister(a, vanished) = Emit(b, "RECONNECTING", [a EXCEPT !.ua = "sent"].reg_error)
      \/ UaRegister(a, vanished) = EmitRaw(c, "REGISTERING")
  BY DEF UaRegister, OnRegistering
<1> HIDE DEF b, c
<1>3. \A e \in RegErrors : Good(Emit(b, "RECONNECTING", e)) /\ Same(b, Emit(b, "RECONNECTING", e))
  BY <1>1, EmitLemma DEF RegStates
<1>4. Good(EmitRaw(c, "REGISTERING")) /\ Same(c, EmitRaw(c, "REGISTERING"))
  BY <1>1, EmitRawLemma DEF RegStates
<1> QED BY <1>1, <1>2, <1>3, <1>4 DEF Same

\* vox_account_keepalive_arm() only arms the probe.
LEMMA ArmLemma ==
    ASSUME NEW a, Sound(a)
    PROVE  Sound(KeepaliveArm(a)) /\ Alike(a, KeepaliveArm(a))
<1> DEFINE b == [a EXCEPT !.ka_tmr = TRUE]
<1>1. KeepaliveArm(a) = a \/ KeepaliveArm(a) = b
  BY DEF KeepaliveArm
<1>2. b \in AcctType /\ Alike(a, b)
  BY DEF Sound, AcctType, Alike, Kept, Same
<1> HIDE DEF b
<1> QED BY <1>1, <1>2, AlikeLemma DEF Alike, Kept, Same

\* vox_account_watch_registration() starts the watchdog over.
LEMMA WatchLemma ==
    ASSUME NEW a, Good(a)
    PROVE  Good(WatchRegistration(a)) /\ Same(a, WatchRegistration(a))
<1> DEFINE b == WatchRegistration(a)
<1>1. /\ b \in AcctType /\ Same(a, b) /\ b.reg_watch_elapsed = 0
      /\ b.reg_state = a.reg_state /\ b.told = a.told
  BY ZeroFacts DEF WatchRegistration, Good, Sound, AcctType, Same
<1> HIDE DEF b
<1>2. WatchTicks \in Nat
  BY RegistrationAssumption
<1>3. Good(b) /\ Same(a, b)
  BY <1>1, <1>2 DEF Good, Sound, Room, Ticking, Faithful, Same
<1> QED BY <1>3 DEF b

\* srv_advance() and vox_account_srv_resolve() only touch the SRV list.
LEMMA SrvLemma ==
    ASSUME NEW a, Good(a)
    PROVE  /\ Good(SrvAdvance(a)) /\ Same(a, SrvAdvance(a))
           /\ Good(SrvResolve(a)) /\ Same(a, SrvResolve(a))
<1>1. Good(SrvAdvance(a)) /\ Same(a, SrvAdvance(a))
  <2>1. CASE a.srv_count < 2
    BY <2>1 DEF SrvAdvance, Same
  <2>2. CASE ~(a.srv_count < 2)
    <3> DEFINE n == (a.srv_idx + 1) % a.srv_count
    <3>1. /\ a.srv_idx \in Nat /\ a.srv_count \in Nat \ {0}
          /\ a.srv_count \in 0 .. SrvTargets
      BY <2>2, RegistrationAssumption DEF Good, Sound, AcctType
    <3>2. n \in 0 .. SrvTargets
      <4>1. n \in Nat /\ n < a.srv_count
        BY <3>1
      <4> HIDE DEF n
      <4> QED BY <3>1, <4>1, RegistrationAssumption
    <3> HIDE DEF n
    <3>3. SrvAdvance(a) = [a EXCEPT !.srv_idx = n]
      BY <2>2 DEF SrvAdvance, n
    <3>4. SrvAdvance(a) \in AcctType /\ Alike(a, SrvAdvance(a))
      BY <3>2, <3>3 DEF Good, Sound, AcctType, Alike, Kept, Same
    <3> QED BY <3>4, AlikeLemma DEF Good
  <2> QED BY <2>1, <2>2
<1>2. Good(SrvResolve(a)) /\ Same(a, SrvResolve(a))
  <2> DEFINE b == [a EXCEPT !.srv_tried = TRUE, !.srv_pending = TRUE]
  <2>1. SrvResolve(a) = a \/ SrvResolve(a) = b
    BY DEF SrvResolve
  <2>2. b \in AcctType /\ Alike(a, b)
    BY DEF Good, Sound, AcctType, Alike, Kept, Same
  <2> HIDE DEF b
  <2> QED BY <2>1, <2>2, AlikeLemma DEF Good, Same
<1> QED BY <1>1, <1>2

\* keepalive_handler() does not report and leaves the retry alone.
LEMMA ProbeLemma ==
    ASSUME NEW a, Good(a), NEW busy \in BOOLEAN
    PROVE  Good(KeepaliveHandler(a, busy)) /\ Same(a, KeepaliveHandler(a, busy))
<1> DEFINE b == [a EXCEPT !.ka_tmr = FALSE]
           c == [b EXCEPT !.ka_in_flight = TRUE]
<1>1. b \in AcctType /\ Alike(a, b)
  BY DEF Good, Sound, AcctType, Alike, Kept, Same
<1>2. c \in AcctType /\ Alike(a, c)
  BY DEF Good, Sound, AcctType, Alike, Kept, Same
<1>3. KeepaliveHandler(a, busy) \in {b, KeepaliveArm(b), c}
  BY DEF KeepaliveHandler
<1> HIDE DEF b, c
<1>4. Good(b) /\ Same(a, b) /\ Good(c) /\ Same(a, c)
  BY <1>1, <1>2, AlikeLemma DEF Good
<1>5. Good(KeepaliveArm(b)) /\ Same(a, KeepaliveArm(b))
  BY <1>4, ArmLemma DEF Good, Faithful, Alike, Kept, Same
<1> QED BY <1>3, <1>4, <1>5

\* vox_account_reg_fail_state() says RECONNECTING only when a retry is armed or
\* the budget allows one.
LEMMA FailStateLemma ==
    ASSUME NEW a, Sound(a), NEW error \in RegErrors
    PROVE  LET b == RegFailState(a, error)
           IN  /\ Sound(b) /\ Same(a, b) /\ b.reg_state \in {"RECONNECTING", "FAILED"}
               /\ b.reg_state = "RECONNECTING" => b.retry_tmr \/ RetryBudgetLeft(b)
<1> DEFINE w == /\ a.reg_wanted
                /\ error # "AUTH"
                /\ a.retry_tmr \/ RetryBudgetLeft(a)
<1>1. w \in BOOLEAN OBVIOUS
<1>2. RegFailState(a, error) = [a EXCEPT !.reconnecting = w,
             !.reg_state = IF w THEN "RECONNECTING" ELSE "FAILED"]
  BY DEF RegFailState
<1>3. w => a.retry_tmr \/ RetryBudgetLeft(a) OBVIOUS
<1> HIDE DEF w
<1> QED BY ZenonT(60), <1>1, <1>2, <1>3 DEF Sound, Room, Ticking, Same, AcctType, RegStates, RetryBudgetLeft

\* Back up: the account is REGISTERED and says so.
LEMMA RecoveredLemma ==
    ASSUME NEW a, Sound(a), a.reg_state = "REGISTERED"
    PROVE  LET b == Emit(KeepaliveArm(a), "REGISTERED", "OK")
           IN  Good(b) /\ Same(a, b)
<1> DEFINE c == KeepaliveArm(a)
<1>1. Sound(c) /\ Same(a, c) /\ c.reg_state = "REGISTERED"
  BY ArmLemma DEF Alike, Kept
<1> HIDE DEF c
<1>2. Good(Emit(c, "REGISTERED", "OK")) /\ Same(c, Emit(c, "REGISTERED", "OK"))
  BY <1>1, EmitLemma DEF RegStates, RegErrors
<1> QED BY <1>1, <1>2 DEF Same, c

\* BEVENT_REGISTER_OK ends the outage and says so.
LEMMA OkLemma ==
    ASSUME NEW a, Good(a)
    PROVE  Good(OnRegisterOk(a)) /\ OnRegisterOk(a).retry_attempt = 0
<1> DEFINE b == [Recovered(a) EXCEPT !.ka_failed = FALSE, !.reg_error = "OK", !.ua = "ok"]
<1>1. b \in AcctType /\ b.reg_state = "REGISTERED" /\ b.retry_attempt = 0 /\ Ticking(b)
  BY ZenonT(60), ZeroFacts DEF Good, Sound, Ticking, AcctType, Recovered, RegStates, RegErrors
<1>2. OnRegisterOk(a) = Emit(KeepaliveArm(b), "REGISTERED", "OK")
  BY DEF OnRegisterOk
<1> HIDE DEF b
<1>3. Sound(b)
  BY <1>1, ZeroFacts DEF Sound, Room
<1> QED BY <1>1, <1>2, <1>3, RecoveredLemma DEF Same

\* The watchdog's synthesised REGISTERED does the same.
LEMMA SynthesiseLemma ==
    ASSUME NEW a, Good(a)
    PROVE  Good(WatchSynthesise(a)) /\ WatchSynthesise(a).retry_attempt = 0
<1> DEFINE b == Recovered(a)
<1>1. b \in AcctType /\ b.reg_state = "REGISTERED" /\ b.retry_attempt = 0 /\ Ticking(b)
  BY ZeroFacts DEF Good, Sound, Ticking, AcctType, Recovered, RegStates
<1>2. WatchSynthesise(a) = Emit(KeepaliveArm(b), "REGISTERED", "OK")
  BY DEF WatchSynthesise
<1> HIDE DEF b
<1>3. Sound(b)
  BY <1>1, ZeroFacts DEF Sound, Room
<1> QED BY <1>1, <1>2, <1>3, RecoveredLemma DEF Same

\* BEVENT_REGISTER_FAIL, whose report comes after the retry was scheduled, still
\* ends with a faithful report.
LEMMA FailLemma ==
    ASSUME NEW a, Good(a), NEW error \in RegErrors, NEW d \in Delays
    PROVE  LET b == OnRegisterFail(a, error, d)
           IN  Good(b) /\ (Same(a, b) \/ Armed(a, b))
<1> DEFINE f == RegFailState(a, error)
           b == [f EXCEPT !.reg_error = error, !.ka_tmr = FALSE, !.ua = "fail"]
           c == IF error = "AUTH" THEN b ELSE ScheduleRetry(b, d)
<1>1. /\ Sound(f) /\ Same(a, f) /\ f.reg_state \in {"RECONNECTING", "FAILED"}
      /\ f.reg_state = "RECONNECTING" => f.retry_tmr \/ RetryBudgetLeft(f)
  BY FailStateLemma DEF Good
<1>2. OnRegisterFail(a, error, d) = Emit(c, b.reg_state, error)
  BY DEF OnRegisterFail
<1> HIDE DEF f
<1>3. b \in AcctType /\ Alike(f, b) /\ (RetryBudgetLeft(b) <=> RetryBudgetLeft(f))
  BY <1>1 DEF Sound, AcctType, Alike, Kept, Same, RetryBudgetLeft
<1> HIDE DEF b
<1>4. /\ Sound(b) /\ Same(a, b) /\ b.reg_state \in {"RECONNECTING", "FAILED"}
      /\ b.reg_state = "RECONNECTING" => b.retry_tmr \/ RetryBudgetLeft(b)
  BY <1>1, <1>3, AlikeLemma DEF Alike, Kept, Same
<1>5. /\ Sound(c) /\ (Same(a, c) \/ Armed(a, c))
      /\ c.reg_state \in Terminal => b.reg_state = c.reg_state
  BY <1>4, ScheduleLemma DEF Same, Armed
<1> HIDE DEF c
<1>6. Good(Emit(c, b.reg_state, error)) /\ Same(c, Emit(c, b.reg_state, error))
  BY <1>4, <1>5, EmitLemma DEF RegStates
<1> QED BY <1>2, <1>5, <1>6 DEF Same, Armed

\* A failure reported first and retried next: the watchdog's and the probe's.
LEMMA ReportThenRetry ==
    ASSUME NEW a, Sound(a), NEW error \in RegErrors, NEW d \in Delays
    PROVE  LET b == RegFailState(a, error)
               c == ScheduleRetry(Emit(b, b.reg_state, error), d)
           IN  Good(c) /\ (Same(a, c) \/ Armed(a, c))
<1> DEFINE b == RegFailState(a, error)
           e == Emit(b, b.reg_state, error)
           c == ScheduleRetry(e, d)
<1>1. Sound(b) /\ Same(a, b) /\ b.reg_state \in RegStates
  BY FailStateLemma DEF RegStates
<1> HIDE DEF b
<1>2. Good(e) /\ Same(b, e)
  BY <1>1, EmitLemma
<1> HIDE DEF e
<1>3. Good(c) /\ (Same(e, c) \/ Armed(e, c))
  BY <1>2, ScheduleLemma DEF Good
<1> HIDE DEF c
<1>4. Good(c) /\ (Same(a, c) \/ Armed(a, c))
  BY <1>1, <1>2, <1>3 DEF Same, Armed
<1> QED BY <1>4 DEF b, e, c

-----------------------------------------------------------------------------
\* How a step may change the retry timer and the attempt counter.
Counted(a, b) ==
    \/ b.retry_attempt = 0
    \/ Same(a, b)
    \/ Armed(a, b)
    \/ a.retry_tmr /\ ~b.retry_tmr /\ b.retry_attempt = a.retry_attempt

\* The inductive invariant.
IInv == TypeOK /\ TerminalTold /\ AttemptsSent /\ Room(acct) /\ Ticking(acct)

\* The invariant, seen as a fact about the account.
LEMMA IInvGood == IInv => Good(acct)
BY DEF IInv, TypeOK, TerminalTold, Good, Sound, Faithful

\* However the retry changes, the attempts stay equal to the retries sent and the
\* one armed.
LEMMA CountLemma ==
    ASSUME IInv, Good(acct'), Counted(acct, acct'), CountFired
    PROVE  fired' \in Attempts /\ AttemptsSent'
<1>1. /\ acct.retry_attempt \in Attempts /\ acct'.retry_attempt \in Attempts
      /\ acct.retry_tmr \in BOOLEAN /\ acct'.retry_tmr \in BOOLEAN
      /\ fired \in Attempts
  BY DEF IInv, TypeOK, Good, Sound, AcctType
<1>2. AttemptBound \in Nat
  BY ZeroFacts
<1> DEFINE n == acct.retry_attempt
           m == acct'.retry_attempt
           t == acct.retry_tmr
           u == acct'.retry_tmr
<1>3. /\ IF n = 0 THEN fired = 0 ELSE n = fired + (IF t THEN 1 ELSE 0)
      /\ fired' = IF m = 0 THEN 0 ELSE IF t /\ ~u THEN fired + 1 ELSE fired
      /\ \/ m = 0
         \/ m = n /\ u = t
         \/ ~t /\ u /\ m = n + 1
         \/ t /\ ~u /\ m = n
  BY DEF IInv, AttemptsSent, CountFired, Counted, Same, Armed
<1>4. AttemptsSent' <=> IF m = 0 THEN fired' = 0 ELSE m = fired' + (IF u THEN 1 ELSE 0)
  BY DEF AttemptsSent
<1> HIDE DEF n, m, t, u
<1>5. n \in Attempts /\ m \in Attempts /\ t \in BOOLEAN /\ u \in BOOLEAN
  BY <1>1 DEF n, m, t, u
<1> QED BY <1>1, <1>2, <1>3, <1>4, <1>5 DEF Attempts

\* Answers to a REGISTER, a probe or a lookup keep the account good.
LEMMA AnswerSteps ==
    ASSUME IInv, Answers
    PROVE  Good(acct') /\ Counted(acct, acct')
<1>g. Good(acct) /\ Sound(acct) /\ acct \in AcctType
  BY IInvGood DEF Good, Sound
<1>1. CASE RegisterOk
  BY <1>1, <1>g, OkLemma DEF RegisterOk, Counted
<1>2. ASSUME NEW e \in {"AUTH", "SERVER_5XX", "TRANSPORT"}, NEW d \in Delays,
             RegisterFail(e, d)
      PROVE  Good(acct') /\ Counted(acct, acct')
  BY <1>2, <1>g, FailLemma DEF RegisterFail, Counted, RegErrors
<1>3. CASE RegisterOkUnreported
  <2>1. acct' \in AcctType /\ Alike(acct, acct')
    BY <1>3, <1>g DEF RegisterOkUnreported, AcctType, Alike, Kept, Same
  <2> QED BY <1>g, <2>1, AlikeLemma DEF Good, Counted
<1>4. CASE KeepaliveAnswered
  <2> DEFINE a == [acct EXCEPT !.ka_in_flight = FALSE, !.ka_failed = FALSE]
             b == [Recovered(a) EXCEPT !.reg_error = "OK"]
             e == Emit(b, "REGISTERED", "OK")
  <2>1. acct' = KeepaliveArm(a) \/ acct' = KeepaliveArm(e)
    BY <1>4 DEF KeepaliveAnswered
  <2>2. a \in AcctType /\ Alike(acct, a)
    BY <1>g DEF AcctType, Alike, Kept, Same
  <2> HIDE DEF a
  <2>3. Good(a) /\ Same(acct, a)
    BY <1>g, <2>2, AlikeLemma DEF Good
  <2>4. b \in AcctType /\ b.retry_attempt = 0 /\ b.reg_state = "REGISTERED" /\ Ticking(b)
    BY ZenonT(60), <2>2, <2>3, ZeroFacts DEF Good, Sound, Ticking, AcctType, Recovered, RegStates, RegErrors
  <2> HIDE DEF b
  <2>5. Sound(b)
    BY <2>4, ZeroFacts DEF Sound, Room
  <2>6. Good(e) /\ e.retry_attempt = 0
    BY <2>4, <2>5, EmitLemma DEF RegStates, RegErrors, Same
  <2> HIDE DEF e
  <2>7. \A x : Good(x) => Good(KeepaliveArm(x)) /\ Same(x, KeepaliveArm(x))
    BY ArmLemma, AlikeLemma DEF Good, Sound, Alike, Kept, Faithful
  <2> QED BY <2>1, <2>3, <2>6, <2>7 DEF Counted, Same
<1>5. ASSUME NEW d \in Delays, KeepaliveLost(d)
      PROVE  Good(acct') /\ Counted(acct, acct')
  <2> DEFINE a == [acct EXCEPT !.ka_in_flight = FALSE, !.ka_failed = TRUE,
                               !.reg_error = "TIMEOUT"]
             f == RegFailState(a, "TIMEOUT")
             b == [a EXCEPT !.reconnecting = a.reg_wanted,
                            !.reg_state = IF a.reg_wanted THEN "RECONNECTING"
                                                          ELSE "FAILED"]
             c == Emit(b, b.reg_state, "TIMEOUT")
             r == ScheduleRetry(Emit(f, f.reg_state, "TIMEOUT"), d)
  <2>1. acct' = r \/ acct' = KeepaliveArm(c)
    BY <1>5 DEF KeepaliveLost
  <2>2. a \in AcctType /\ Alike(acct, a)
    BY <1>g DEF AcctType, Alike, Kept, Same, RegErrors
  <2> HIDE DEF a
  <2>3. Sound(a) /\ Same(acct, a)
    BY <1>g, <2>2, AlikeLemma
  <2>4. Good(r) /\ (Same(a, r) \/ Armed(a, r))
    BY <2>3, ReportThenRetry DEF RegErrors
  <2> HIDE DEF r, f
  <2>5. b \in AcctType /\ Same(a, b) /\ Kept(a, b) /\ b.reg_state \in RegStates
    BY ZenonT(60), <2>2 DEF AcctType, Same, Kept, RegStates
  <2> HIDE DEF b
  <2>6. Sound(b)
    BY <2>3, <2>5 DEF Sound, Room, Ticking, Same, Kept
  <2>7. Good(c) /\ Same(b, c)
    BY <2>5, <2>6, EmitLemma DEF RegErrors
  <2> HIDE DEF c
  <2>8. Good(KeepaliveArm(c)) /\ Same(c, KeepaliveArm(c))
    BY <2>7, ArmLemma, AlikeLemma DEF Good, Sound, Alike, Kept, Faithful
  <2> QED BY <2>1, <2>3, <2>4, <2>5, <2>7, <2>8 DEF Counted, Same, Armed
<1>6. ASSUME NEW n \in 0 .. SrvTargets, SrvDone(n)
      PROVE  Good(acct') /\ Counted(acct, acct')
  <2>1. acct' \in AcctType /\ Alike(acct, acct')
    BY <1>6, <1>g DEF SrvDone, AcctType, Alike, Kept, Same
  <2> QED BY <1>g, <2>1, AlikeLemma DEF Good, Counted
<1> QED BY <1>1, <1>2, <1>3, <1>4, <1>5, <1>6 DEF Answers

\* The timers keep the account good.
LEMMA TimerSteps ==
    ASSUME IInv, Timers
    PROVE  Good(acct') /\ Counted(acct, acct')
<1>g. Good(acct) /\ Sound(acct) /\ acct \in AcctType
  BY IInvGood DEF Good, Sound
<1>1. ASSUME NEW v \in BOOLEAN, RetryTimer(v)
      PROVE  Good(acct') /\ Counted(acct, acct')
  <2> DEFINE a == [acct EXCEPT !.retry_tmr = FALSE]
  <2>1. /\ a \in AcctType /\ Kept(acct, a) /\ a.reg_state = acct.reg_state
        /\ a.told = acct.told /\ ~a.retry_tmr
        /\ a.retry_attempt = acct.retry_attempt
    BY <1>g DEF AcctType, Kept
  <2>2. /\ acct.retry_tmr /\ acct.retry_attempt < AttemptBound
        /\ acct' = WatchRegistration(UaRegister(SrvAdvance(a), v))
    BY <1>1 DEF RetryTimer
  <2> HIDE DEF a
  <2>3. Good(a)
    BY <1>g, <2>1, <2>2 DEF Good, Sound, Room, Ticking, Kept, Faithful
  <2>4. Good(acct') /\ Same(a, acct')
    <3>1. Good(SrvAdvance(a)) /\ Same(a, SrvAdvance(a))
      BY <2>3, SrvLemma
    <3>2. /\ Good(UaRegister(SrvAdvance(a), v))
          /\ Same(SrvAdvance(a), UaRegister(SrvAdvance(a), v))
      BY <3>1, UaRegisterLemma
    <3> QED BY <2>2, <3>1, <3>2, WatchLemma DEF Same
  <2> QED BY <2>1, <2>2, <2>4 DEF Counted, Same
<1>2. ASSUME NEW d \in Delays, RegWatch(d)
      PROVE  Good(acct') /\ Counted(acct, acct')
  <2> DEFINE a == [acct EXCEPT !.reg_watch_tmr = FALSE]
             elapsed == IF WatchTicks = 0 THEN 0 ELSE a.reg_watch_elapsed + 1
             b == [a EXCEPT !.reg_watch_elapsed = elapsed]
             c == [a EXCEPT !.reg_watch_elapsed = elapsed, !.reg_watch_tmr = TRUE]
  <2>1. /\ acct.reg_watch_tmr
        /\ \/ acct' = a
           \/ acct' = WatchSynthesise(a)
           \/ acct' = WatchTimeout(b, d)
           \/ acct' = c /\ (WatchTicks = 0 \/ elapsed < WatchTicks)
    <3>1. elapsed \in Nat /\ WatchTicks \in Nat
      BY <1>g, RegistrationAssumption DEF AcctType
    <3>2. /\ acct.reg_watch_tmr
          /\ acct' = IF WatchOver(a) THEN a
                     ELSE IF a.ua = "ok" THEN WatchSynthesise(a)
                     ELSE IF WatchTicks # 0 /\ elapsed >= WatchTicks
                     THEN WatchTimeout(b, d) ELSE c
      BY <1>2, Zenon DEF RegWatch
    <3> HIDE DEF a, elapsed, b, c
    <3> QED BY <3>1, <3>2
  <2>2. elapsed \in 0 .. WatchTicks
    BY <1>g, <2>1, RegistrationAssumption DEF Sound, Ticking, AcctType
  <2>3. /\ a \in AcctType /\ Same(acct, a) /\ ~a.reg_watch_tmr
        /\ a.reg_state = acct.reg_state /\ a.told = acct.told
    BY <1>g DEF AcctType, Same
  <2> HIDE DEF elapsed, a
  <2>4. /\ b \in AcctType /\ Same(acct, b) /\ ~b.reg_watch_tmr
    BY <2>2, <2>3 DEF AcctType, Same
  <2>5. /\ c \in AcctType /\ Same(acct, c) /\ c.reg_watch_elapsed = elapsed
        /\ c.reg_state = acct.reg_state /\ c.told = acct.told
    BY <2>2, <2>3 DEF AcctType, Same
  <2> HIDE DEF b, c
  <2>6. Good(a)
    BY <1>g, <2>3 DEF Good, Sound, Room, Ticking, Same, Faithful
  <2>7. CASE acct' = a
    BY <2>3, <2>6, <2>7 DEF Counted
  <2>8. CASE acct' = WatchSynthesise(a)
    BY <2>6, <2>8, SynthesiseLemma DEF Counted
  <2>9. CASE acct' = WatchTimeout(b, d)
    <3> DEFINE e == [b EXCEPT !.reg_error = "TIMEOUT"]
               f == RegFailState(e, "TIMEOUT")
    <3>1. WatchTimeout(b, d) = ScheduleRetry(Emit(f, f.reg_state, "TIMEOUT"), d)
      BY DEF WatchTimeout
    <3>2. e \in AcctType /\ Same(acct, e) /\ ~e.reg_watch_tmr
      BY <2>4 DEF AcctType, Same, RegErrors
    <3> HIDE DEF e
    <3>3. Sound(e)
      BY <1>g, <3>2 DEF Sound, Room, Ticking, Same
    <3> HIDE DEF f
    <3>4. Good(acct') /\ (Same(e, acct') \/ Armed(e, acct'))
      BY <2>9, <3>1, <3>3, ReportThenRetry DEF f, RegErrors
    <3> QED BY <3>2, <3>4 DEF Counted, Same, Armed
  <2>10. CASE acct' = c /\ (WatchTicks = 0 \/ elapsed < WatchTicks)
    BY <1>g, <2>5, <2>10 DEF Counted, Good, Sound, Room, Ticking, Same, Faithful
  <2> QED BY <2>1, <2>7, <2>8, <2>9, <2>10
<1>3. ASSUME NEW busy \in BOOLEAN, KeepaliveTimer(busy)
      PROVE  Good(acct') /\ Counted(acct, acct')
  BY <1>3, <1>g, ProbeLemma DEF KeepaliveTimer, Counted
<1>4. Vanishing \subseteq BOOLEAN
  BY DEF Vanishing
<1> QED BY <1>1, <1>2, <1>3, <1>4 DEF Timers

\* ua_register() and the watchdog, as register(), retry_now() and a handover
\* call them.
LEMMA SendAndWatch ==
    ASSUME NEW a, Good(a), NEW v \in BOOLEAN
    PROVE  LET b == WatchRegistration(UaRegister(a, v)) IN Good(b) /\ Same(a, b)
<1>1. Good(UaRegister(a, v)) /\ Same(a, UaRegister(a, v))
  BY UaRegisterLemma
<1> QED BY <1>1, WatchLemma DEF Same

\* A new and a destroyed account are good.
LEMMA NewAccountGood ==
    ASSUME NEW p \in Policies
    PROVE  /\ Good(NewAccount(p)) /\ NewAccount(p).retry_attempt = 0
           /\ Good([NewAccount(p) EXCEPT !.destroyed = TRUE])
           /\ [NewAccount(p) EXCEPT !.destroyed = TRUE].retry_attempt = 0
<1> DEFINE n == NewAccount(p)
           m == [n EXCEPT !.destroyed = TRUE]
           t == Told("UNREGISTERED", 0, 0)
<1>1. /\ t \in [state : RegStates, attempt : Attempts, delay : DelayOrNone]
      /\ NoSig \in [error : RegErrors \cup {"none"}, attempt : Attempts, delay : DelayOrNone]
  BY ZeroFacts DEF Told, NoSig, RegStates
<1>2. SrvTargets \in Nat /\ 0 \in 0 .. SrvTargets
  BY RegistrationAssumption
<1>3. n.told = t /\ n.last_rc = NoSig
  BY DEF NewAccount
<1> HIDE DEF t
<1>4. /\ n \in AcctType /\ n.retry_attempt = 0 /\ ~n.reg_watch_tmr
      /\ n.reg_state = "UNREGISTERED"
  BY <1>1, <1>2, <1>3, ZeroFacts DEF NewAccount, AcctType, RegStates, RegErrors, t
<1> HIDE DEF n
<1>5. /\ m \in AcctType /\ m.retry_attempt = 0 /\ ~m.reg_watch_tmr
      /\ m.reg_state = "UNREGISTERED"
  BY ZenonT(60), <1>4 DEF AcctType
<1> HIDE DEF m
<1>6. Good(n) /\ Good(m)
  BY <1>4, <1>5, ZeroFacts DEF Good, Sound, Room, Ticking, Faithful
<1> QED BY <1>4, <1>5, <1>6 DEF n, m

\* The application's calls keep the account good.
LEMMA ApplicationSteps ==
    ASSUME IInv, Application
    PROVE  Good(acct') /\ Counted(acct, acct')
<1>g. Good(acct) /\ Sound(acct) /\ acct \in AcctType
  BY IInvGood DEF Good, Sound
<1>1. ASSUME NEW v \in BOOLEAN, Register(v)
      PROVE  Good(acct') /\ Counted(acct, acct')
  <2> DEFINE a == [acct EXCEPT !.reg_wanted = TRUE, !.reconnecting = FALSE]
  <2>1. a \in AcctType /\ Alike(acct, a)
    BY <1>g DEF AcctType, Alike, Kept, Same
  <2>2. acct' = WatchRegistration(UaRegister(SrvResolve(a), v))
    BY <1>1 DEF Register
  <2> HIDE DEF a
  <2>3. Good(a) /\ Same(acct, a)
    BY <1>g, <2>1, AlikeLemma DEF Good
  <2>4. Good(SrvResolve(a)) /\ Same(a, SrvResolve(a))
    BY <2>3, SrvLemma
  <2> QED BY <2>2, <2>3, <2>4, SendAndWatch DEF Counted, Same
<1>2. ASSUME NEW v \in BOOLEAN, RetryNow(v)
      PROVE  Good(acct') /\ Counted(acct, acct')
  <2> DEFINE a == [acct EXCEPT !.retry_tmr = FALSE, !.retry_attempt = 0,
                               !.reg_wanted = TRUE]
  <2>1. /\ a \in AcctType /\ Kept(acct, a) /\ a.retry_attempt = 0
        /\ a.reg_state = acct.reg_state /\ a.told = acct.told
    BY <1>g, ZeroFacts DEF AcctType, Kept
  <2>2. acct' = WatchRegistration(UaRegister(a, v))
    BY <1>2 DEF RetryNow
  <2> HIDE DEF a
  <2>3. Good(a)
    BY <1>g, <2>1, ZeroFacts DEF Good, Sound, Room, Ticking, Kept, Faithful
  <2> QED BY <2>1, <2>2, <2>3, SendAndWatch DEF Counted, Same
<1>3. ASSUME NEW v \in BOOLEAN, SetPushToken(v)
      PROVE  Good(acct') /\ Counted(acct, acct')
  BY <1>3, <1>g, UaRegisterLemma DEF SetPushToken, Counted
<1>4. CASE Unregister
  <2> DEFINE a == [acct EXCEPT !.reg_wanted = FALSE, !.reconnecting = FALSE,
                               !.ka_failed = FALSE, !.reg_state = "UNREGISTERING",
                               !.reg_watch_tmr = FALSE, !.ka_tmr = FALSE,
                               !.ua = "idle"]
  <2>1. a \in AcctType /\ Same(acct, a) /\ ~a.reg_watch_tmr /\ a.reg_state = "UNREGISTERING"
    BY ZenonT(60), <1>g DEF AcctType, Same, RegStates
  <2>2. acct' = Emit(a, "UNREGISTERING", "OK")
    BY <1>4 DEF Unregister
  <2> HIDE DEF a
  <2>3. Sound(a)
    BY <1>g, <2>1 DEF Sound, Room, Ticking, Same
  <2> QED BY <2>1, <2>2, <2>3, EmitLemma DEF RegStates, RegErrors, Counted, Same
<1>5. CASE CancelRetry
  <2> DEFINE a == [acct EXCEPT !.retry_tmr = FALSE, !.reg_watch_tmr = FALSE,
                               !.retry_attempt = 0]
             b == [a EXCEPT !.reconnecting = FALSE, !.reg_state = "FAILED"]
  <2>1. acct' = a \/ acct' = EmitRaw(b, "FAILED")
    BY <1>5 DEF CancelRetry
  <2>2. /\ a \in AcctType /\ a.retry_attempt = 0 /\ ~a.reg_watch_tmr
        /\ a.reg_state = acct.reg_state /\ a.told = acct.told
    BY <1>g, ZeroFacts DEF AcctType
  <2> HIDE DEF a
  <2>3. /\ b \in AcctType /\ b.retry_attempt = 0 /\ ~b.reg_watch_tmr
        /\ b.reg_state = "FAILED"
    BY ZenonT(60), <2>2 DEF AcctType, RegStates
  <2> HIDE DEF b
  <2>4. Good(a) /\ Sound(b)
    BY <1>g, <2>2, <2>3, ZeroFacts DEF Good, Sound, Room, Ticking, Faithful
  <2>5. Good(EmitRaw(b, "FAILED")) /\ Same(b, EmitRaw(b, "FAILED"))
    BY <2>3, <2>4, EmitRawLemma DEF RegStates
  <2> QED BY <2>1, <2>2, <2>3, <2>4, <2>5 DEF Counted, Same
<1>6. CASE Destroy
  <2>1. acct.retry_max_attempts \in Policies
    BY <1>g DEF AcctType
  <2> QED BY <1>6, <2>1, NewAccountGood DEF Destroy, Counted
<1>7. ASSUME NEW p \in Policies, SetRetryPolicy(p)
      PROVE  Good(acct') /\ Counted(acct, acct')
  <2>1. acct' \in AcctType /\ Alike(acct, acct')
    BY <1>7, <1>g DEF SetRetryPolicy, AcctType, Alike, Kept, Same
  <2> QED BY <1>g, <2>1, AlikeLemma DEF Good, Counted
<1>8. ASSUME NEW busy \in BOOLEAN, KeepaliveNow(busy)
      PROVE  Good(acct') /\ Counted(acct, acct')
  BY <1>8, <1>g, ProbeLemma DEF KeepaliveNow, Counted
<1>9. Vanishing \subseteq BOOLEAN
  BY DEF Vanishing
<1> QED BY <1>1, <1>2, <1>3, <1>4, <1>5, <1>6, <1>7, <1>8, <1>9 DEF Application

\* vox_account_reg_reconnecting() reports and leaves the retry alone.
LEMMA MarkLemma ==
    ASSUME NEW a, Good(a)
    PROVE  Good(RegReconnecting(a)) /\ Same(a, RegReconnecting(a))
<1> DEFINE b == [a EXCEPT !.reconnecting = TRUE, !.reg_state = "RECONNECTING",
                          !.ka_tmr = FALSE]
<1>1. RegReconnecting(a) = a \/ RegReconnecting(a) = Emit(b, "RECONNECTING", "OK")
  BY DEF RegReconnecting
<1>2. b \in AcctType /\ Same(a, b) /\ Kept(a, b) /\ b.reg_state = "RECONNECTING"
  BY DEF Good, Sound, AcctType, Same, Kept, RegStates
<1> HIDE DEF b
<1>3. Sound(b)
  BY <1>2 DEF Good, Sound, Room, Ticking, Same, Kept
<1>4. /\ Good(Emit(b, "RECONNECTING", "OK"))
      /\ Same(b, Emit(b, "RECONNECTING", "OK"))
  BY <1>2, <1>3, EmitLemma DEF RegStates, RegErrors
<1> QED BY <1>1, <1>2, <1>4 DEF Same

\* What a handover does to the account keeps it good.
LEMMA NetmonSteps ==
    ASSUME IInv, Netmon
    PROVE  Good(acct') /\ Counted(acct, acct')
<1>g. Good(acct)
  BY IInvGood
<1>m. \A a \in Marked : Good(a) /\ Same(acct, a)
  BY <1>g, MarkLemma DEF Marked, Same
<1>1. CASE NetTrigger
  BY <1>1, <1>g, MarkLemma DEF NetTrigger, Counted, Same
<1>2. CASE NetWait
  BY <1>2, <1>m DEF NetWait, Counted
<1>3. ASSUME NEW v \in BOOLEAN, NetHandover(v)
      PROVE  Good(acct') /\ Counted(acct, acct')
  <2>1. PICK a \in Marked : acct' = Reregister(a, v)
    BY <1>3 DEF NetHandover
  <2> DEFINE b == [a EXCEPT !.retry_tmr = FALSE, !.retry_attempt = 0,
                            !.reconnecting = TRUE]
  <2>2. acct' = a \/ acct' = WatchRegistration(UaRegister(b, v))
    BY <2>1 DEF Reregister
  <2>3. Good(a) /\ Same(acct, a)
    BY <1>m
  <2>4. /\ b \in AcctType /\ Kept(a, b) /\ b.retry_attempt = 0
        /\ b.reg_state = a.reg_state /\ b.told = a.told
    BY <2>3, ZeroFacts DEF Good, Sound, AcctType, Kept
  <2> HIDE DEF b
  <2>5. Good(b)
    BY <2>3, <2>4, ZeroFacts DEF Good, Sound, Room, Ticking, Kept, Faithful
  <2>6. LET c == WatchRegistration(UaRegister(b, v)) IN Good(c) /\ Same(b, c)
    BY <2>5, SendAndWatch
  <2> QED BY <2>2, <2>3, <2>4, <2>6 DEF Counted, Same
<1>4. ASSUME NEW d \in Delays, NetGiveUp(d)
      PROVE  Good(acct') /\ Counted(acct, acct')
  <2>1. PICK a \in Marked : acct' = a \/ acct' = ScheduleRetry(a, d)
    BY <1>4 DEF NetGiveUp
  <2>2. Good(a) /\ Same(acct, a)
    BY <1>m
  <2>3. LET b == ScheduleRetry(a, d) IN Good(b) /\ (Same(a, b) \/ Armed(a, b))
    BY <2>2, ScheduleLemma DEF Good
  <2> QED BY <2>1, <2>2, <2>3 DEF Counted, Same, Armed
<1>5. Vanishing \subseteq BOOLEAN
  BY DEF Vanishing
<1> QED BY <1>1, <1>2, <1>3, <1>4, <1>5 DEF Netmon

\* Every step keeps the type of the flags and maintains the history.
LEMMA FlagsTyped ==
    ASSUME IInv, Next
    PROVE  /\ settling' \in BOOLEAN /\ announced' \in BOOLEAN
           /\ CountFired
<1>1. settling \in BOOLEAN /\ announced \in BOOLEAN
  BY DEF IInv, TypeOK
<1>2. CASE Timers
  BY <1>1, <1>2 DEF Timers, RetryTimer, RegWatch, KeepaliveTimer, netVars
<1>3. CASE Answers
  BY <1>1, <1>3 DEF Answers, RegisterOk, RegisterFail, RegisterOkUnreported,
                    KeepaliveAnswered, KeepaliveLost, SrvDone, netVars
<1>4. CASE Application
  BY <1>1, <1>4 DEF Application, Register, RetryNow, SetPushToken, Unregister,
                    CancelRetry, Destroy, SetRetryPolicy, KeepaliveNow, netVars
<1>5. CASE Netmon
  BY <1>1, <1>5 DEF Netmon, NetTrigger, NetWait, NetHandover, NetGiveUp, netVars
<1>6. CASE \E p \in Policies : Create(p)
  BY <1>1, <1>6 DEF Create, netVars
<1> QED BY <1>2, <1>3, <1>4, <1>5, <1>6 DEF Next

\* Every step keeps the account good and counts at most one attempt.
LEMMA GoodStep ==
    ASSUME IInv, Next
    PROVE  Good(acct') /\ Counted(acct, acct')
<1>1. CASE \E p \in Policies : Create(p)
  BY <1>1, NewAccountGood DEF Create, Counted
<1> QED BY <1>1, TimerSteps, AnswerSteps, ApplicationSteps, NetmonSteps DEF Next

\* The inductive invariant: the types, the told terminal states, the attempts,
\* room for one more attempt whenever no retry is armed, and a running watchdog
\* that has not yet timed out.
THEOREM InductiveInvariant == Spec => []IInv
<1>1. Init => IInv
  <2> SUFFICES ASSUME Init PROVE IInv
    OBVIOUS
  <2>1. Good(acct) /\ acct.retry_attempt = 0 /\ fired = 0
    BY NewAccountGood DEF Init
  <2> QED BY <2>1, ZeroFacts DEF Init, IInv, TypeOK, TerminalTold, AttemptsSent,
                                 Good, Sound, Faithful
<1>2. IInv /\ [Next]_vars => IInv'
  <2> SUFFICES ASSUME IInv, [Next]_vars PROVE IInv'
    OBVIOUS
  <2>1. CASE Next
    <3>1. Good(acct') /\ Counted(acct, acct')
      BY <2>1, GoodStep
    <3>2. /\ settling' \in BOOLEAN /\ announced' \in BOOLEAN
          /\ CountFired
      BY <2>1, FlagsTyped
    <3>3. fired' \in Attempts /\ AttemptsSent'
      BY <3>1, <3>2, CountLemma
    <3> QED BY <3>1, <3>2, <3>3 DEF IInv, TypeOK, TerminalTold, Good, Sound, Faithful,
                                    Room, Ticking, Attempts
  <2>2. CASE UNCHANGED vars
    BY <2>2 DEF vars, IInv, TypeOK, TerminalTold, AttemptsSent, Room, Ticking
  <2> QED BY <2>1, <2>2
<1> QED BY <1>1, <1>2, PTL DEF Spec

\* Every variable keeps its type: retry_attempt stays in its budget and the
\* watchdog (reg_watch_handler()) never runs past its timeout.
THEOREM TypeCorrect == Spec => []TypeOK
BY InductiveInvariant, PTL DEF IInv

\* However often one failure is reported, vox_account_schedule_retry() counts it
\* once: retry_attempt is the retries sent and the one armed.
THEOREM AttemptsExact == Spec => []AttemptsSent
BY InductiveInvariant, PTL DEF IInv

\* An account that is REGISTERED or FAILED has told the application so, whichever
\* of answer, watchdog, probe, cancel_retry() or exhausted budget brought it there.
THEOREM TerminalStatesTold == Spec => []TerminalTold
BY InductiveInvariant, PTL DEF IInv

-----------------------------------------------------------------------------
(* What the application was last told, and who works on it.                *)

\* What an account's report says of it: RECONNECTING is told of an account in that
\* state, and while every ua_register() leaves a trace, only inside a recovery; a probe
\* is timed only where there is an interval.
Honest(a) ==
    /\ a.told.state = "RECONNECTING" => a.reg_state = "RECONNECTING"
    /\ ~Vanish => /\ a.reconnecting => a.reg_state = "RECONNECTING"
                  /\ a.told.state = "RECONNECTING" => a.reconnecting
    /\ a.ka_tmr => KeepAlive
    /\ a.ka_in_flight => KeepAlive \/ "keepalive_now" \in AppOps

\* The account owes its application a reconnection, and has a timer at work on it.
Owed(a) == a.told.state = "RECONNECTING" /\ a.reg_wanted
Worked(a) == a.retry_tmr \/ a.reg_watch_tmr \/ (KeepAlive /\ (a.ka_tmr \/ a.ka_in_flight))

Probed(a) ==
    a.reg_wanted /\ a.reg_state = "REGISTERED" /\ KeepAlive => a.ka_tmr \/ a.ka_in_flight

\* What the code needs of its settings to keep the promise: a probe sent by hand has an
\* interval or a re-REGISTER behind it (else keepalive_resp_handler() leaves nothing
\* behind), and where set_push_token() is used, whose REGISTER nothing watches, every
\* ua_register() leaves a trace.
Careful ==
    /\ KeepAlive \/ KeepaliveReregister \/ "keepalive_now" \notin AppOps
    /\ ~Vanish \/ "set_push_token" \notin AppOps

Fine(a, pending) ==
    /\ Honest(a)
    /\ Careful /\ Owed(a) => Worked(a) \/ pending
    /\ ~Vanish => Probed(a)

\* The inductive invariant behind PromiseKept, ProbeAlive and NoFlicker.
OwedInv == Fine(acct, settling)

\* A step that changes neither state nor timers.
Rest(a, b) ==
    /\ b.reg_wanted = a.reg_wanted /\ b.reg_watch_tmr = a.reg_watch_tmr
    /\ b.ka_tmr = a.ka_tmr /\ b.ka_in_flight = a.ka_in_flight
Flags(a, b) ==
    /\ Rest(a, b) /\ b.reg_state = a.reg_state /\ b.reconnecting = a.reconnecting
    /\ b.retry_tmr = a.retry_tmr

USE DEF Rest, Flags

\* A report changes what is told and nothing else of these, or is a repetition.
LEMMA EmitFx ==
    ASSUME NEW a \in AcctType, NEW state, NEW error
    PROVE  LET b == Emit(a, state, error)
           IN  /\ Flags(a, b)
               /\ b.told.state = state \/ (state = "RECONNECTING" /\ b.told = a.told)
<1> DEFINE sig == Signature(a, error)
           t1 == Told(state, a.retry_attempt, a.retry_delay_ms)
           t2 == Told(state, a.retry_attempt, 0)
<1>0. t1.state = state /\ t2.state = state BY DEF Told
<1>1. CASE state = "RECONNECTING" /\ a.last_rc = sig
  <2>1. Emit(a, state, error) = a BY <1>1 DEF Emit
  <2> QED BY <1>1, <2>1
<1>2. CASE state = "RECONNECTING" /\ a.last_rc # sig
  <2>1. Emit(a, state, error) = [a EXCEPT !.last_rc = sig, !.told = t1] BY <1>2 DEF Emit
  <2> HIDE DEF sig, t1
  <2> QED BY <1>0, <2>1 DEF AcctType
<1>3. CASE state # "RECONNECTING"
  <2>1. Emit(a, state, error) = [a EXCEPT !.last_rc = NoSig, !.retry_delay_ms = 0, !.told = t2]
    BY <1>3 DEF Emit, ReconnectReset, AcctType
  <2> HIDE DEF t2
  <2> QED BY <1>0, <2>1 DEF AcctType
<1> QED BY <1>1, <1>2, <1>3

\* A raw event changes only what was told.
LEMMA EmitRawFx ==
    ASSUME NEW a \in AcctType, NEW state
    PROVE  LET b == EmitRaw(a, state) IN Flags(a, b) /\ b.told.state = state
<1> DEFINE t == Told(state, 0, 0)
<1>1. t.state = state BY DEF Told
<1>2. EmitRaw(a, state) = [a EXCEPT !.told = t] BY DEF EmitRaw
<1> HIDE DEF t
<1> QED BY <1>1, <1>2 DEF AcctType

\* vox_account_schedule_retry(): the timer was armed, is armed now, or the budget is
\* gone and a recovery is reported as failed.
LEMMA ScheduleFx ==
    ASSUME NEW a, Sound(a), NEW d \in Delays
    PROVE  LET b == ScheduleRetry(a, d)
           IN  /\ Rest(a, b)
               /\ \/ a.retry_tmr /\ b = a
                  \/ /\ ~a.retry_tmr /\ ~RetryBudgetLeft(a) /\ ~b.retry_tmr /\ ~b.reconnecting
                     /\ IF a.reg_state = "RECONNECTING"
                        THEN b.reg_state = "FAILED" /\ b.told.state = "FAILED"
                        ELSE b.reg_state = a.reg_state /\ b.told = a.told
                  \/ /\ ~a.retry_tmr /\ RetryBudgetLeft(a) /\ b.retry_tmr /\ b.reconnecting
                     /\ b.reg_state = "RECONNECTING"
                     /\ b.told.state \in {"RECONNECTING", a.told.state}
<1>0. a \in AcctType BY DEF Sound
<1>1. CASE a.retry_tmr
  BY <1>1 DEF ScheduleRetry
<1>2. CASE ~a.retry_tmr /\ ~RetryBudgetLeft(a) /\ a.reg_state = "RECONNECTING"
  <2> DEFINE c == [a EXCEPT !.reconnecting = FALSE, !.reg_state = "FAILED"]
  <2>1. /\ c \in AcctType /\ Rest(a, c) /\ c.reg_state = "FAILED" /\ c.reconnecting = FALSE
        /\ c.retry_tmr = a.retry_tmr
    BY <1>0 DEF AcctType, RegStates
  <2>2. ScheduleRetry(a, d) = Emit(c, "FAILED", a.reg_error)
    BY <1>2 DEF ScheduleRetry
  <2> HIDE DEF c
  <2>3. LET b == Emit(c, "FAILED", a.reg_error) IN Flags(c, b) /\ b.told.state = "FAILED"
    BY <2>1, EmitFx
  <2> QED BY <1>2, <2>1, <2>2, <2>3
<1>3. CASE ~a.retry_tmr /\ ~RetryBudgetLeft(a) /\ a.reg_state # "RECONNECTING"
  <2>1. ScheduleRetry(a, d) = [a EXCEPT !.reconnecting = FALSE]
    BY <1>3 DEF ScheduleRetry
  <2> QED BY <1>0, <1>3, <2>1 DEF AcctType
<1>4. CASE ~a.retry_tmr /\ RetryBudgetLeft(a)
  <2> DEFINE c == [a EXCEPT !.retry_attempt = @ + 1, !.retry_delay_ms = d,
                            !.reconnecting = TRUE, !.reg_state = "RECONNECTING",
                            !.retry_tmr = TRUE]
  <2>1. a.retry_attempt \in Nat /\ a.retry_attempt + 1 \in Attempts
    BY <1>4, ZeroFacts DEF Sound, Room, Ticking, AcctType
  <2>2. /\ c \in AcctType /\ Rest(a, c) /\ c.reg_state = "RECONNECTING" /\ c.reconnecting = TRUE
        /\ c.retry_tmr = TRUE /\ c.told = a.told
    BY <1>0, <2>1 DEF AcctType, RegStates, DelayOrNone
  <2>3. ScheduleRetry(a, d) = Emit(c, "RECONNECTING", a.reg_error)
    BY <1>4 DEF ScheduleRetry
  <2> HIDE DEF c
  <2>4. LET b == Emit(c, "RECONNECTING", a.reg_error)
        IN  Flags(c, b) /\ (b.told.state = "RECONNECTING" \/ b.told = c.told)
    BY <2>2, EmitFx
  <2> QED BY <1>4, <2>2, <2>3, <2>4
<1> QED BY <1>1, <1>2, <1>3, <1>4

\* ua_register(): inside a recovery the report stays RECONNECTING, outside it is
\* REGISTERING; one that vanishes changes nothing.
LEMMA UaRegisterFx ==
    ASSUME NEW a \in AcctType, NEW v \in BOOLEAN
    PROVE  LET b == UaRegister(a, v)
           IN  /\ Rest(a, b) /\ b.retry_tmr = a.retry_tmr /\ b.reconnecting = a.reconnecting
               /\ v => b = a
               /\ ~v /\ a.reconnecting => /\ b.reg_state = "RECONNECTING"
                                          /\ b.told.state \in {"RECONNECTING", a.told.state}
               /\ ~v /\ ~a.reconnecting => /\ b.reg_state = "REGISTERING"
                                           /\ b.told.state = "REGISTERING"
<1> DEFINE s == [a EXCEPT !.ua = "sent"]
           c == [s EXCEPT !.reg_state = "RECONNECTING"]
           e == [s EXCEPT !.reg_state = "REGISTERING"]
<1>1. /\ s \in AcctType /\ Flags(a, s) /\ s.told = a.told
  BY DEF AcctType
<1>2. UaRegister(a, v) = IF v THEN a
                         ELSE IF s.reconnecting THEN Emit(c, "RECONNECTING", s.reg_error)
                         ELSE EmitRaw(e, "REGISTERING")
  BY DEF UaRegister, OnRegistering
<1> HIDE DEF s
<1>3. /\ c \in AcctType /\ Rest(s, c) /\ c.reg_state = "RECONNECTING" /\ c.told = s.told
      /\ c.reconnecting = s.reconnecting /\ c.retry_tmr = s.retry_tmr
  BY <1>1 DEF AcctType, RegStates
<1>4. /\ e \in AcctType /\ Rest(s, e) /\ e.reg_state = "REGISTERING"
      /\ e.reconnecting = s.reconnecting /\ e.retry_tmr = s.retry_tmr
  BY <1>1 DEF AcctType, RegStates
<1> HIDE DEF c, e
<1>5. LET b == Emit(c, "RECONNECTING", s.reg_error)
      IN  Flags(c, b) /\ (b.told.state = "RECONNECTING" \/ b.told = c.told)
  BY <1>3, EmitFx
<1>6. LET b == EmitRaw(e, "REGISTERING") IN Flags(e, b) /\ b.told.state = "REGISTERING"
  BY <1>4, EmitRawFx
<1> QED BY <1>1, <1>2, <1>3, <1>4, <1>5, <1>6

\* vox_account_keepalive_arm(), the watchdog, the SRV list and the probe.
LEMMA ArmFx ==
    ASSUME NEW a \in AcctType
    PROVE  LET b == KeepaliveArm(a)
           IN  /\ b.ka_tmr = (a.ka_tmr \/ (a.reg_wanted /\ KeepAlive))
               /\ b.reg_wanted = a.reg_wanted /\ b.reg_watch_tmr = a.reg_watch_tmr
               /\ b.ka_in_flight = a.ka_in_flight /\ b.reg_state = a.reg_state
               /\ b.reconnecting = a.reconnecting /\ b.retry_tmr = a.retry_tmr
               /\ b.told = a.told
<1>1. CASE a.reg_wanted /\ KeepAlive
  <2>1. KeepaliveArm(a) = [a EXCEPT !.ka_tmr = TRUE] BY <1>1 DEF KeepaliveArm
  <2> QED BY <1>1, <2>1 DEF AcctType
<1>2. CASE ~(a.reg_wanted /\ KeepAlive)
  <2>1. KeepaliveArm(a) = a BY <1>2 DEF KeepaliveArm
  <2>2. a.ka_tmr \in BOOLEAN BY DEF AcctType
  <2> QED BY <1>2, <2>1, <2>2
<1> QED BY <1>1, <1>2

\* Arming the watchdog changes nothing else that is owed.
LEMMA WatchFx ==
    ASSUME NEW a \in AcctType
    PROVE  LET b == WatchRegistration(a)
           IN  /\ b.reg_watch_tmr = TRUE /\ b.reg_wanted = a.reg_wanted /\ b.ka_tmr = a.ka_tmr
               /\ b.ka_in_flight = a.ka_in_flight /\ b.reg_state = a.reg_state
               /\ b.reconnecting = a.reconnecting /\ b.retry_tmr = a.retry_tmr
               /\ b.told = a.told
BY DEF WatchRegistration, AcctType

\* Moving through the SRV targets changes nothing that is owed.
LEMMA SrvFx ==
    ASSUME NEW a \in AcctType
    PROVE  /\ Flags(a, SrvAdvance(a)) /\ SrvAdvance(a).told = a.told
           /\ Flags(a, SrvResolve(a)) /\ SrvResolve(a).told = a.told
<1> DEFINE n == (a.srv_idx + 1) % a.srv_count
<1>1. SrvAdvance(a) \in {a, [a EXCEPT !.srv_idx = n]} BY DEF SrvAdvance
<1>2. SrvResolve(a) \in {a, [a EXCEPT !.srv_tried = TRUE, !.srv_pending = TRUE]} BY DEF SrvResolve
<1> HIDE DEF n
<1>3. LET b == [a EXCEPT !.srv_idx = n] IN Flags(a, b) /\ b.told = a.told
  BY DEF AcctType
<1>4. LET b == [a EXCEPT !.srv_tried = TRUE, !.srv_pending = TRUE]
      IN  Flags(a, b) /\ b.told = a.told
  BY DEF AcctType
<1> QED BY <1>1, <1>2, <1>3, <1>4

\* What the keepalive handler does to the timers.
LEMMA ProbeFx ==
    ASSUME NEW a \in AcctType, NEW busy \in BOOLEAN
    PROVE  LET b == KeepaliveHandler(a, busy)
           IN  /\ b.reg_wanted = a.reg_wanted /\ b.reg_watch_tmr = a.reg_watch_tmr
               /\ b.reg_state = a.reg_state /\ b.reconnecting = a.reconnecting
               /\ b.retry_tmr = a.retry_tmr /\ b.told = a.told
               /\ b.ka_tmr => KeepAlive
               /\ b.ka_in_flight => a.ka_in_flight \/ a.reg_wanted
               /\ a.reg_wanted /\ KeepAlive => b.ka_tmr \/ b.ka_in_flight
<1> DEFINE c == [a EXCEPT !.ka_tmr = FALSE]
           e == [c EXCEPT !.ka_in_flight = TRUE]
<1>1. /\ c \in AcctType /\ c.ka_tmr = FALSE /\ c.ka_in_flight = a.ka_in_flight
      /\ c.reg_wanted = a.reg_wanted /\ c.reg_watch_tmr = a.reg_watch_tmr
      /\ c.reg_state = a.reg_state /\ c.reconnecting = a.reconnecting
      /\ c.retry_tmr = a.retry_tmr /\ c.told = a.told
  BY DEF AcctType
<1>2. KeepaliveHandler(a, busy) = IF ~c.reg_wanted \/ c.ka_in_flight THEN c
                                  ELSE IF busy THEN KeepaliveArm(c) ELSE e
  BY DEF KeepaliveHandler
<1> HIDE DEF c
<1>3. /\ e.ka_tmr = FALSE /\ e.ka_in_flight = TRUE
      /\ e.reg_wanted = c.reg_wanted /\ e.reg_watch_tmr = c.reg_watch_tmr
      /\ e.reg_state = c.reg_state /\ e.reconnecting = c.reconnecting
      /\ e.retry_tmr = c.retry_tmr /\ e.told = c.told
  BY <1>1 DEF AcctType
<1> HIDE DEF e
<1>4. CASE ~c.reg_wanted \/ c.ka_in_flight BY <1>1, <1>2, <1>4
<1>5. CASE c.reg_wanted /\ ~c.ka_in_flight /\ busy
  <2> DEFINE b == KeepaliveArm(c)
  <2>1. KeepaliveHandler(a, busy) = b BY <1>2, <1>5
  <2>2. /\ b.ka_tmr = KeepAlive /\ b.ka_in_flight = c.ka_in_flight
        /\ b.reg_wanted = c.reg_wanted /\ b.reg_watch_tmr = c.reg_watch_tmr
        /\ b.reg_state = c.reg_state /\ b.reconnecting = c.reconnecting
        /\ b.retry_tmr = c.retry_tmr /\ b.told = c.told
    BY <1>1, <1>5, ArmFx, RegistrationAssumption
  <2> HIDE DEF b
  <2> QED BY <1>1, <1>5, <2>1, <2>2
<1>6. CASE c.reg_wanted /\ ~c.ka_in_flight /\ ~busy
  BY <1>1, <1>2, <1>3, <1>6
<1> QED BY <1>4, <1>5, <1>6

\* vox_account_reg_fail_state()
LEMMA FailStateFx ==
    ASSUME NEW a \in AcctType, NEW error \in RegErrors
    PROVE  LET b == RegFailState(a, error)
           IN  /\ Rest(a, b) /\ b.retry_tmr = a.retry_tmr /\ b.told = a.told
               /\ \/ /\ b.reg_state = "RECONNECTING" /\ b.reconnecting = TRUE
                     /\ b.reg_wanted /\ error # "AUTH" /\ (b.retry_tmr \/ RetryBudgetLeft(b))
                  \/ b.reg_state = "FAILED" /\ b.reconnecting = FALSE
<1> DEFINE w == /\ a.reg_wanted
                /\ error # "AUTH"
                /\ a.retry_tmr \/ RetryBudgetLeft(a)
<1>1. w \in BOOLEAN /\ (w => a.reg_wanted /\ error # "AUTH" /\ (a.retry_tmr \/ RetryBudgetLeft(a)))
  OBVIOUS
<1>2. RegFailState(a, error) = [a EXCEPT !.reconnecting = w,
             !.reg_state = IF w THEN "RECONNECTING" ELSE "FAILED"]
  BY DEF RegFailState
<1> HIDE DEF w
<1> QED BY <1>1, <1>2 DEF AcctType, RetryBudgetLeft

\* A REGISTER that is watched drives the account, whatever it was doing.
LEMMA SendFine ==
    ASSUME NEW a, Good(a), NEW v \in Vanishing,
           a.told.state = "RECONNECTING" => a.reg_state = "RECONNECTING",
           a.ka_tmr => KeepAlive,
           a.ka_in_flight => KeepAlive \/ "keepalive_now" \in AppOps
    PROVE  Fine(WatchRegistration(UaRegister(a, v)), FALSE)
<1> DEFINE b == UaRegister(a, v)
           c == WatchRegistration(b)
<1>1. v \in BOOLEAN /\ (~Vanish => ~v) /\ a \in AcctType
  BY DEF Vanishing, Good, Sound
<1>2. b \in AcctType BY <1>1, UaRegisterLemma DEF Good, Sound
<1>3. /\ Rest(a, b) /\ b.retry_tmr = a.retry_tmr /\ b.reconnecting = a.reconnecting
      /\ v => b = a
      /\ ~v /\ a.reconnecting => /\ b.reg_state = "RECONNECTING"
                                 /\ b.told.state \in {"RECONNECTING", a.told.state}
      /\ ~v /\ ~a.reconnecting => /\ b.reg_state = "REGISTERING"
                                  /\ b.told.state = "REGISTERING"
  BY <1>1, UaRegisterFx
<1> HIDE DEF b
<1>4. /\ c.reg_watch_tmr = TRUE /\ c.reg_wanted = b.reg_wanted /\ c.ka_tmr = b.ka_tmr
      /\ c.ka_in_flight = b.ka_in_flight /\ c.reg_state = b.reg_state
      /\ c.reconnecting = b.reconnecting /\ c.retry_tmr = b.retry_tmr
      /\ c.told = b.told
  BY <1>2, WatchFx
<1> HIDE DEF c
<1>5. Honest(c) BY <1>1, <1>3, <1>4 DEF Honest
<1>6. Worked(c) BY <1>4 DEF Worked
<1>7. ~Vanish => Probed(c) BY <1>1, <1>3, <1>4 DEF Probed
<1>8. Fine(c, FALSE) BY <1>5, <1>6, <1>7 DEF Fine
<1> QED BY <1>8 DEF c, b

\* Back up: what is told is REGISTERED, and the probe is timed.
LEMMA BackFine ==
    ASSUME NEW a, Sound(a), a.reg_state = "REGISTERED", ~a.reconnecting,
           a.ka_tmr => KeepAlive,
           a.ka_in_flight => KeepAlive \/ "keepalive_now" \in AppOps
    PROVE  /\ Fine(Emit(KeepaliveArm(a), "REGISTERED", "OK"), FALSE)
           /\ Fine(KeepaliveArm(Emit(a, "REGISTERED", "OK")), FALSE)
<1>0. a \in AcctType BY DEF Sound
<1>1. ASSUME NEW b, b.reg_state = "REGISTERED", b.told.state = "REGISTERED",
             b.reconnecting = a.reconnecting, b.reg_wanted = a.reg_wanted,
             b.ka_in_flight = a.ka_in_flight,
             b.ka_tmr = (a.ka_tmr \/ (a.reg_wanted /\ KeepAlive))
      PROVE  Fine(b, FALSE)
  BY <1>1 DEF Fine, Honest, Owed, Probed
<1>2. Fine(Emit(KeepaliveArm(a), "REGISTERED", "OK"), FALSE)
  <2> DEFINE c == KeepaliveArm(a)
             b == Emit(c, "REGISTERED", "OK")
  <2>1. c \in AcctType BY ArmLemma DEF Sound
  <2>2. /\ c.ka_tmr = (a.ka_tmr \/ (a.reg_wanted /\ KeepAlive))
        /\ c.reg_wanted = a.reg_wanted /\ c.ka_in_flight = a.ka_in_flight
        /\ c.reg_state = a.reg_state /\ c.reconnecting = a.reconnecting
    BY <1>0, ArmFx
  <2> HIDE DEF c
  <2>3. Flags(c, b) /\ b.told.state = "REGISTERED" BY <2>1, EmitFx
  <2> HIDE DEF b
  <2>4. Fine(b, FALSE) BY <1>1, <2>2, <2>3
  <2> QED BY <2>4 DEF b, c
<1>3. Fine(KeepaliveArm(Emit(a, "REGISTERED", "OK")), FALSE)
  <2> DEFINE c == Emit(a, "REGISTERED", "OK")
             b == KeepaliveArm(c)
  <2>1. c \in AcctType BY EmitLemma DEF Good, Sound, RegStates, RegErrors
  <2>2. Flags(a, c) /\ c.told.state = "REGISTERED" BY <1>0, EmitFx
  <2> HIDE DEF c
  <2>3. /\ b.ka_tmr = (c.ka_tmr \/ (c.reg_wanted /\ KeepAlive))
        /\ b.reg_wanted = c.reg_wanted /\ b.ka_in_flight = c.ka_in_flight
        /\ b.reg_state = c.reg_state /\ b.reconnecting = c.reconnecting /\ b.told = c.told
    BY <2>1, ArmFx
  <2> HIDE DEF b
  <2>4. Fine(b, FALSE) BY <1>1, <2>2, <2>3
  <2> QED BY <2>4 DEF b, c
<1> QED BY <1>2, <1>3

\* A failure decided, reported and then retried, or retried and then reported: a
\* recovery that is told has its retry armed.
LEMMA RetryFine ==
    ASSUME NEW a, Sound(a), NEW error \in RegErrors, NEW d \in Delays,
           a.ka_tmr => KeepAlive,
           a.ka_in_flight => KeepAlive \/ "keepalive_now" \in AppOps
    PROVE  LET b == RegFailState(a, error)
           IN  Fine(ScheduleRetry(Emit(b, b.reg_state, error), d), FALSE)
<1> DEFINE b == RegFailState(a, error)
           e == Emit(b, b.reg_state, error)
           c == ScheduleRetry(e, d)
<1>0. a \in AcctType BY DEF Sound
<1>1. /\ Rest(a, b) /\ b.retry_tmr = a.retry_tmr
      /\ \/ /\ b.reg_state = "RECONNECTING" /\ b.reconnecting = TRUE
            /\ b.reg_wanted /\ error # "AUTH" /\ (b.retry_tmr \/ RetryBudgetLeft(b))
         \/ b.reg_state = "FAILED" /\ b.reconnecting = FALSE
  BY <1>0, FailStateFx
<1>2. Sound(b) /\ b \in AcctType /\ b.reg_state \in RegStates
  BY FailStateLemma DEF Sound, RegStates
<1> HIDE DEF b
<1>3. Flags(b, e) /\ (b.reg_state = "FAILED" => e.told.state = "FAILED")
  BY <1>2, EmitFx
<1>4. Sound(e) /\ e.retry_attempt = b.retry_attempt
  BY <1>2, EmitLemma DEF Good, Same
<1>5. RetryBudgetLeft(e) <=> RetryBudgetLeft(b)
  <2>1. e.retry_max_attempts = b.retry_max_attempts
    BY <1>2 DEF Emit, ReconnectReset, AcctType
  <2> QED BY <1>4, <2>1 DEF RetryBudgetLeft
<1> HIDE DEF e
<1>6. /\ Rest(e, c)
      /\ \/ e.retry_tmr /\ c = e
         \/ /\ ~e.retry_tmr /\ ~RetryBudgetLeft(e) /\ ~c.retry_tmr /\ ~c.reconnecting
            /\ IF e.reg_state = "RECONNECTING"
               THEN c.reg_state = "FAILED" /\ c.told.state = "FAILED"
               ELSE c.reg_state = e.reg_state /\ c.told = e.told
         \/ /\ ~e.retry_tmr /\ RetryBudgetLeft(e) /\ c.retry_tmr /\ c.reconnecting
            /\ c.reg_state = "RECONNECTING"
            /\ c.told.state \in {"RECONNECTING", e.told.state}
  BY <1>4, ScheduleFx
<1> HIDE DEF c
<1>7. Honest(c) BY <1>1, <1>3, <1>6 DEF Honest
<1>8. Owed(c) => Worked(c) BY <1>1, <1>3, <1>5, <1>6 DEF Owed, Worked
<1>9. Probed(c) BY <1>1, <1>3, <1>6 DEF Probed
<1>10. Fine(c, FALSE) BY <1>7, <1>8, <1>9 DEF Fine
<1> QED BY <1>10 DEF b, c, e

\* A refused REGISTER leaves the account owed nothing it does not get.
LEMMA RefusedFine ==
    ASSUME NEW a, Good(a), NEW error \in RegErrors, NEW d \in Delays,
           a.ka_in_flight => KeepAlive \/ "keepalive_now" \in AppOps
    PROVE  Fine(OnRegisterFail(a, error, d), FALSE)
<1> DEFINE f == RegFailState(a, error)
           b == [f EXCEPT !.reg_error = error, !.ka_tmr = FALSE, !.ua = "fail"]
           c == IF error = "AUTH" THEN b ELSE ScheduleRetry(b, d)
           r == Emit(c, b.reg_state, error)
<1>0. a \in AcctType /\ Sound(a) BY DEF Good, Sound
<1>1. /\ Rest(a, f) /\ f.retry_tmr = a.retry_tmr
      /\ \/ /\ f.reg_state = "RECONNECTING" /\ f.reconnecting = TRUE
            /\ f.reg_wanted /\ error # "AUTH" /\ (f.retry_tmr \/ RetryBudgetLeft(f))
         \/ f.reg_state = "FAILED" /\ f.reconnecting = FALSE
  BY <1>0, FailStateFx
<1>2. Sound(f) BY <1>0, FailStateLemma
<1>3. OnRegisterFail(a, error, d) = r BY DEF OnRegisterFail
<1> HIDE DEF f
<1>4. /\ b \in AcctType /\ Alike(f, b) /\ (RetryBudgetLeft(b) <=> RetryBudgetLeft(f))
      /\ b.reg_wanted = f.reg_wanted /\ b.ka_tmr = FALSE /\ b.ka_in_flight = f.ka_in_flight
      /\ b.reconnecting = f.reconnecting
  BY <1>2 DEF Sound, AcctType, Alike, Kept, Same, RetryBudgetLeft
<1> HIDE DEF b
<1>5. Sound(b) BY <1>2, <1>4, AlikeLemma
<1>6. /\ Rest(b, c)
      /\ \/ (error = "AUTH" \/ b.retry_tmr) /\ c = b
         \/ /\ ~b.retry_tmr /\ ~RetryBudgetLeft(b) /\ ~c.retry_tmr /\ ~c.reconnecting
            /\ IF b.reg_state = "RECONNECTING"
               THEN c.reg_state = "FAILED" /\ c.told.state = "FAILED"
               ELSE c.reg_state = b.reg_state /\ c.told = b.told
         \/ /\ ~b.retry_tmr /\ RetryBudgetLeft(b) /\ c.retry_tmr /\ c.reconnecting
            /\ c.reg_state = "RECONNECTING"
            /\ c.told.state \in {"RECONNECTING", b.told.state}
  BY <1>5, ScheduleFx
<1>7. c \in AcctType BY <1>5, ScheduleLemma DEF Sound
<1> HIDE DEF c
<1>8. /\ Flags(c, r)
      /\ r.told.state = b.reg_state \/ (b.reg_state = "RECONNECTING" /\ r.told = c.told)
  BY <1>7, EmitFx
<1> HIDE DEF r
<1>9. Honest(r) BY <1>1, <1>4, <1>6, <1>8 DEF Honest, Alike, Same
<1>10. Owed(r) => Worked(r) BY <1>1, <1>4, <1>6, <1>8 DEF Owed, Worked, Alike, Same
<1>11. Probed(r) BY <1>1, <1>4, <1>6, <1>8 DEF Probed, Alike
<1>12. Fine(r, FALSE) BY <1>9, <1>10, <1>11 DEF Fine
<1> QED BY <1>3, <1>12

\* What is fine with no handover pending is fine with one.
LEMMA FineAnyway ==
    ASSUME NEW a, NEW pending, Fine(a, FALSE)
    PROVE  Fine(a, pending)
BY DEF Fine

\* Fields that nothing here looks at.
LEMMA FlagsFine ==
    ASSUME NEW a, NEW b, NEW pending, Fine(a, pending), Flags(a, b), b.told = a.told
    PROVE  Fine(b, pending)
BY DEF Fine, Honest, Owed, Worked, Probed

\* The answers.
LEMMA AnswersFine ==
    ASSUME IInv, OwedInv, Answers
    PROVE  OwedInv'
<1>g. /\ Good(acct) /\ Sound(acct) /\ acct \in AcctType /\ settling' = settling
      /\ Honest(acct) /\ Fine(acct, settling)
  BY IInvGood DEF Good, Sound, OwedInv, Fine, Answers, RegisterOk, RegisterFail,
     RegisterOkUnreported, KeepaliveAnswered, KeepaliveLost, SrvDone, netVars
<1>k. /\ acct.ka_tmr => KeepAlive
      /\ acct.ka_in_flight => KeepAlive \/ "keepalive_now" \in AppOps
  BY <1>g DEF Honest
<1> SUFFICES Fine(acct', settling) BY <1>g DEF OwedInv
<1>1. CASE RegisterOk
  <2> DEFINE b == [Recovered(acct) EXCEPT !.ka_failed = FALSE, !.reg_error = "OK", !.ua = "ok"]
  <2>1. acct' = Emit(KeepaliveArm(b), "REGISTERED", "OK") BY <1>1 DEF RegisterOk, OnRegisterOk
  <2>2. /\ b \in AcctType /\ b.reg_state = "REGISTERED" /\ b.reconnecting = FALSE
        /\ b.ka_tmr = acct.ka_tmr /\ b.ka_in_flight = acct.ka_in_flight
        /\ b.retry_attempt = 0 /\ Ticking(b)
    BY ZenonT(60), <1>g, ZeroFacts DEF Sound, Ticking, AcctType, Recovered, RegStates, RegErrors
  <2> HIDE DEF b
  <2>3. Sound(b) BY <2>2, ZeroFacts DEF Sound, Room
  <2> QED BY <1>k, <2>1, <2>2, <2>3, BackFine, FineAnyway
<1>2. ASSUME NEW e \in {"AUTH", "SERVER_5XX", "TRANSPORT"}, NEW d \in Delays, RegisterFail(e, d)
      PROVE  Fine(acct', settling)
  BY <1>2, <1>g, <1>k, RefusedFine, FineAnyway DEF RegisterFail, RegErrors
<1>3. CASE RegisterOkUnreported
  <2>1. Flags(acct, acct') /\ acct'.told = acct.told
    BY <1>3, <1>g DEF RegisterOkUnreported, AcctType
  <2> QED BY <1>g, <2>1, FlagsFine
<1>4. CASE KeepaliveAnswered
  <2> DEFINE a == [acct EXCEPT !.ka_in_flight = FALSE, !.ka_failed = FALSE]
             b == [Recovered(a) EXCEPT !.reg_error = "OK"]
             e == Emit(b, "REGISTERED", "OK")
             r == KeepaliveArm(a)
  <2>1. acct' = r \/ acct' = KeepaliveArm(e)
    BY <1>4 DEF KeepaliveAnswered
  <2>2. /\ a \in AcctType /\ Alike(acct, a) /\ a.ka_in_flight = FALSE
        /\ a.ka_tmr = acct.ka_tmr /\ a.reg_wanted = acct.reg_wanted
        /\ a.reconnecting = acct.reconnecting
    BY <1>g DEF AcctType, Alike, Kept, Same
  <2> HIDE DEF a
  <2>3. Sound(a) BY <1>g, <2>2, AlikeLemma
  <2>4. CASE acct' = r
    <3>1. /\ r.ka_tmr = (a.ka_tmr \/ (a.reg_wanted /\ KeepAlive))
          /\ r.reg_wanted = a.reg_wanted /\ r.reg_watch_tmr = a.reg_watch_tmr
          /\ r.ka_in_flight = a.ka_in_flight /\ r.reg_state = a.reg_state
          /\ r.reconnecting = a.reconnecting /\ r.retry_tmr = a.retry_tmr /\ r.told = a.told
      BY <2>2, ArmFx
    <3> HIDE DEF r
    <3>2. Honest(r) BY <1>g, <2>2, <3>1 DEF Honest, Alike
    <3>3. Careful /\ Owed(r) => Worked(r) \/ settling
      BY <1>g, <2>2, <3>1 DEF Fine, Owed, Worked, Alike, Same, Kept
    <3>4. Probed(r) BY <3>1 DEF Probed
    <3>5. Fine(r, settling) BY <3>2, <3>3, <3>4 DEF Fine
    <3> QED BY <2>4, <3>5
  <2>5. CASE acct' = KeepaliveArm(e)
    <3>1. /\ b \in AcctType /\ b.retry_attempt = 0 /\ b.reg_state = "REGISTERED" /\ Ticking(b)
          /\ b.reconnecting = FALSE /\ b.ka_tmr = a.ka_tmr /\ b.ka_in_flight = a.ka_in_flight
      BY <2>2, <2>3, ZeroFacts DEF Sound, Ticking, AcctType, Recovered, RegStates, RegErrors
    <3> HIDE DEF b
    <3>2. Sound(b) BY <3>1, ZeroFacts DEF Sound, Room
    <3>3. Fine(KeepaliveArm(e), FALSE) BY <1>k, <2>2, <3>1, <3>2, BackFine
    <3> QED BY <2>5, <3>3, FineAnyway
  <2> QED BY <2>1, <2>4, <2>5
<1>5. ASSUME NEW d \in Delays, KeepaliveLost(d)
      PROVE  Fine(acct', settling)
  <2> DEFINE a == [acct EXCEPT !.ka_in_flight = FALSE, !.ka_failed = TRUE,
                               !.reg_error = "TIMEOUT"]
             f == RegFailState(a, "TIMEOUT")
             b == [a EXCEPT !.reconnecting = a.reg_wanted,
                            !.reg_state = IF a.reg_wanted THEN "RECONNECTING"
                                                          ELSE "FAILED"]
             c == Emit(b, b.reg_state, "TIMEOUT")
             r == ScheduleRetry(Emit(f, f.reg_state, "TIMEOUT"), d)
             k == KeepaliveArm(c)
  <2>1. /\ acct.ka_in_flight
        /\ \/ acct' = r
           \/ acct' = k /\ ~(KeepaliveReregister /\ a.reg_wanted)
    BY <1>5 DEF KeepaliveLost
  <2>2. /\ a \in AcctType /\ Alike(acct, a) /\ a.ka_in_flight = FALSE
        /\ a.ka_tmr = acct.ka_tmr /\ a.reg_wanted = acct.reg_wanted
        /\ a.reconnecting = acct.reconnecting /\ a.reg_wanted \in BOOLEAN
    BY <1>g DEF AcctType, Alike, Kept, Same, RegErrors
  <2> HIDE DEF a
  <2>3. Sound(a) BY <1>g, <2>2, AlikeLemma
  <2>4. CASE acct' = r
    <3>1. Fine(r, FALSE) BY <1>k, <2>2, <2>3, RetryFine DEF RegErrors
    <3> QED BY <2>4, <3>1, FineAnyway
  <2>5. CASE acct' = k /\ ~(KeepaliveReregister /\ a.reg_wanted)
    <3>1. /\ b \in AcctType /\ Rest(a, b) /\ Same(a, b) /\ Kept(a, b) /\ b.reg_state \in RegStates
          /\ b.reconnecting = a.reg_wanted
          /\ b.reg_state = IF a.reg_wanted THEN "RECONNECTING" ELSE "FAILED"
      BY ZenonT(60), <2>2 DEF AcctType, Same, Kept, RegStates
    <3> HIDE DEF b
    <3>2. Sound(b) BY <2>3, <3>1 DEF Sound, Room, Ticking, Same, Kept
    <3>3. c \in AcctType BY <3>1, <3>2, EmitLemma DEF RegErrors, Good, Sound
    <3>4. Flags(b, c) /\ (b.reg_state = "FAILED" => c.told.state = "FAILED")
      BY <3>1, EmitFx
    <3> HIDE DEF c
    <3>5. /\ k.ka_tmr = (c.ka_tmr \/ (c.reg_wanted /\ KeepAlive))
          /\ k.reg_wanted = c.reg_wanted /\ k.reg_watch_tmr = c.reg_watch_tmr
          /\ k.ka_in_flight = c.ka_in_flight /\ k.reg_state = c.reg_state
          /\ k.reconnecting = c.reconnecting /\ k.retry_tmr = c.retry_tmr /\ k.told = c.told
      BY <3>3, ArmFx
    <3> HIDE DEF k
    <3>6. Honest(k) BY <1>k, <2>2, <3>1, <3>4, <3>5 DEF Honest
    <3>7. Careful /\ Owed(k) => Worked(k)
      <4>1. Careful /\ a.reg_wanted => KeepAlive BY <1>k, <2>1, <2>5 DEF Careful
      <4> QED BY <2>2, <3>1, <3>4, <3>5, <4>1 DEF Owed, Worked
    <3>8. Probed(k) BY <3>1, <3>4, <3>5 DEF Probed
    <3>9. Fine(k, settling) BY <3>6, <3>7, <3>8 DEF Fine
    <3> QED BY <2>5, <3>9
  <2> QED BY <2>1, <2>4, <2>5
<1>6. ASSUME NEW n \in 0 .. SrvTargets, SrvDone(n)
      PROVE  Fine(acct', settling)
  <2>1. Flags(acct, acct') /\ acct'.told = acct.told
    BY <1>6, <1>g DEF SrvDone, AcctType
  <2> QED BY <1>g, <2>1, FlagsFine
<1> QED BY <1>1, <1>2, <1>3, <1>4, <1>5, <1>6 DEF Answers

\* keepalive_handler() keeps the probe of a wanted account going.
LEMMA HandlerFine ==
    ASSUME NEW a \in AcctType, NEW busy \in BOOLEAN, NEW pending, Fine(a, pending),
           a.ka_tmr \/ "keepalive_now" \in AppOps
    PROVE  Fine(KeepaliveHandler(a, busy), pending)
<1> DEFINE b == KeepaliveHandler(a, busy)
<1>1. /\ b.reg_wanted = a.reg_wanted /\ b.reg_watch_tmr = a.reg_watch_tmr
      /\ b.reg_state = a.reg_state /\ b.reconnecting = a.reconnecting
      /\ b.retry_tmr = a.retry_tmr /\ b.told = a.told
      /\ b.ka_tmr => KeepAlive
      /\ b.ka_in_flight => a.ka_in_flight \/ a.reg_wanted
      /\ a.reg_wanted /\ KeepAlive => b.ka_tmr \/ b.ka_in_flight
  BY ProbeFx
<1> HIDE DEF b
<1>2. Honest(b) BY <1>1 DEF Fine, Honest
<1>3. Careful /\ Owed(b) => Worked(b) \/ pending BY <1>1 DEF Fine, Owed, Worked
<1>4. Probed(b) BY <1>1 DEF Probed
<1>5. Fine(b, pending) BY <1>2, <1>3, <1>4 DEF Fine
<1> QED BY <1>5 DEF b

\* A new account has told nothing and wants nothing.
LEMMA NewFine ==
    ASSUME NEW p, NEW pending
    PROVE  /\ Fine(NewAccount(p), pending)
           /\ Fine([NewAccount(p) EXCEPT !.destroyed = TRUE], pending)
<1> DEFINE n == NewAccount(p)
           m == [n EXCEPT !.destroyed = TRUE]
<1>1. /\ n.told.state = "UNREGISTERED" /\ n.reconnecting = FALSE /\ n.ka_tmr = FALSE
      /\ n.ka_in_flight = FALSE /\ n.reg_wanted = FALSE
      /\ m.told.state = "UNREGISTERED" /\ m.reconnecting = FALSE /\ m.ka_tmr = FALSE
      /\ m.ka_in_flight = FALSE /\ m.reg_wanted = FALSE
  BY DEF NewAccount, Told
<1> HIDE DEF n, m
<1>2. Fine(n, pending) /\ Fine(m, pending) BY <1>1 DEF Fine, Honest, Owed, Probed
<1> QED BY <1>2 DEF n, m

\* The timers: the watchdog stops only when its account is told how it ended, or
\* when a retry is armed.
LEMMA TimersFine ==
    ASSUME IInv, OwedInv, Timers
    PROVE  OwedInv'
<1>g. /\ Good(acct) /\ Sound(acct) /\ acct \in AcctType /\ settling' = settling
      /\ Honest(acct) /\ Fine(acct, settling)
  BY IInvGood DEF Good, Sound, OwedInv, Fine, Timers, RetryTimer, RegWatch, KeepaliveTimer,
     netVars
<1>k. /\ acct.ka_tmr => KeepAlive
      /\ acct.ka_in_flight => KeepAlive \/ "keepalive_now" \in AppOps
      /\ acct.told.state = "RECONNECTING" => acct.reg_state = "RECONNECTING"
  BY <1>g DEF Honest
<1> SUFFICES Fine(acct', settling) BY <1>g DEF OwedInv
<1>1. ASSUME NEW v \in Vanishing, RetryTimer(v)
      PROVE  Fine(acct', settling)
  <2> DEFINE a == [acct EXCEPT !.retry_tmr = FALSE]
             b == SrvAdvance(a)
  <2>1. /\ acct.retry_tmr /\ acct.retry_attempt < AttemptBound
        /\ acct' = WatchRegistration(UaRegister(b, v))
    BY <1>1 DEF RetryTimer
  <2>2. /\ a \in AcctType /\ Kept(acct, a) /\ a.reg_state = acct.reg_state
        /\ a.told = acct.told /\ a.retry_attempt = acct.retry_attempt
        /\ a.ka_tmr = acct.ka_tmr /\ a.ka_in_flight = acct.ka_in_flight
    BY <1>g DEF AcctType, Kept
  <2> HIDE DEF a
  <2>3. Good(a) BY <1>g, <2>1, <2>2 DEF Good, Sound, Room, Ticking, Kept, Faithful
  <2>4. Good(b) /\ Flags(a, b) /\ b.told = a.told BY <2>2, <2>3, SrvLemma, SrvFx
  <2> HIDE DEF b
  <2>5. Fine(acct', FALSE) BY <1>k, <2>1, <2>2, <2>4, SendFine
  <2> QED BY <2>5, FineAnyway
<1>2. ASSUME NEW d \in Delays, RegWatch(d)
      PROVE  Fine(acct', settling)
  <2> DEFINE a == [acct EXCEPT !.reg_watch_tmr = FALSE]
             elapsed == IF WatchTicks = 0 THEN 0 ELSE a.reg_watch_elapsed + 1
             b == [a EXCEPT !.reg_watch_elapsed = elapsed]
             c == [a EXCEPT !.reg_watch_elapsed = elapsed, !.reg_watch_tmr = TRUE]
  <2>1. /\ acct.reg_watch_tmr
        /\ \/ acct' = a /\ WatchOver(a)
           \/ acct' = WatchSynthesise(a)
           \/ acct' = WatchTimeout(b, d)
           \/ acct' = c
    <3>1. /\ acct.reg_watch_tmr
          /\ acct' = IF WatchOver(a) THEN a
                     ELSE IF a.ua = "ok" THEN WatchSynthesise(a)
                     ELSE IF WatchTicks # 0 /\ elapsed >= WatchTicks
                     THEN WatchTimeout(b, d) ELSE c
      BY <1>2, Zenon DEF RegWatch
    <3> HIDE DEF a, elapsed, b, c
    <3> QED BY <3>1
  <2>2. elapsed \in 0 .. WatchTicks
    BY <1>g, <2>1, RegistrationAssumption DEF Sound, Ticking, AcctType
  <2>3. /\ a \in AcctType /\ Same(acct, a) /\ ~a.reg_watch_tmr
        /\ a.reg_state = acct.reg_state /\ a.told = acct.told /\ a.reconnecting = acct.reconnecting
        /\ a.ka_tmr = acct.ka_tmr /\ a.ka_in_flight = acct.ka_in_flight
        /\ a.reg_wanted = acct.reg_wanted
    BY <1>g DEF AcctType, Same
  <2> HIDE DEF elapsed, a
  <2>4. /\ b \in AcctType /\ Same(acct, b) /\ ~b.reg_watch_tmr
        /\ b.ka_tmr = a.ka_tmr /\ b.ka_in_flight = a.ka_in_flight
    BY <2>2, <2>3 DEF AcctType, Same
  <2>5. /\ c.reg_state = a.reg_state /\ c.told = a.told /\ c.reconnecting = a.reconnecting
        /\ c.ka_tmr = a.ka_tmr /\ c.ka_in_flight = a.ka_in_flight
        /\ c.reg_wanted = a.reg_wanted /\ c.retry_tmr = a.retry_tmr /\ c.reg_watch_tmr = TRUE
    BY <2>2, <2>3 DEF AcctType, Same
  <2> HIDE DEF b, c
  <2>6. Sound(a) BY <1>g, <2>3 DEF Good, Sound, Room, Ticking, Same
  <2>7. CASE acct' = a /\ WatchOver(a)
    <3>1. Honest(a) /\ (~Vanish => Probed(a))
      BY <1>g, <2>3 DEF Honest, Fine, Probed
    <3>2. Owed(a) => Worked(a)
      BY <1>k, <2>3, <2>7 DEF Owed, Worked, WatchOver
    <3>3. Fine(a, settling) BY <3>1, <3>2 DEF Fine
    <3> QED BY <2>7, <3>3
  <2>8. CASE acct' = WatchSynthesise(a)
    <3> DEFINE e == Recovered(a)
    <3>1. /\ e \in AcctType /\ e.reg_state = "REGISTERED" /\ e.retry_attempt = 0 /\ Ticking(e)
          /\ e.reconnecting = FALSE /\ e.ka_tmr = a.ka_tmr /\ e.ka_in_flight = a.ka_in_flight
      BY <2>6, ZeroFacts DEF Sound, Ticking, AcctType, Recovered, RegStates
    <3>2. acct' = Emit(KeepaliveArm(e), "REGISTERED", "OK") BY <2>8 DEF WatchSynthesise
    <3> HIDE DEF e
    <3>3. Sound(e) BY <3>1, ZeroFacts DEF Sound, Room
    <3>4. Fine(acct', FALSE) BY <1>k, <2>3, <3>1, <3>2, <3>3, BackFine
    <3> QED BY <3>4, FineAnyway
  <2>9. CASE acct' = WatchTimeout(b, d)
    <3> DEFINE e == [b EXCEPT !.reg_error = "TIMEOUT"]
               f == RegFailState(e, "TIMEOUT")
    <3>1. WatchTimeout(b, d) = ScheduleRetry(Emit(f, f.reg_state, "TIMEOUT"), d)
      BY DEF WatchTimeout
    <3>2. /\ e \in AcctType /\ Same(acct, e) /\ ~e.reg_watch_tmr
          /\ e.ka_tmr = b.ka_tmr /\ e.ka_in_flight = b.ka_in_flight
      BY <2>4 DEF AcctType, Same, RegErrors
    <3> HIDE DEF e
    <3>3. Sound(e) BY <1>g, <3>2 DEF Sound, Room, Ticking, Same
    <3>4. Fine(acct', FALSE)
      BY <1>k, <2>3, <2>4, <2>9, <3>1, <3>2, <3>3, RetryFine DEF RegErrors
    <3> QED BY <3>4, FineAnyway
  <2>10. CASE acct' = c
    <3>1. Honest(c) /\ (~Vanish => Probed(c)) /\ Worked(c)
      BY <1>g, <2>3, <2>5 DEF Honest, Fine, Probed, Worked
    <3>2. Fine(c, settling) BY <3>1 DEF Fine
    <3> QED BY <2>10, <3>2
  <2> QED BY <2>1, <2>7, <2>8, <2>9, <2>10
<1>3. ASSUME NEW busy \in BOOLEAN, KeepaliveTimer(busy)
      PROVE  Fine(acct', settling)
  <2>1. acct.ka_tmr /\ acct' = KeepaliveHandler(acct, busy) BY <1>3 DEF KeepaliveTimer
  <2> QED BY <1>g, <1>k, <2>1, HandlerFine
<1> QED BY <1>1, <1>2, <1>3 DEF Timers

\* The application's calls.
LEMMA ApplicationFine ==
    ASSUME IInv, OwedInv, Application
    PROVE  OwedInv'
<1>g. /\ Good(acct) /\ Sound(acct) /\ acct \in AcctType /\ settling' = settling
      /\ Honest(acct) /\ Fine(acct, settling)
  BY IInvGood DEF Good, Sound, OwedInv, Fine, Application, Register, RetryNow, SetPushToken,
     Unregister, CancelRetry, Destroy, SetRetryPolicy, KeepaliveNow, netVars
<1>k. /\ acct.ka_tmr => KeepAlive
      /\ acct.ka_in_flight => KeepAlive \/ "keepalive_now" \in AppOps
      /\ acct.told.state = "RECONNECTING" => acct.reg_state = "RECONNECTING"
  BY <1>g DEF Honest
<1> SUFFICES Fine(acct', settling) BY <1>g DEF OwedInv
<1>1. ASSUME NEW v \in Vanishing, Register(v)
      PROVE  Fine(acct', settling)
  <2> DEFINE a == [acct EXCEPT !.reg_wanted = TRUE, !.reconnecting = FALSE]
             b == SrvResolve(a)
  <2>1. /\ a \in AcctType /\ Alike(acct, a)
        /\ a.ka_tmr = acct.ka_tmr /\ a.ka_in_flight = acct.ka_in_flight
    BY <1>g DEF AcctType, Alike, Kept, Same
  <2>2. acct' = WatchRegistration(UaRegister(b, v)) BY <1>1 DEF Register
  <2> HIDE DEF a
  <2>3. Good(a) BY <1>g, <2>1, AlikeLemma DEF Good
  <2>4. Good(b) /\ Flags(a, b) /\ b.told = a.told BY <2>1, <2>3, SrvLemma, SrvFx
  <2> HIDE DEF b
  <2>5. Fine(acct', FALSE) BY <1>k, <2>1, <2>2, <2>4, SendFine DEF Alike
  <2> QED BY <2>5, FineAnyway
<1>2. ASSUME NEW v \in Vanishing, RetryNow(v)
      PROVE  Fine(acct', settling)
  <2> DEFINE a == [acct EXCEPT !.retry_tmr = FALSE, !.retry_attempt = 0,
                               !.reg_wanted = TRUE]
  <2>1. /\ a \in AcctType /\ Kept(acct, a) /\ a.retry_attempt = 0
        /\ a.reg_state = acct.reg_state /\ a.told = acct.told
        /\ a.ka_tmr = acct.ka_tmr /\ a.ka_in_flight = acct.ka_in_flight
    BY <1>g, ZeroFacts DEF AcctType, Kept
  <2>2. acct' = WatchRegistration(UaRegister(a, v)) BY <1>2 DEF RetryNow
  <2> HIDE DEF a
  <2>3. Good(a)
    BY <1>g, <2>1, ZeroFacts DEF Good, Sound, Room, Ticking, Kept, Faithful
  <2>5. Fine(acct', FALSE) BY <1>k, <2>1, <2>2, <2>3, SendFine
  <2> QED BY <2>5, FineAnyway
<1>3. ASSUME NEW v \in Vanishing, SetPushToken(v)
      PROVE  Fine(acct', settling)
  <2>1. /\ acct.reg_state \notin {"REGISTERING", "UNREGISTERING", "RECONNECTING"}
        /\ acct' = UaRegister(acct, v) /\ v \in BOOLEAN /\ (~Vanish => ~v)
        /\ "set_push_token" \in AppOps
    BY <1>3 DEF SetPushToken, Vanishing, Invoked
  <2>2. /\ Rest(acct, acct') /\ acct'.retry_tmr = acct.retry_tmr
        /\ acct'.reconnecting = acct.reconnecting
        /\ v => acct' = acct
        /\ ~v /\ acct.reconnecting => /\ acct'.reg_state = "RECONNECTING"
                                      /\ acct'.told.state \in {"RECONNECTING", acct.told.state}
        /\ ~v /\ ~acct.reconnecting => /\ acct'.reg_state = "REGISTERING"
                                       /\ acct'.told.state = "REGISTERING"
    BY <1>g, <2>1, UaRegisterFx
  <2>3. Honest(acct') BY <1>g, <2>1, <2>2 DEF Honest
  <2>4. Careful => ~Owed(acct')
    <3>1. Careful => ~Vanish BY <2>1 DEF Careful
    <3>2. ~Vanish => ~acct.reconnecting BY <1>g, <2>1 DEF Honest
    <3> QED BY <2>1, <2>2, <3>1, <3>2 DEF Owed
  <2>5. ~Vanish => Probed(acct') BY <2>1, <2>2 DEF Probed
  <2> QED BY <2>3, <2>4, <2>5 DEF Fine
<1>4. CASE Unregister
  <2> DEFINE a == [acct EXCEPT !.reg_wanted = FALSE, !.reconnecting = FALSE,
                               !.ka_failed = FALSE, !.reg_state = "UNREGISTERING",
                               !.reg_watch_tmr = FALSE, !.ka_tmr = FALSE,
                               !.ua = "idle"]
  <2>1. /\ a \in AcctType /\ a.reg_wanted = FALSE /\ a.reconnecting = FALSE /\ a.ka_tmr = FALSE
        /\ a.ka_in_flight = acct.ka_in_flight
    BY <1>g DEF AcctType, RegStates
  <2>2. acct' = Emit(a, "UNREGISTERING", "OK") BY <1>4 DEF Unregister
  <2> HIDE DEF a
  <2>3. Flags(a, acct') /\ acct'.told.state = "UNREGISTERING" BY <2>1, <2>2, EmitFx
  <2>4. Honest(acct') /\ ~Owed(acct') /\ Probed(acct')
    BY <1>k, <2>1, <2>3 DEF Honest, Owed, Probed
  <2> QED BY <2>4 DEF Fine
<1>5. CASE CancelRetry
  <2> DEFINE a == [acct EXCEPT !.retry_tmr = FALSE, !.reg_watch_tmr = FALSE,
                               !.retry_attempt = 0]
             b == [a EXCEPT !.reconnecting = FALSE, !.reg_state = "FAILED"]
  <2>1. acct' = IF a.reg_state # "RECONNECTING" THEN a ELSE EmitRaw(b, "FAILED")
    BY <1>5 DEF CancelRetry
  <2>2. /\ a \in AcctType /\ a.reg_state = acct.reg_state /\ a.told = acct.told
        /\ a.ka_tmr = acct.ka_tmr /\ a.ka_in_flight = acct.ka_in_flight
        /\ a.reg_wanted = acct.reg_wanted /\ a.reconnecting = acct.reconnecting
    BY <1>g, ZeroFacts DEF AcctType
  <2> HIDE DEF a
  <2>3. /\ b \in AcctType /\ b.reg_state = "FAILED" /\ b.reconnecting = FALSE
        /\ b.ka_tmr = a.ka_tmr /\ b.ka_in_flight = a.ka_in_flight
    BY <2>2 DEF AcctType, RegStates
  <2> HIDE DEF b
  <2>4. LET r == EmitRaw(b, "FAILED") IN Flags(b, r) /\ r.told.state = "FAILED"
    BY <2>3, EmitRawFx
  <2>5. Honest(acct') /\ ~Owed(acct') /\ (~Vanish => Probed(acct'))
    <3>1. CASE a.reg_state # "RECONNECTING"
      BY <1>g, <1>k, <2>1, <2>2, <3>1 DEF Honest, Owed, Probed, Fine
    <3>2. CASE a.reg_state = "RECONNECTING"
      BY <1>k, <2>1, <2>2, <2>3, <2>4, <3>2 DEF Honest, Owed, Probed
    <3> QED BY <3>1, <3>2
  <2> QED BY <2>5 DEF Fine
<1>6. CASE Destroy
  <2>1. acct' = [NewAccount(acct.retry_max_attempts) EXCEPT !.destroyed = TRUE]
    BY <1>6 DEF Destroy
  <2> QED BY <2>1, NewFine
<1>7. ASSUME NEW p \in Policies, SetRetryPolicy(p)
      PROVE  Fine(acct', settling)
  <2>1. Flags(acct, acct') /\ acct'.told = acct.told
    BY <1>7, <1>g DEF SetRetryPolicy, AcctType
  <2> QED BY <1>g, <2>1, FlagsFine
<1>8. ASSUME NEW busy \in BOOLEAN, KeepaliveNow(busy)
      PROVE  Fine(acct', settling)
  <2>1. "keepalive_now" \in AppOps /\ acct' = KeepaliveHandler(acct, busy)
    BY <1>8 DEF KeepaliveNow, Invoked
  <2> QED BY <1>g, <1>k, <2>1, HandlerFine
<1> QED BY <1>1, <1>2, <1>3, <1>4, <1>5, <1>6, <1>7, <1>8 DEF Application

\* vox_account_reg_reconnecting() tells the truth; netmon's timer is what drives it.
LEMMA MarkFx ==
    ASSUME NEW a, Good(a), Honest(a)
    PROVE  LET b == RegReconnecting(a)
           IN  /\ Honest(b) /\ (Probed(a) => Probed(b))
               /\ b.told.state \in {"RECONNECTING", a.told.state}
               /\ b = a \/ b.reconnecting = TRUE
<1> DEFINE c == [a EXCEPT !.reconnecting = TRUE, !.reg_state = "RECONNECTING",
                          !.ka_tmr = FALSE]
           b == Emit(c, "RECONNECTING", "OK")
<1>1. RegReconnecting(a) = a \/ RegReconnecting(a) = b
  BY DEF RegReconnecting
<1>2. /\ c \in AcctType /\ c.reg_state = "RECONNECTING" /\ c.reconnecting = TRUE
      /\ c.ka_tmr = FALSE /\ c.ka_in_flight = a.ka_in_flight /\ c.told = a.told
  BY DEF Good, Sound, AcctType, RegStates
<1> HIDE DEF c
<1>3. Flags(c, b) /\ (b.told.state = "RECONNECTING" \/ b.told = c.told)
  BY <1>2, EmitFx
<1> HIDE DEF b
<1>4. Honest(b) /\ Probed(b) BY <1>2, <1>3 DEF Honest, Probed
<1> QED BY <1>1, <1>2, <1>3, <1>4

\* What a handover does: it drives the accounts until it registers them again or hands
\* them to the retry policy.
LEMMA NetmonFine ==
    ASSUME IInv, OwedInv, Netmon
    PROVE  OwedInv'
<1>g. Good(acct) /\ Honest(acct) /\ Fine(acct, settling)
  BY IInvGood DEF OwedInv, Fine
<1>m. \A a \in Marked : Good(a) /\ Honest(a) /\ (~Vanish => Probed(a))
  BY <1>g, MarkLemma, MarkFx DEF Marked, Fine
<1>1. CASE NetTrigger
  <2>1. acct' \in Marked /\ settling' = TRUE BY <1>1 DEF NetTrigger, Marked
  <2> QED BY <1>m, <2>1 DEF OwedInv, Fine
<1>2. CASE NetWait
  <2>1. acct' \in Marked /\ settling' = TRUE
    BY <1>2 DEF NetWait, netVars, IInv, TypeOK
  <2> QED BY <1>m, <2>1 DEF OwedInv, Fine
<1>3. ASSUME NEW v \in Vanishing, NetHandover(v)
      PROVE  OwedInv'
  <2>1. PICK a \in Marked : acct' = Reregister(a, v) BY <1>3 DEF NetHandover
  <2> DEFINE b == [a EXCEPT !.retry_tmr = FALSE, !.retry_attempt = 0,
                            !.reconnecting = TRUE]
  <2>2. Good(a) /\ Honest(a) /\ (~Vanish => Probed(a)) BY <1>m
  <2>3. \/ /\ acct' = a
           /\ ~a.reg_wanted \/ (a.reg_state = "FAILED" /\ a.reg_error = "AUTH")
        \/ acct' = WatchRegistration(UaRegister(b, v))
    BY <2>1 DEF Reregister
  <2>4. CASE /\ acct' = a
             /\ ~a.reg_wanted \/ (a.reg_state = "FAILED" /\ a.reg_error = "AUTH")
    <3>1. ~Owed(a) BY <2>2, <2>4 DEF Owed, Honest
    <3>2. Fine(a, FALSE) BY <2>2, <3>1 DEF Fine
    <3> QED BY <2>4, <3>2, FineAnyway DEF OwedInv
  <2>5. CASE acct' = WatchRegistration(UaRegister(b, v))
    <3>1. /\ b \in AcctType /\ Kept(a, b) /\ b.retry_attempt = 0
          /\ b.reg_state = a.reg_state /\ b.told = a.told
          /\ b.ka_tmr = a.ka_tmr /\ b.ka_in_flight = a.ka_in_flight
      BY <2>2, ZeroFacts DEF Good, Sound, AcctType, Kept
    <3> HIDE DEF b
    <3>2. Good(b)
      BY <2>2, <3>1, ZeroFacts DEF Good, Sound, Room, Ticking, Kept, Faithful
    <3>3. Fine(acct', FALSE) BY <2>2, <2>5, <3>1, <3>2, SendFine DEF Honest
    <3> QED BY <3>3, FineAnyway DEF OwedInv
  <2> QED BY <2>3, <2>4, <2>5
<1>4. ASSUME NEW d \in Delays, NetGiveUp(d)
      PROVE  OwedInv'
  <2>1. PICK a \in Marked : acct' = IF a.reg_wanted /\ a.reg_state = "RECONNECTING"
                                    THEN ScheduleRetry(a, d) ELSE a
    BY <1>4 DEF NetGiveUp
  <2>2. Good(a) /\ Sound(a) /\ Honest(a) /\ (~Vanish => Probed(a)) BY <1>m DEF Good
  <2>3. CASE ~(a.reg_wanted /\ a.reg_state = "RECONNECTING")
    <3>1. ~Owed(a) BY <2>2, <2>3 DEF Owed, Honest
    <3>2. Fine(a, FALSE) BY <2>2, <3>1 DEF Fine
    <3> QED BY <2>1, <2>3, <3>2, FineAnyway DEF OwedInv
  <2>4. CASE a.reg_wanted /\ a.reg_state = "RECONNECTING"
    <3> DEFINE b == ScheduleRetry(a, d)
    <3>1. acct' = b BY <2>1, <2>4
    <3>2. /\ Rest(a, b)
          /\ \/ a.retry_tmr /\ b = a
             \/ ~b.reconnecting /\ b.reg_state = "FAILED" /\ b.told.state = "FAILED"
             \/ b.retry_tmr /\ b.reconnecting /\ b.reg_state = "RECONNECTING"
      BY <2>2, <2>4, ScheduleFx
    <3> HIDE DEF b
    <3>3. Honest(b) /\ Probed(b)
      BY <2>2, <2>4, <3>2 DEF Honest, Probed
    <3>4. Owed(b) => Worked(b) BY <3>2 DEF Owed, Worked
    <3>5. Fine(b, FALSE) BY <3>3, <3>4 DEF Fine
    <3> QED BY <3>1, <3>5, FineAnyway DEF OwedInv
  <2> QED BY <2>3, <2>4
<1> QED BY <1>1, <1>2, <1>3, <1>4 DEF Netmon

\* RECONNECTING is told only of an account that somebody works on, a REGISTERED one is
\* probed, and every report agrees with the state behind it.
THEOREM OwedInvariant == Spec => []OwedInv
<1>1. Init => OwedInv
  BY NewFine DEF Init, OwedInv
<1>2. IInv /\ OwedInv /\ [Next]_vars => OwedInv'
  <2> SUFFICES ASSUME IInv, OwedInv, [Next]_vars PROVE OwedInv' OBVIOUS
  <2>1. CASE \E p \in Policies : Create(p)
    BY <2>1, NewFine DEF Create, OwedInv
  <2>2. CASE UNCHANGED vars
    BY <2>2 DEF vars, OwedInv
  <2> QED BY <2>1, <2>2, AnswersFine, TimersFine, ApplicationFine, NetmonFine DEF Next
<1> QED BY <1>1, <1>2, InductiveInvariant, PTL DEF Spec

\* An application left on "Reconnecting" is never left there with nothing to reconnect
\* it, for every policy and every mix of answers, handovers and API calls of a careful
\* application (account.c, vox_account_schedule_retry()).
THEOREM RecoveryDriven == Careful => (Spec => []PromiseKept)
<1> SUFFICES ASSUME Careful PROVE Spec => []PromiseKept OBVIOUS
<1>1. OwedInv => PromiseKept
  BY DEF OwedInv, Fine, Owed, Worked, PromiseKept, Driven
<1> QED BY <1>1, OwedInvariant, PTL

\* While every ua_register() leaves a trace, a registration the application wants and
\* believes up is being probed (vox_account_keepalive_arm()).
THEOREM ProbesRun == ~Vanish => (Spec => []ProbeAlive)
<1> SUFFICES ASSUME ~Vanish PROVE Spec => []ProbeAlive OBVIOUS
<1>1. OwedInv => ProbeAlive
  BY DEF OwedInv, Fine, Probed, ProbeAlive
<1> QED BY <1>1, OwedInvariant, PTL

-----------------------------------------------------------------------------
(* Inside a recovery nothing but register() is reported as REGISTERING.    *)

Calm(a) == a.told.state # "REGISTERING"

\* No helper of account.c but an explicit emit reports REGISTERING.
LEMMA CalmOperators ==
    ASSUME NEW a, Sound(a), Calm(a)
    PROVE  /\ \A state, error : state # "REGISTERING" => Calm(Emit(a, state, error))
           /\ \A d \in Delays : Calm(ScheduleRetry(a, d))
           /\ \A e \in RegErrors : Calm(RegFailState(a, e))
           /\ Calm(KeepaliveArm(a)) /\ Calm(WatchRegistration(a)) /\ Calm(SrvAdvance(a))
           /\ \A busy \in BOOLEAN : Calm(KeepaliveHandler(a, busy))
<1>0. a \in AcctType BY DEF Sound
<1>1. ASSUME NEW state, NEW error, state # "REGISTERING"
      PROVE  Calm(Emit(a, state, error))
  BY <1>0, <1>1, EmitFx DEF Calm
<1>2. ASSUME NEW d \in Delays PROVE Calm(ScheduleRetry(a, d))
  <2> DEFINE b == ScheduleRetry(a, d)
  <2>1. b = a \/ b.told.state = "FAILED" \/ b.told = a.told
        \/ b.told.state \in {"RECONNECTING", a.told.state}
    BY ScheduleFx
  <2> QED BY <2>1 DEF Calm
<1>3. ASSUME NEW e \in RegErrors PROVE Calm(RegFailState(a, e))
  BY <1>0, FailStateFx DEF Calm
<1>4. Calm(KeepaliveArm(a)) /\ Calm(WatchRegistration(a)) /\ Calm(SrvAdvance(a))
  BY <1>0, ArmFx, WatchFx, SrvFx DEF Calm
<1>5. ASSUME NEW busy \in BOOLEAN PROVE Calm(KeepaliveHandler(a, busy))
  BY <1>0, ProbeFx DEF Calm
<1> QED BY <1>1, <1>2, <1>3, <1>4, <1>5

\* A REGISTER sent inside a recovery is still the recovery.
LEMMA CalmSend ==
    ASSUME NEW a, Good(a), Calm(a), a.reconnecting, NEW v \in BOOLEAN
    PROVE  Calm(WatchRegistration(UaRegister(a, v)))
<1> DEFINE b == UaRegister(a, v)
<1>1. a \in AcctType BY DEF Good, Sound
<1>2. Sound(b) BY UaRegisterLemma DEF Good
<1>3. b = a \/ b.told.state \in {"RECONNECTING", a.told.state} BY <1>1, UaRegisterFx
<1> HIDE DEF b
<1>4. Calm(b) BY <1>3 DEF Calm
<1>5. Calm(WatchRegistration(b)) BY <1>2, <1>4, CalmOperators
<1> QED BY <1>5 DEF b

\* Nor does a failed attempt and the retry it schedules.
LEMMA CalmRetry ==
    ASSUME NEW a, Sound(a), Calm(a), NEW error \in RegErrors, NEW d \in Delays
    PROVE  LET f == RegFailState(a, error)
           IN  Calm(ScheduleRetry(Emit(f, f.reg_state, error), d))
<1> DEFINE f == RegFailState(a, error)
           e == Emit(f, f.reg_state, error)
<1>1. Sound(f) /\ Calm(f) /\ f.reg_state \in {"RECONNECTING", "FAILED"}
  BY FailStateLemma, CalmOperators
<1> HIDE DEF f
<1>2. Sound(e) /\ Calm(e)
  BY <1>1, EmitLemma, CalmOperators DEF RegStates, Good
<1> HIDE DEF e
<1>3. Calm(ScheduleRetry(e, d)) BY <1>2, CalmOperators
<1> QED BY <1>3 DEF e, f

\* No answer has a recovery reported as REGISTERING.
LEMMA AnswersCalm ==
    ASSUME IInv, acct.told.state = "RECONNECTING", Answers
    PROVE  Calm(acct')
<1>g. Good(acct) /\ Sound(acct) /\ acct \in AcctType /\ Calm(acct)
  BY IInvGood DEF Good, Sound, Calm
<1>1. CASE RegisterOk
  <2> DEFINE b == [Recovered(acct) EXCEPT !.ka_failed = FALSE, !.reg_error = "OK", !.ua = "ok"]
             c == KeepaliveArm(b)
  <2>1. acct' = Emit(c, "REGISTERED", "OK") BY <1>1 DEF RegisterOk, OnRegisterOk
  <2>2. /\ b \in AcctType /\ b.retry_attempt = 0 /\ Ticking(b)
    BY ZenonT(60), <1>g, ZeroFacts DEF Sound, Ticking, AcctType, Recovered, RegStates, RegErrors
  <2> HIDE DEF b
  <2>3. Sound(b) BY <2>2, ZeroFacts DEF Sound, Room
  <2>4. c \in AcctType BY <2>3, ArmLemma DEF Sound
  <2> HIDE DEF c
  <2> QED BY <2>1, <2>4, EmitFx DEF Calm
<1>2. ASSUME NEW e \in RegErrors, NEW d \in Delays, RegisterFail(e, d)
      PROVE  Calm(acct')
  <2> DEFINE f == RegFailState(acct, e)
             b == [f EXCEPT !.reg_error = e, !.ka_tmr = FALSE, !.ua = "fail"]
             c == IF e = "AUTH" THEN b ELSE ScheduleRetry(b, d)
  <2>1. acct' = Emit(c, b.reg_state, e) BY <1>2 DEF RegisterFail, OnRegisterFail
  <2>2. Sound(f) /\ Calm(f) /\ f.reg_state \in {"RECONNECTING", "FAILED"}
    BY <1>g, FailStateLemma, CalmOperators
  <2> HIDE DEF f
  <2>3. b \in AcctType /\ Alike(f, b)
    BY <2>2 DEF Sound, AcctType, Alike, Kept, Same
  <2> HIDE DEF b
  <2>4. Sound(b) /\ Calm(b) /\ b.reg_state # "REGISTERING"
    BY <2>2, <2>3, AlikeLemma DEF Alike, Calm
  <2>5. Sound(c) /\ Calm(c) BY <2>4, ScheduleLemma, CalmOperators
  <2> HIDE DEF c
  <2> QED BY <2>1, <2>4, <2>5, CalmOperators
<1>3. CASE RegisterOkUnreported
  BY <1>3, <1>g DEF RegisterOkUnreported, AcctType, Calm
<1>4. CASE KeepaliveAnswered
  <2> DEFINE a == [acct EXCEPT !.ka_in_flight = FALSE, !.ka_failed = FALSE]
             b == [Recovered(a) EXCEPT !.reg_error = "OK"]
             e == Emit(b, "REGISTERED", "OK")
  <2>1. acct' = KeepaliveArm(a) \/ acct' = KeepaliveArm(e)
    BY <1>4 DEF KeepaliveAnswered
  <2>2. a \in AcctType /\ Alike(acct, a)
    BY <1>g DEF AcctType, Alike, Kept, Same
  <2> HIDE DEF a
  <2>3. Sound(a) /\ Calm(a)
    BY <1>g, <2>2, AlikeLemma DEF Alike, Calm
  <2>4. b \in AcctType /\ b.retry_attempt = 0 /\ b.reg_state = "REGISTERED" /\ Ticking(b)
    BY ZenonT(60), <2>2, <2>3, ZeroFacts DEF Sound, Ticking, AcctType, Recovered, RegStates, RegErrors
  <2> HIDE DEF b
  <2>5. Sound(b) BY <2>4, ZeroFacts DEF Sound, Room
  <2>6. Sound(e) BY <2>4, <2>5, EmitLemma DEF RegStates, RegErrors, Good
  <2>7. Calm(e) BY <2>4, EmitFx DEF Calm
  <2> HIDE DEF e
  <2> QED BY <2>1, <2>3, <2>6, <2>7, CalmOperators
<1>5. ASSUME NEW d \in Delays, KeepaliveLost(d)
      PROVE  Calm(acct')
  <2> DEFINE a == [acct EXCEPT !.ka_in_flight = FALSE, !.ka_failed = TRUE,
                               !.reg_error = "TIMEOUT"]
             f == RegFailState(a, "TIMEOUT")
             b == [a EXCEPT !.reconnecting = a.reg_wanted,
                            !.reg_state = IF a.reg_wanted THEN "RECONNECTING"
                                                          ELSE "FAILED"]
             c == Emit(b, b.reg_state, "TIMEOUT")
             r == ScheduleRetry(Emit(f, f.reg_state, "TIMEOUT"), d)
  <2>1. acct' = r \/ acct' = KeepaliveArm(c) BY <1>5 DEF KeepaliveLost
  <2>2. a \in AcctType /\ Alike(acct, a)
    BY <1>g DEF AcctType, Alike, Kept, Same, RegErrors
  <2> HIDE DEF a
  <2>3. Sound(a) /\ Calm(a) BY <1>g, <2>2, AlikeLemma DEF Alike, Calm
  <2>4. Calm(r) BY <2>3, CalmRetry DEF RegErrors
  <2> HIDE DEF r, f
  <2>5. /\ b \in AcctType /\ Same(a, b) /\ Kept(a, b) /\ b.told = a.told
        /\ b.reg_state \in {"RECONNECTING", "FAILED"}
    BY ZenonT(60), <2>2 DEF AcctType, Same, Kept, RegStates
  <2> HIDE DEF b
  <2>6. Sound(b) /\ Calm(b)
    BY <2>3, <2>5 DEF Sound, Room, Ticking, Same, Kept, Calm
  <2>7. Sound(c) /\ Calm(c)
    BY <2>5, <2>6, EmitLemma, CalmOperators DEF RegErrors, RegStates, Good
  <2> HIDE DEF c
  <2> QED BY <2>1, <2>4, <2>7, CalmOperators
<1>6. ASSUME NEW n \in 0 .. SrvTargets, SrvDone(n)
      PROVE  Calm(acct')
  BY <1>6, <1>g DEF SrvDone, AcctType, Calm
<1> QED BY <1>1, <1>2, <1>3, <1>4, <1>5, <1>6 DEF Answers, RegErrors

\* No timer does.
LEMMA TimersCalm ==
    ASSUME IInv, acct.told.state = "RECONNECTING", acct.reconnecting, Timers
    PROVE  Calm(acct')
<1>g. Good(acct) /\ Sound(acct) /\ acct \in AcctType /\ Calm(acct)
  BY IInvGood DEF Good, Sound, Calm
<1>1. ASSUME NEW v \in BOOLEAN, RetryTimer(v)
      PROVE  Calm(acct')
  <2> DEFINE a == [acct EXCEPT !.retry_tmr = FALSE]
             b == SrvAdvance(a)
  <2>1. /\ acct.retry_tmr /\ acct.retry_attempt < AttemptBound
        /\ acct' = WatchRegistration(UaRegister(b, v))
    BY <1>1 DEF RetryTimer
  <2>2. /\ a \in AcctType /\ Kept(acct, a) /\ a.reg_state = acct.reg_state
        /\ a.told = acct.told /\ a.retry_attempt = acct.retry_attempt
        /\ a.reconnecting = acct.reconnecting
    BY <1>g DEF AcctType, Kept
  <2> HIDE DEF a
  <2>3. Good(a) BY <1>g, <2>1, <2>2 DEF Good, Sound, Room, Ticking, Kept, Faithful
  <2>4. Good(b) /\ Flags(a, b) /\ b.told = a.told BY <2>2, <2>3, SrvLemma, SrvFx
  <2> HIDE DEF b
  <2>5. Calm(b) /\ b.reconnecting BY <1>g, <2>2, <2>4 DEF Calm
  <2> QED BY <2>1, <2>4, <2>5, CalmSend
<1>2. ASSUME NEW d \in Delays, RegWatch(d)
      PROVE  Calm(acct')
  <2> DEFINE a == [acct EXCEPT !.reg_watch_tmr = FALSE]
             elapsed == IF WatchTicks = 0 THEN 0 ELSE a.reg_watch_elapsed + 1
             b == [a EXCEPT !.reg_watch_elapsed = elapsed]
             c == [a EXCEPT !.reg_watch_elapsed = elapsed, !.reg_watch_tmr = TRUE]
  <2>1. /\ acct.reg_watch_tmr
        /\ acct' \in {a, c, WatchSynthesise(a), WatchTimeout(b, d)}
    BY <1>2, Zenon DEF RegWatch
  <2>2. elapsed \in 0 .. WatchTicks
    BY <1>g, <2>1, RegistrationAssumption DEF Sound, Ticking, AcctType
  <2>3. a \in AcctType /\ Same(acct, a) /\ ~a.reg_watch_tmr /\ a.told = acct.told
    BY <1>g DEF AcctType, Same
  <2> HIDE DEF elapsed, a
  <2>4. /\ b \in AcctType /\ Same(acct, b) /\ ~b.reg_watch_tmr /\ b.told = a.told
        /\ c.told = a.told
    BY <2>2, <2>3 DEF AcctType, Same
  <2> HIDE DEF b, c
  <2>6. Sound(a) BY <1>g, <2>3 DEF Sound, Room, Ticking, Same
  <2>7. Calm(WatchSynthesise(a))
    <3> DEFINE e == Recovered(a)
               h == KeepaliveArm(e)
    <3>1. e \in AcctType /\ e.retry_attempt = 0 /\ Ticking(e)
      BY <2>6, ZeroFacts DEF Sound, Ticking, AcctType, Recovered, RegStates
    <3>2. WatchSynthesise(a) = Emit(h, "REGISTERED", "OK") BY DEF WatchSynthesise
    <3> HIDE DEF e
    <3>3. Sound(e) BY <3>1, ZeroFacts DEF Sound, Room
    <3>4. h \in AcctType BY <3>3, ArmLemma DEF Sound
    <3> HIDE DEF h
    <3> QED BY <3>2, <3>4, EmitFx DEF Calm
  <2>8. Calm(WatchTimeout(b, d))
    <3> DEFINE e == [b EXCEPT !.reg_error = "TIMEOUT"]
               f == RegFailState(e, "TIMEOUT")
    <3>1. WatchTimeout(b, d) = ScheduleRetry(Emit(f, f.reg_state, "TIMEOUT"), d)
      BY DEF WatchTimeout
    <3>2. e \in AcctType /\ Same(acct, e) /\ ~e.reg_watch_tmr /\ e.told = b.told
      BY <2>4 DEF AcctType, Same, RegErrors
    <3> HIDE DEF e
    <3>3. Sound(e) /\ Calm(e)
      BY <1>g, <2>3, <2>4, <3>2 DEF Sound, Room, Ticking, Same, Calm
    <3> QED BY <3>1, <3>3, CalmRetry DEF RegErrors
  <2>9. Calm(a) /\ Calm(c) BY <1>g, <2>3, <2>4 DEF Calm
  <2> QED BY <2>1, <2>7, <2>8, <2>9
<1>3. ASSUME NEW busy \in BOOLEAN, KeepaliveTimer(busy)
      PROVE  Calm(acct')
  BY <1>3, <1>g, CalmOperators DEF KeepaliveTimer
<1>4. Vanishing \subseteq BOOLEAN BY DEF Vanishing
<1> QED BY <1>1, <1>2, <1>3, <1>4 DEF Timers

\* Only the application's register() does.
LEMMA ApplicationCalm ==
    ASSUME IInv, Honest(acct), acct.told.state = "RECONNECTING", acct.reconnecting, Application
    PROVE  Calm(acct') \/ \E v \in BOOLEAN : Register(v)
<1>g. Good(acct) /\ Sound(acct) /\ acct \in AcctType /\ Calm(acct)
      /\ acct.reg_state = "RECONNECTING"
  BY IInvGood DEF Good, Sound, Calm, Honest
<1>1. Vanishing \subseteq BOOLEAN BY DEF Vanishing
<1>2. ASSUME NEW v \in BOOLEAN, RetryNow(v)
      PROVE  Calm(acct')
  <2> DEFINE a == [acct EXCEPT !.retry_tmr = FALSE, !.retry_attempt = 0,
                               !.reg_wanted = TRUE]
  <2>1. /\ a \in AcctType /\ Kept(acct, a) /\ a.retry_attempt = 0
        /\ a.reg_state = acct.reg_state /\ a.told = acct.told
        /\ a.reconnecting = acct.reconnecting
    BY <1>g, ZeroFacts DEF AcctType, Kept
  <2>2. acct' = WatchRegistration(UaRegister(a, v)) BY <1>2 DEF RetryNow
  <2> HIDE DEF a
  <2>3. Good(a)
    BY <1>g, <2>1, ZeroFacts DEF Good, Sound, Room, Ticking, Kept, Faithful
  <2> QED BY <1>g, <2>1, <2>2, <2>3, CalmSend DEF Calm
<1>3. ASSUME NEW v \in BOOLEAN, SetPushToken(v)
      PROVE  FALSE
  BY <1>3, <1>g DEF SetPushToken
<1>4. CASE Unregister
  <2> DEFINE a == [acct EXCEPT !.reg_wanted = FALSE, !.reconnecting = FALSE,
                               !.ka_failed = FALSE, !.reg_state = "UNREGISTERING",
                               !.reg_watch_tmr = FALSE, !.ka_tmr = FALSE,
                               !.ua = "idle"]
  <2>1. a \in AcctType BY ZenonT(60), <1>g DEF AcctType, RegStates
  <2>2. acct' = Emit(a, "UNREGISTERING", "OK") BY <1>4 DEF Unregister
  <2> HIDE DEF a
  <2> QED BY <2>1, <2>2, EmitFx DEF Calm
<1>5. CASE CancelRetry
  <2> DEFINE a == [acct EXCEPT !.retry_tmr = FALSE, !.reg_watch_tmr = FALSE,
                               !.retry_attempt = 0]
             b == [a EXCEPT !.reconnecting = FALSE, !.reg_state = "FAILED"]
  <2>1. acct' = IF a.reg_state # "RECONNECTING" THEN a ELSE EmitRaw(b, "FAILED")
    BY <1>5 DEF CancelRetry
  <2>2. a \in AcctType /\ a.told = acct.told
    BY <1>g, ZeroFacts DEF AcctType
  <2> HIDE DEF a
  <2>3. b \in AcctType BY <2>2 DEF AcctType, RegStates
  <2> HIDE DEF b
  <2>4. EmitRaw(b, "FAILED").told.state = "FAILED" BY <2>3, EmitRawFx
  <2> QED BY <1>g, <2>1, <2>2, <2>4 DEF Calm
<1>6. CASE Destroy
  <2>1. acct' = [NewAccount(acct.retry_max_attempts) EXCEPT !.destroyed = TRUE]
    BY <1>6 DEF Destroy
  <2> QED BY <2>1 DEF NewAccount, Told, Calm
<1>7. ASSUME NEW p \in Policies, SetRetryPolicy(p)
      PROVE  Calm(acct')
  BY <1>7, <1>g DEF SetRetryPolicy, AcctType, Calm
<1>8. ASSUME NEW busy \in BOOLEAN, KeepaliveNow(busy)
      PROVE  Calm(acct')
  BY <1>8, <1>g, CalmOperators DEF KeepaliveNow
<1> QED BY <1>1, <1>2, <1>3, <1>4, <1>5, <1>6, <1>7, <1>8 DEF Application

\* No network change does.
LEMMA NetmonCalm ==
    ASSUME IInv, Honest(acct), acct.told.state = "RECONNECTING", Netmon
    PROVE  Calm(acct')
<1>g. Good(acct) BY IInvGood
<1>m. \A a \in Marked : Good(a) /\ Calm(a)
  BY <1>g, MarkLemma, MarkFx DEF Marked, Calm
<1>1. CASE NetTrigger
  <2>1. acct' \in Marked BY <1>1 DEF NetTrigger, Marked
  <2> QED BY <1>m, <2>1
<1>2. CASE NetWait BY <1>2, <1>m DEF NetWait
<1>3. ASSUME NEW v \in BOOLEAN, NetHandover(v)
      PROVE  Calm(acct')
  <2>1. PICK a \in Marked : acct' = Reregister(a, v) BY <1>3 DEF NetHandover
  <2> DEFINE b == [a EXCEPT !.retry_tmr = FALSE, !.retry_attempt = 0,
                            !.reconnecting = TRUE]
  <2>2. acct' = a \/ acct' = WatchRegistration(UaRegister(b, v))
    BY <2>1 DEF Reregister
  <2>3. Good(a) /\ Calm(a) BY <1>m
  <2>4. /\ b \in AcctType /\ Kept(a, b) /\ b.retry_attempt = 0 /\ b.reconnecting = TRUE
        /\ b.reg_state = a.reg_state /\ b.told = a.told
    BY <2>3, ZeroFacts DEF Good, Sound, AcctType, Kept
  <2> HIDE DEF b
  <2>5. Good(b)
    BY <2>3, <2>4, ZeroFacts DEF Good, Sound, Room, Ticking, Kept, Faithful
  <2>6. Calm(b) BY <2>3, <2>4 DEF Calm
  <2> QED BY <2>2, <2>3, <2>4, <2>5, <2>6, CalmSend
<1>4. ASSUME NEW d \in Delays, NetGiveUp(d)
      PROVE  Calm(acct')
  <2>1. PICK a \in Marked : acct' = a \/ acct' = ScheduleRetry(a, d)
    BY <1>4 DEF NetGiveUp
  <2>2. Sound(a) /\ Calm(a) BY <1>m DEF Good
  <2> QED BY <2>1, <2>2, CalmOperators
<1>5. Vanishing \subseteq BOOLEAN BY DEF Vanishing
<1> QED BY <1>1, <1>2, <1>3, <1>4, <1>5 DEF Netmon

\* While every ua_register() leaves a trace, a recovery is never reported as a fresh
\* registration, but for one the application asks for with register() (event.c,
\* BEVENT_REGISTERING).
THEOREM RecoveryNeverFlickers == ~Vanish => (Spec => NoFlicker)
<1> SUFFICES ASSUME ~Vanish PROVE Spec => NoFlicker OBVIOUS
<1>1. IInv /\ OwedInv /\ [Next]_vars
        => [acct.told.state = "RECONNECTING" /\ acct'.told.state = "REGISTERING"
              => \E v \in BOOLEAN : Register(v)]_vars
  <2> SUFFICES ASSUME IInv, OwedInv, Next, acct.told.state = "RECONNECTING",
                      acct'.told.state = "REGISTERING"
               PROVE  \E v \in BOOLEAN : Register(v)
    OBVIOUS
  <2>1. Honest(acct) /\ acct.reconnecting BY DEF OwedInv, Fine, Honest
  <2>2. ~Calm(acct') BY DEF Calm
  <2>3. CASE \E p \in Policies : Create(p)
    BY <2>3 DEF Create, NewAccount, Told
  <2> QED BY <2>1, <2>2, <2>3, AnswersCalm, TimersCalm, ApplicationCalm, NetmonCalm DEF Next
<1> QED BY <1>1, InductiveInvariant, OwedInvariant, PTL DEF Spec, NoFlicker
=============================================================================
