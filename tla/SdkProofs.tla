------------------------------ MODULE SdkProofs ------------------------------
(***************************************************************************)
(* Proofs about SdkLifecycle and Accounts, for every number of threads,    *)
(* inits, addresses and accounts.                                          *)
(***************************************************************************)
EXTENDS MCSdk, TLAPS

USE LifecycleAssumption, AccountsAssumption
USE DEF acctVars, Acct!vars, Acct!itVars, Acct!memVars

-----------------------------------------------------------------------------
(* The list of accounts.                                                   *)

\* The account list starts in its invariant.
LEMMA AcctBegins == Acct!Init => Acct!AcctInv
  <1> SUFFICES ASSUME Acct!Init PROVE Acct!AcctInv OBVIOUS
  <1>a. at \in [Addrs -> 0..MaxIds] /\ targets \in [Addrs -> SUBSET (1..MaxIds)]
    BY DEF Acct!Init
  <1>b. /\ list = {} /\ lookups = {} /\ tried = {} /\ acct_lock = "free" /\ it = "off"
        /\ todo = {} /\ hand = {} /\ born \in 0..MaxIds /\ orphans = {} /\ re_op.op = "idle"
    BY DEF Acct!Init, Acct!Idle
  <1>2. Acct!TypeOK BY <1>a, <1>b DEF Acct!TypeOK
  <1>3. Acct!ReInv /\ Acct!ListInv /\ Acct!IterInv
    BY DEF Acct!Init, Acct!ReInv, Acct!ListInv, Acct!IterInv, Acct!Idle
  <1>4. Acct!AnswersKeptApart BY DEF Acct!Init, Acct!AnswersKeptApart
  <1> QED BY <1>2, <1>3, <1>4 DEF Acct!AcctInv

\* Every step of the account list keeps it.
LEMMA AcctSteps == Acct!AcctInv /\ [Acct!Next]_acctVars => Acct!AcctInv'
  <1> SUFFICES ASSUME Acct!AcctInv, [Acct!Next]_acctVars PROVE Acct!AcctInv' OBVIOUS
  <1> USE DEF Acct!AcctInv, Acct!TypeOK, Acct!ReInv, Acct!ListInv, Acct!IterInv,
              Acct!AnswersKeptApart, Acct!Idle, Acct!Op
  <1>1. ASSUME NEW a \in Addrs, Acct!create_fn(a) PROVE Acct!AcctInv'
    <2> USE DEF Acct!create_fn
    <2>1. at' \in [Addrs -> 0..MaxIds] /\ at'[a] = born + 1 /\ at'[a] # 0
          /\ \A b \in Addrs \ {a} : at'[b] = at[b]
      BY <1>1
    <2>2. orphans' \subseteq 1..MaxIds /\ orphans \subseteq orphans' /\ born' \in 0..MaxIds
          /\ \A l \in lookups : l.addr = a => l.id \in orphans'
      <3>1. \A l \in lookups : l.id \in 1..MaxIds OBVIOUS
      <3>2. orphans' = orphans \cup {l.id : l \in {k \in lookups : k.addr = a}} BY <1>1
      <3>3. orphans \subseteq 1..MaxIds /\ born' \in 0..MaxIds BY <1>1
      <3> QED BY ONLY <3>1, <3>2, <3>3
    <2>3. targets[a] = {} /\ a \notin list
      BY <1>1
    <2>4. re_op' = [op |-> "create", arg |-> born + 1, addr |-> a]
          /\ UNCHANGED <<list, lookups, tried, targets, acct_lock, it, todo, hand>>
          /\ born' = born + 1 /\ re_op.op = "idle"
      BY <1>1
    <2> HIDE DEF Acct!create_fn
    <2>5. Acct!TypeOK' BY <2>1, <2>2, <2>4
    <2>6. Acct!ReInv' BY <2>1, <2>3, <2>4
    <2>7. \A b \in Addrs : /\ at'[b] # 0 <=> b \in list' \/ (re_op'.op = "create" /\ re_op'.addr = b)
                           /\ at'[b] <= born'
      BY <2>1, <2>4
    <2>8. \A l \in lookups' : at'[l.addr] = 0 \/ at'[l.addr] = l.id \/ l.id \in orphans'
      BY <2>1, <2>2, <2>4
    <2>9. Acct!IterInv' BY <2>4
    <2>10. Acct!AnswersKeptApart' BY <2>1, <2>2, <2>3, <2>4
    <2> QED BY <2>5, <2>6, <2>7, <2>8, <2>9, <2>10
  <1>2. ASSUME NEW a \in Addrs, Acct!vox_account_srv_resolve(a) PROVE Acct!AcctInv'
    BY <1>2 DEF Acct!vox_account_srv_resolve
  <1>3. ASSUME NEW a \in Addrs, Acct!destroy_fn(a) PROVE Acct!AcctInv'
    BY <1>3 DEF Acct!destroy_fn
  <1>4. ASSUME NEW a \in Addrs, Acct!Visit(a) PROVE Acct!AcctInv'
    <2>1. /\ it = "on" /\ a \in todo /\ todo' = todo \ {a} /\ hand' \in {{}, {a}}
          /\ UNCHANGED <<at, list, tried, targets, born, orphans, lookups, acct_lock, re_op, it>>
      BY <1>4 DEF Acct!Visit
    <2>2. \A b, c \in hand' : b = c BY <2>1
    <2>3. hand' \subseteq list /\ todo' \subseteq list /\ it' # "off" /\ acct_lock' = "app"
      BY <2>1
    <2>4. Acct!TypeOK'
      <3>1. Acct!TypeOK OBVIOUS
      <3> QED BY ONLY <3>1, <2>1, <2>2, <2>3 DEF Acct!TypeOK
    <2>5. Acct!ReInv' /\ Acct!ListInv' /\ Acct!AnswersKeptApart' BY <2>1
    <2> QED BY <2>1, <2>3, <2>4, <2>5
  <1>5. ASSUME NEW l \in lookups, Acct!Answer(l) PROVE Acct!AcctInv'
    BY <1>5 DEF Acct!Answer
  <1>6. CASE Acct!Event \/ Acct!find_by_ua \/ Acct!Serve \/ Acct!CallSync
    <2>1. UNCHANGED <<at, list, tried, targets, born, orphans, lookups, acct_lock, todo, hand>>
          /\ (re_op' = re_op \/ re_op'.op \in {"idle", "find"})
      BY <1>6 DEF Acct!Event, Acct!find_by_ua, Acct!Serve, Acct!CallSync
    <2>2. it' \in {"off", "on", "sync"} /\ (it' = "off" <=> it = "off")
      BY <1>6 DEF Acct!Event, Acct!find_by_ua, Acct!Serve, Acct!CallSync
    <2>3. re_op' = re_op \/ re_op.op # "create"
      BY <1>6 DEF Acct!Event, Acct!find_by_ua, Acct!Serve, Acct!CallSync
    <2> QED BY <2>1, <2>2, <2>3
  <1>7. CASE Acct!Created
    BY <1>7 DEF Acct!Created
  <1>8. CASE Acct!srv_done_handler
    BY <1>8 DEF Acct!srv_done_handler, Acct!acct_is_live
  <1>9. CASE Acct!Destroyed
    BY <1>9 DEF Acct!Destroyed
  <1>10. CASE Acct!foreach \/ Acct!Iterated
    <2>2. CASE Acct!foreach BY <2>2 DEF Acct!foreach
    <2>3. CASE Acct!Iterated
      <3>1. /\ it = "on" /\ todo = {} /\ it' = "off" /\ hand' = {} /\ acct_lock' = "free"
            /\ UNCHANGED <<at, list, tried, targets, born, orphans, lookups, re_op, todo>>
        BY <2>3 DEF Acct!Iterated
      <3>2. Acct!TypeOK
        OBVIOUS
      <3>3. Acct!TypeOK' BY ONLY <3>1, <3>2 DEF Acct!TypeOK
      <3>4. Acct!ReInv' /\ Acct!ListInv' /\ Acct!AnswersKeptApart' /\ Acct!IterInv' BY <3>1
      <3> QED BY <3>3, <3>4
    <2> QED BY <1>10, <2>2, <2>3
  <1>11. CASE UNCHANGED acctVars
    BY <1>11
  <1> QED
    BY <1>1, <1>2, <1>3, <1>4, <1>5, <1>6, <1>7, <1>8, <1>9, <1>10, <1>11
    DEF Acct!Next, Acct!Locked

\* What the invariant says of the account list.
LEMMA AcctSound == Acct!AcctInv => AccountsSound
  BY DEF Acct!AcctInv, AccountsSound, Acct!HandsLive, Acct!IterInv, Acct!ListInv, Acct!TypeOK

-----------------------------------------------------------------------------
(* The order in which subsystems start and stop.                           *)

\* The order of voxsdk_init(), by position.
LEMMA InitAt ==
    /\ Len(InitSteps) = 17 /\ DOMAIN InitSteps = 1 .. 17
    /\ InitSteps[1] = "log" /\ InitSteps[2] = "libre" /\ InitSteps[3] = "baresip"
    /\ InitSteps[4] = "dns" /\ InitSteps[5] = "ua" /\ InitSteps[6] = "event"
    /\ InitSteps[7] = "trace" /\ InitSteps[8] = "external" /\ InitSteps[9] = "ice"
    /\ InitSteps[10] = "processing" /\ InitSteps[11] = "tap" /\ InitSteps[12] = "message"
    /\ InitSteps[13] = "presence" /\ InitSteps[14] = "pcap" /\ InitSteps[15] = "stats"
    /\ InitSteps[16] = "netmon" /\ InitSteps[17] = "loop"
  BY DEF InitSteps

\* The order in which a failed voxsdk_init() unwinds, by position.
LEMMA FailAt ==
    /\ Len(FailSteps) = 13 /\ DOMAIN FailSteps = 1 .. 13
    /\ FailSteps[1] = "loop" /\ FailSteps[2] = "netmon" /\ FailSteps[3] = "stats"
    /\ FailSteps[4] = "trace" /\ FailSteps[5] = "event" /\ FailSteps[6] = "ua"
    /\ FailSteps[7] = "ice" /\ FailSteps[8] = "dns" /\ FailSteps[9] = "baresip"
    /\ FailSteps[10] = "libre" /\ FailSteps[11] = "log" /\ FailSteps[12] = "pcap"
    /\ FailSteps[13] = "zero"
  BY DEF FailSteps

\* The order of voxsdk_shutdown(), by position.
LEMMA ShutAt ==
    /\ Len(ShutSteps) = 18 /\ DOMAIN ShutSteps = 1 .. 18
    /\ ShutSteps[1] = "event" /\ ShutSteps[2] = "stats" /\ ShutSteps[3] = "trace"
    /\ ShutSteps[4] = "message" /\ ShutSteps[5] = "presence" /\ ShutSteps[6] = "processing"
    /\ ShutSteps[7] = "accounts" /\ ShutSteps[8] = "loop" /\ ShutSteps[9] = "netmon"
    /\ ShutSteps[10] = "ua" /\ ShutSteps[11] = "external" /\ ShutSteps[12] = "ice"
    /\ ShutSteps[13] = "dns" /\ ShutSteps[14] = "baresip" /\ ShutSteps[15] = "pcap"
    /\ ShutSteps[16] = "libre" /\ ShutSteps[17] = "log" /\ ShutSteps[18] = "tap"
  BY DEF ShutSteps

Names == {"log", "libre", "baresip", "dns", "ua", "event", "trace", "external", "ice",
          "processing", "tap", "message", "presence", "pcap", "stats", "netmon", "loop"}

\* The positions, one by one, for the provers.
LEMMA Nums ==
    /\ \A k \in 1 .. 17 : \/ k = 1 \/ k = 2 \/ k = 3 \/ k = 4 \/ k = 5 \/ k = 6 \/ k = 7 \/ k = 8 \/ k = 9
                          \/ k = 10 \/ k = 11 \/ k = 12 \/ k = 13 \/ k = 14 \/ k = 15 \/ k = 16 \/ k = 17
    /\ \A k \in 1 .. 18 : k \in 1 .. 17 \/ k = 18
    /\ \A k \in 1 .. 13 : k \in 1 .. 17
  OBVIOUS

\* The subsystems are the ones voxsdk_init() starts.
LEMMA SubsystemNames == Subsystems = Names
  <1>1. \A k \in 1 .. 17 : InitSteps[k] \in Names
    BY InitAt, Nums DEF Names
  <1>2. \A s \in Names : \E k \in 1 .. 17 : InitSteps[k] = s
    BY InitAt DEF Names
  <1> QED BY <1>1, <1>2, InitAt DEF Subsystems

\* Every subsystem starts once, in this order.
LEMMA InitOrder ==
    /\ \A k \in 1 .. 17 : /\ InitSteps[k] \in Subsystems
                          /\ InitSteps[k] = "baresip" <=> k = 3
                          /\ InitSteps[k] = "ua" <=> k = 5
                          /\ InitSteps[k] = "event" <=> k = 6
                          /\ InitSteps[k] = "loop" <=> k = 17
                          /\ InitSteps[k] \in Registered => k > 6
    /\ \A i, k \in 1 .. 17 : InitSteps[i] = InitSteps[k] => i = k
    /\ \A s \in Subsystems : \E k \in 1 .. 17 : InitSteps[k] = s
    /\ Registered \subseteq Subsystems /\ Flagged \subseteq Registered
    /\ \A s \in BeforeEvents : \E k \in 1 .. 5 : InitSteps[k] = s
    /\ KeptForLoop \subseteq Subsystems /\ "loop" \notin KeptForLoop
  <1>1. \A k \in 1 .. 17 : /\ InitSteps[k] \in Subsystems
                           /\ InitSteps[k] = "baresip" <=> k = 3
                           /\ InitSteps[k] = "ua" <=> k = 5
                           /\ InitSteps[k] = "event" <=> k = 6
                           /\ InitSteps[k] = "loop" <=> k = 17
    BY InitAt, Nums, SubsystemNames DEF Names
  <1>2. \A k \in 1 .. 17 : InitSteps[k] \in Registered => k > 6
    BY InitAt, Nums DEF Registered
  <1>3. \A i, k \in 1 .. 17 : InitSteps[i] = InitSteps[k] => i = k
    BY InitAt, Nums
  <1>4. \A s \in Subsystems : \E k \in 1 .. 17 : InitSteps[k] = s
    BY InitAt DEF Subsystems
  <1>5. Registered \subseteq Subsystems /\ Flagged \subseteq Registered
    BY SubsystemNames DEF Names, Registered, Flagged
  <1>6. \A s \in BeforeEvents : \E k \in 1 .. 5 : InitSteps[k] = s
    BY InitAt DEF BeforeEvents
  <1>7. KeptForLoop \subseteq Subsystems /\ "loop" \notin KeptForLoop
    BY SubsystemNames DEF Names, KeptForLoop, BeforeEvents
  <1> QED BY <1>1, <1>2, <1>3, <1>4, <1>5, <1>6, <1>7

\* The failure path closes everything but the leftovers, the threads first.
LEMMA FailOrder ==
    /\ \A s \in Subsystems \ Leftover : \E k \in 1 .. 12 : FailSteps[k] = s
    /\ \A k \in 1 .. 13 : /\ FailSteps[k] \in BeforeEvents => k > 5
                          /\ FailSteps[k] \in KeptForLoop => k > 1
                          /\ FailSteps[k] = "zero" <=> k = 13
    /\ FailSteps[1] = "loop" /\ FailSteps[5] = "event"
  <1>1. \A s \in Names \ Leftover : \E k \in 1 .. 12 : FailSteps[k] = s
    BY FailAt DEF Names, Leftover
  <1>2. \A k \in 1 .. 13 : /\ FailSteps[k] \in BeforeEvents => k > 5
                           /\ FailSteps[k] \in KeptForLoop => k > 1
                           /\ FailSteps[k] = "zero" <=> k = 13
    BY FailAt, Nums DEF BeforeEvents, KeptForLoop
  <1> QED BY <1>1, <1>2, SubsystemNames, FailAt

\* voxsdk_shutdown() closes everything, the event thread first and the re thread
\* before what it rests on.
LEMMA ShutOrder ==
    /\ \A s \in Subsystems : \E k \in 1 .. 18 : ShutSteps[k] = s
    /\ \A k \in 1 .. 18 : /\ ShutSteps[k] \in BeforeEvents => k > 1
                          /\ ShutSteps[k] \in KeptForLoop => k > 8
                          /\ ShutSteps[k] = "accounts" <=> k = 7
    /\ ShutSteps[1] = "event" /\ ShutSteps[8] = "loop" /\ "accounts" \notin Subsystems
  <1>1. \A s \in Names : \E k \in 1 .. 18 : ShutSteps[k] = s
    BY ShutAt DEF Names
  <1>2. \A k \in 1 .. 18 : /\ ShutSteps[k] \in BeforeEvents => k > 1
                           /\ ShutSteps[k] \in KeptForLoop => k > 8
                           /\ ShutSteps[k] = "accounts" <=> k = 7
    BY ShutAt, Nums DEF BeforeEvents, KeptForLoop
  <1>3. "accounts" \notin Subsystems BY SubsystemNames DEF Names
  <1> QED BY <1>1, <1>2, <1>3, SubsystemNames, ShutAt

-----------------------------------------------------------------------------
(* The threads and g_vox.lock.                                             *)

Inside == {"init", "fail", "shut", "shutwait"}
PcTypes == {"off", "idle", "init?", "init", "fail", "shut?", "shut",
            "shutwait", "sync", "async", "wait", "lock?"}

\* One thread at a time is inside voxsdk_init() or voxsdk_shutdown().
LEMMA OneInside ==
    ASSUME LifeInv, NEW t \in AppThreads, lock = t \/ pc[t] \in Inside
    PROVE  lock = t /\ lock # None /\ pc[t] \in Inside /\ t # EventThread
           /\ \A u \in AppThreads \ {t} : pc[u] \notin Inside
  BY DEF LifeInv, LockInv, Inside, Threads

\* A thread outside moves: nothing of the init or shutdown under way changes.
LEMMA OutsideStep ==
    ASSUME LifeInv, UNCHANGED <<lock, initialized, instance, up, reg, step, failed, re>>,
           pc' \in [Threads -> PcTypes],
           \A u \in AppThreads : pc'[u] = pc[u] \/ (pc[u] \notin Inside /\ pc'[u] \notin Inside \cup {"off"}),
           pc'[EventThread] = "off" <=> pc[EventThread] = "off",
           pc'[EventThread] \in {"off", "idle", "sync", "async", "wait", "lock?"}
    PROVE  LockInv' /\ UpInv' /\ StepInv'
  <1>1. LockInv /\ UpInv /\ StepInv BY DEF LifeInv
  <1>2. LockInv' BY <1>1 DEF LockInv, Inside
  <1>3. UpInv' BY <1>1 DEF UpInv
  <1>4. RestInv => RestInv' BY DEF RestInv, Current
  <1>5. (InitInv => InitInv') /\ (FailInv => FailInv') BY DEF InitInv, FailInv, Current
  <1>6. \A t \in AppThreads : pc'[t] \in Inside => pc'[t] = pc[t] OBVIOUS
  <1>7. \A t \in AppThreads : pc'[t] = pc[t] /\ ShutInv(t) => ShutInv(t)' BY DEF ShutInv
  <1>8. StepInv'
    BY <1>1, <1>4, <1>5, <1>6, <1>7 DEF StepInv, Inside
  <1> QED BY <1>2, <1>3, <1>8

\* The queue of a thread that is not waiting holds nothing of it.
LEMMA QueueKept ==
    ASSUME LifeInv, queue' = queue, pc \in [Threads -> PcTypes],
           \A u \in Threads : pc'[u] = pc[u] \/ pc[u] \notin {"wait", "shutwait"}
    PROVE  QueueInv'
  <1>1. QueueInv /\ queue \in Seq(Threads \cup {None}) BY DEF LifeInv, TypeOK
  <1>2. \A i \in DOMAIN queue : queue[i] \in Threads \cup {None} BY <1>1
  <1> QED BY <1>1, <1>2 DEF QueueInv

\* A thread that did not wait queues a function and waits for it.
LEMMA QueueGrows ==
    ASSUME LifeInv, NEW t \in Threads, queue' = Append(queue, t),
           pc[t] \notin {"wait", "shutwait"}, pc'[t] \in {"wait", "shutwait"},
           \A u \in Threads \ {t} : pc'[u] = pc[u]
    PROVE  QueueInv' /\ queue' \in Seq(Threads \cup {None})
  <1>1. QueueInv /\ queue \in Seq(Threads \cup {None}) /\ None \notin Threads
    BY DEF LifeInv, TypeOK
  <1>2. /\ queue' \in Seq(Threads \cup {None}) /\ Len(queue') = Len(queue) + 1
        /\ Len(queue) \in Nat /\ queue'[Len(queue) + 1] = t
        /\ DOMAIN queue = 1 .. Len(queue) /\ DOMAIN queue' = 1 .. Len(queue) + 1
        /\ \A i \in 1 .. Len(queue) : queue'[i] = queue[i] /\ queue[i] \in Threads \cup {None}
    BY <1>1
  <1>3. \A i \in 1 .. Len(queue) : queue[i] # t BY <1>1, <1>2 DEF QueueInv
  <1>4. \A i \in 1 .. Len(queue) : queue[i] # None => pc'[queue[i]] = pc[queue[i]]
    BY <1>2, <1>3
  <1>5. ASSUME NEW i \in 1 .. Len(queue) + 1, queue'[i] # None
        PROVE  pc'[queue'[i]] \in {"wait", "shutwait"}
    <2>1. CASE i = Len(queue) + 1 BY <1>2, <2>1
    <2>2. CASE i \in 1 .. Len(queue) BY <1>1, <1>2, <1>4, <1>5, <2>2 DEF QueueInv
    <2> QED BY <1>2, <2>1, <2>2
  <1>6. ASSUME NEW i \in 1 .. Len(queue) + 1, queue'[i] # None,
               NEW k \in 1 .. Len(queue) + 1, queue'[k] = queue'[i]
        PROVE  k = i
    <2>1. CASE i \in 1 .. Len(queue) /\ k \in 1 .. Len(queue)
      BY <1>1, <1>2, <1>6, <2>1 DEF QueueInv
    <2>2. CASE i = Len(queue) + 1 /\ k \in 1 .. Len(queue) BY <1>2, <1>3, <1>6, <2>2
    <2>3. CASE k = Len(queue) + 1 /\ i \in 1 .. Len(queue) BY <1>2, <1>3, <1>6, <2>3
    <2> QED BY <1>2, <2>1, <2>2, <2>3
  <1> QED BY <1>2, <1>5, <1>6 DEF QueueInv

\* A function nobody waits for is queued.
LEMMA QueueGrowsNone ==
    ASSUME LifeInv, queue' = Append(queue, None),
           \A u \in Threads : pc'[u] = pc[u] \/ pc[u] \notin {"wait", "shutwait"}
    PROVE  QueueInv' /\ queue' \in Seq(Threads \cup {None})
  <1>1. QueueInv /\ queue \in Seq(Threads \cup {None})
    BY DEF LifeInv, TypeOK
  <1>2. /\ queue' \in Seq(Threads \cup {None}) /\ Len(queue) \in Nat
        /\ queue'[Len(queue) + 1] = None
        /\ DOMAIN queue = 1 .. Len(queue) /\ DOMAIN queue' = 1 .. Len(queue) + 1
        /\ \A i \in 1 .. Len(queue) : queue'[i] = queue[i] /\ queue[i] \in Threads \cup {None}
    BY <1>1
  <1>3. \A i \in 1 .. Len(queue) + 1 : queue'[i] # None => i \in 1 .. Len(queue)
    BY <1>2
  <1>4. \A i \in 1 .. Len(queue) : queue[i] # None => pc'[queue[i]] = pc[queue[i]]
    BY <1>1, <1>2 DEF QueueInv
  <1> QED BY <1>1, <1>2, <1>3, <1>4 DEF QueueInv

\* What the invariant says of the types, in the form the steps use.
LEMMA LifeTypes ==
    ASSUME LifeInv
    PROVE  /\ TypeOK /\ LockInv /\ QueueInv /\ UpInv /\ StepInv
           /\ pc \in [Threads -> PcTypes] /\ queue \in Seq(Threads \cup {None})
           /\ EventThread \in Threads /\ EventThread \notin AppThreads
           /\ AppThreads \subseteq Threads /\ None \notin Threads
           /\ instance \in Nat /\ instance <= MaxInits /\ MaxInits \in Nat /\ step \in Nat
           /\ reg \in [Registered -> 0 .. MaxInits] /\ up \subseteq Subsystems
           /\ lock \in AppThreads \cup {None} /\ re \in {"off", "running"} /\ step \in 0 .. 19
           /\ stranded \subseteq AppThreads /\ initialized \in BOOLEAN /\ accounts \in BOOLEAN
           /\ failed \in BOOLEAN
  BY SMTT(40), ShutAt DEF LifeInv, TypeOK, PcTypes, Threads

-----------------------------------------------------------------------------
(* voxsdk_init().                                                          *)

\* A thread comes to voxsdk_init() or voxsdk_shutdown().
LEMMA WantStep ==
    ASSUME LifeInv, NEW t \in AppThreads, NEW what \in {"init", "shut"}, Want(t, what)
    PROVE  LifeInv'
  <1>1. /\ pc[t] = "idle" /\ pc' = [pc EXCEPT ![t] = Waiting(what)]
        /\ UNCHANGED <<lock, stranded, initialized, instance, up, reg, step, accounts, failed, re, queue>>
    BY DEF Want, bootVars
  <1>2. Waiting(what) \in {"init?", "shut?"} BY DEF Waiting
  <1>3. /\ pc' \in [Threads -> PcTypes] /\ pc'[t] \in {"init?", "shut?"}
        /\ \A u \in Threads \ {t} : pc'[u] = pc[u]
    BY <1>1, <1>2, LifeTypes DEF PcTypes
  <1>4. LockInv' /\ UpInv' /\ StepInv'
    BY <1>1, <1>3, LifeTypes, OutsideStep DEF Inside, LockInv
  <1>5. QueueInv' BY <1>1, <1>3, LifeTypes, QueueKept
  <1>6. TypeOK' BY <1>1, <1>3, LifeTypes DEF TypeOK, PcTypes
  <1> QED BY <1>4, <1>5, <1>6 DEF LifeInv

\* It takes g_vox.lock, and leaves at once when there is nothing to do.
LEMMA EnterStep ==
    ASSUME LifeInv, NEW t \in AppThreads, NEW what \in {"init", "shut"}, Enter(t, what)
    PROVE  LifeInv'
  <1>1. /\ pc[t] = Waiting(what) /\ lock = None
        /\ what = "init" /\ ~initialized => instance < MaxInits
        /\ UNCHANGED <<stranded, initialized, instance, up, reg, re, queue, accounts, failed>>
    BY DEF Enter
  <1>2. pc[t] \in {"init?", "shut?"} BY <1>1 DEF Waiting
  <1>3. CASE (what = "init") = initialized
    <2>1. pc' = [pc EXCEPT ![t] = "idle"] /\ UNCHANGED <<lock, step>>
      BY <1>3 DEF Enter
    <2>2. /\ pc' \in [Threads -> PcTypes] /\ pc'[t] = "idle"
          /\ \A u \in Threads \ {t} : pc'[u] = pc[u]
      BY <2>1, LifeTypes DEF PcTypes
    <2>3. LockInv' /\ UpInv' /\ StepInv'
      BY <1>1, <1>2, <2>1, <2>2, LifeTypes, OutsideStep DEF Inside, LockInv
    <2>4. QueueInv' BY <1>1, <1>2, <2>2, LifeTypes, QueueKept
    <2>5. TypeOK' BY <1>1, <2>1, <2>2, LifeTypes DEF TypeOK, PcTypes
    <2> QED BY <2>3, <2>4, <2>5 DEF LifeInv
  <1>4. CASE (what = "init") # initialized
    <2>1. lock' = t /\ pc' = [pc EXCEPT ![t] = what] /\ step' = 1
      BY <1>4 DEF Enter
    <2>2. /\ pc' \in [Threads -> PcTypes] /\ pc'[t] = what
          /\ \A u \in Threads \ {t} : pc'[u] = pc[u]
      BY <2>1, LifeTypes DEF PcTypes
    <2>3. \A u \in AppThreads : pc[u] \notin Inside
      BY <1>1, LifeTypes DEF LockInv, Inside
    <2>4. LockInv'
      BY <1>1, <2>1, <2>2, <2>3, LifeTypes DEF LockInv, Inside
    <2>5. UpInv' BY <1>1, <2>2, LifeTypes DEF UpInv
    <2>6. RestInv BY <1>1, LifeTypes DEF StepInv
    <2>7. initialized \in BOOLEAN BY LifeTypes DEF TypeOK
    <2>a. TypeOK'
      BY SMTT(40), <1>1, <2>1, <2>2, LifeTypes, ShutAt DEF TypeOK, PcTypes
    <2>b. QueueInv' BY <1>1, <1>2, <2>2, LifeTypes, QueueKept
    <2>8. CASE what = "init"
      <3>1. ~initialized /\ up \subseteq Leftover /\ (~failed => up = {}) /\ instance < MaxInits
        BY <1>1, <1>4, <2>6, <2>7, <2>8 DEF RestInv
      <3>2. InitInv'
        BY <1>1, <2>1, <3>1, InitAt DEF InitInv
      <3>3. StepInv'
        BY <1>1, <2>1, <2>2, <2>3, <2>8, <3>2, LifeTypes DEF StepInv, Inside
      <3> QED BY <2>4, <2>5, <2>a, <2>b, <3>3 DEF LifeInv
    <2>9. CASE what = "shut"
      <3>1. initialized BY <1>1, <1>4, <2>7, <2>9
      <3>2. ShutInv(t)'
        BY <1>1, <2>1, <2>2, <2>9, <3>1, ShutAt DEF ShutInv
      <3>3. StepInv'
        BY <1>1, <2>1, <2>2, <2>3, <2>9, <3>2, LifeTypes DEF StepInv, Inside
      <3> QED BY <2>4, <2>5, <2>a, <2>b, <3>3 DEF LifeInv
    <2> QED BY <2>8, <2>9
  <1> QED BY <1>3, <1>4

\* One subsystem starts.
LEMMA InitStepStep ==
    ASSUME LifeInv, NEW t \in AppThreads, InitStep(t)
    PROVE  LifeInv'
  <1> DEFINE s == InitSteps[step]
  <1>1. /\ pc[t] = "init" /\ lock = t /\ step <= 17
        /\ up' = up \cup {s}
        /\ instance' = IF s = "baresip" THEN instance + 1 ELSE instance
        /\ reg' = IF s \notin Registered \/ (s \in Flagged /\ s \in up) THEN reg
                  ELSE [reg EXCEPT ![s] = instance]
        /\ step' = step + 1 /\ re' = IF s = "loop" THEN "running" ELSE re
        /\ pc' = IF s = "event" THEN [pc EXCEPT ![EventThread] = "idle"] ELSE pc
        /\ UNCHANGED <<lock, stranded, initialized, queue, accounts, failed>>
    BY InitAt DEF InitStep, Start
  <1>2. InitInv BY <1>1, LifeTypes DEF StepInv
  <1>3. /\ step \in 1 .. 17 /\ step \in Nat /\ ~initialized
        /\ \A i \in 1 .. 17 :
            /\ i < step => InitSteps[i] \in up
            /\ i < step /\ InitSteps[i] \in Registered => Current(InitSteps[i])
            /\ i >= step /\ InitSteps[i] \in up => failed /\ InitSteps[i] \in Leftover
        /\ step <= 3 => instance < MaxInits
    BY <1>1, <1>2, InitAt DEF InitInv
  <1>4. /\ s \in Subsystems /\ (s = "baresip" <=> step = 3) /\ (s = "ua" <=> step = 5)
        /\ (s = "event" <=> step = 6) /\ (s = "loop" <=> step = 17)
        /\ (s \in Registered => step > 6)
        /\ \A i \in 1 .. 17 : InitSteps[i] = s => i = step
    BY <1>3, InitOrder
  <1>5. /\ s = "event" => BeforeEvents \subseteq up
        /\ s = "loop" => KeptForLoop \subseteq up
    <2>1. ASSUME step = 6, NEW x \in BeforeEvents PROVE x \in up
      <3>1. PICK k \in 1 .. 5 : InitSteps[k] = x BY InitOrder
      <3>2. k \in 1 .. 17 /\ k < step BY <2>1
      <3> QED BY <1>3, <3>1, <3>2
    <2>2. ASSUME step = 17, NEW x \in KeptForLoop PROVE x \in up
      <3>1. PICK k \in 1 .. 17 : InitSteps[k] = x BY InitOrder
      <3>2. k # 17 BY <3>1, <2>2, InitOrder, InitAt
      <3>3. k < step BY <2>2, <3>2
      <3> QED BY <1>3, <3>1, <3>3
    <2> QED BY <1>4, <2>1, <2>2
  <1>6. step > 3 => "baresip" \in up BY <1>3, InitAt
  <1>7. s = "event" => pc[EventThread] = "off"
    BY SMTT(40), <1>3, <1>4, LifeTypes DEF UpInv, Leftover
  <1> HIDE DEF s
  <1>8. /\ pc' \in [Threads -> PcTypes]
        /\ \A u \in AppThreads : pc'[u] = pc[u]
        /\ pc'[EventThread] = IF s = "event" THEN "idle" ELSE pc[EventThread]
    BY <1>1, LifeTypes DEF PcTypes
  <1>9. LockInv' BY <1>1, <1>8, LifeTypes DEF LockInv
  <1>10. QueueInv'
    <2>1. \A u \in Threads : pc'[u] = pc[u] \/ pc[u] \notin {"wait", "shutwait"}
      BY <1>7, <1>8 DEF Threads
    <2> QED BY <1>1, <2>1, LifeTypes, QueueKept
  <1>11. UpInv'
    <2>1. re' = "running" <=> "loop" \in up'
      BY <1>1, LifeTypes DEF UpInv
    <2>2. pc'[EventThread] # "off" <=> "event" \in up'
      BY <1>1, <1>8, LifeTypes DEF UpInv
    <2>3. /\ "event" \in up' => BeforeEvents \subseteq up'
          /\ "loop" \in up' => KeptForLoop \subseteq up'
      BY <1>1, <1>5, LifeTypes DEF UpInv
    <2>4. ASSUME "baresip" \notin up', NEW x \in Registered PROVE reg'[x] = 0
      BY <1>1, <1>4, <1>6, <2>4, LifeTypes DEF UpInv
    <2> QED BY <2>1, <2>2, <2>3, <2>4 DEF UpInv
  <1>12. InitInv'
    <2>1. ASSUME NEW i \in 1 .. 17
          PROVE  /\ i < step' => InitSteps[i] \in up'
                 /\ i >= step' /\ InitSteps[i] \in up' => failed' /\ InitSteps[i] \in Leftover
      BY <1>1, <1>3, <1>4 DEF s
    <2>2. ASSUME NEW i \in 1 .. 17, i < step', InitSteps[i] \in Registered
          PROVE  Current(InitSteps[i])'
      <3>1. step > 6
        BY <1>1, <1>3, <2>2, InitOrder
      <3>2. instance' = instance /\ failed' = failed BY <1>1, <1>4, <3>1
      <3>3. CASE i < step
        <4>1. InitSteps[i] # s BY <1>4, <3>3, <1>3
        <4>2. reg'[InitSteps[i]] = reg[InitSteps[i]] BY <1>1, <4>1, <2>2, LifeTypes
        <4> QED BY <1>3, <3>2, <3>3, <4>2, <2>2 DEF Current
      <3>4. CASE i = step
        <4>1. InitSteps[i] = s BY <3>4 DEF s
        <4>2. CASE s \in Flagged /\ s \in up
          <5>1. failed BY <1>3, <3>4, <4>1, <4>2
          <5> QED BY <3>2, <4>1, <4>2, <5>1 DEF Current
        <4>3. CASE ~(s \in Flagged /\ s \in up)
          <5>1. reg'[s] = instance BY <1>1, <2>2, <4>1, <4>3, LifeTypes
          <5> QED BY <3>2, <4>1, <5>1 DEF Current
        <4> QED BY <4>2, <4>3
      <3> QED BY <1>1, <1>3, <2>2, <3>3, <3>4
    <2>3. step' \in 1 .. 18 /\ (step' <= 3 => instance' < MaxInits)
      BY <1>1, <1>3, <1>4
    <2> QED BY <1>1, <1>3, <2>1, <2>2, <2>3, InitAt DEF InitInv
  <1>13. StepInv'
    <2>1. \A u \in AppThreads \ {t} : pc'[u] \notin Inside
      BY <1>1, <1>8, OneInside DEF Inside
    <2> QED BY <1>1, <1>8, <1>12, <2>1, LifeTypes DEF StepInv, Inside
  <1>14. TypeOK'
    <2>1. instance' \in 0 .. MaxInits
      BY SMTT(40), <1>1, <1>3, <1>4, LifeTypes
    <2>2. reg' \in [Registered -> 0 .. MaxInits] BY <1>1, LifeTypes
    <2>3. step' \in 0 .. 19 BY <1>1, <1>3
    <2>4. re' \in {"off", "running"} /\ up' \subseteq Subsystems
      BY <1>1, <1>4, LifeTypes
    <2>5. UNCHANGED <<lock, stranded, initialized, queue, accounts, failed>> BY <1>1
    <2>6. pc' \in [Threads -> PcTypes] BY <1>8
    <2>7. TypeOK BY LifeTypes
    <2> QED BY ONLY SMTT(40), <2>1, <2>2, <2>3, <2>4, <2>5, <2>6, <2>7, ShutAt DEF TypeOK, PcTypes
  <1> QED BY <1>9, <1>10, <1>11, <1>13, <1>14 DEF LifeInv

\* A subsystem refuses to start.
LEMMA InitFailStep ==
    ASSUME LifeInv, NEW t \in AppThreads, InitFail(t)
    PROVE  LifeInv'
  <1>1. /\ pc[t] = "init" /\ pc' = [pc EXCEPT ![t] = "fail"] /\ step' = 1 /\ failed' = TRUE
        /\ UNCHANGED <<lock, stranded, initialized, instance, up, reg, re, queue, accounts>>
    BY DEF InitFail
  <1>2. lock = t /\ t # EventThread /\ \A u \in AppThreads \ {t} : pc[u] \notin Inside
    BY <1>1, OneInside DEF Inside
  <1>3. ~initialized BY <1>1, LifeTypes DEF StepInv, InitInv
  <1>4. /\ pc' \in [Threads -> PcTypes] /\ pc'[t] = "fail"
        /\ \A u \in Threads \ {t} : pc'[u] = pc[u]
    BY <1>1, LifeTypes DEF PcTypes
  <1>5. LockInv' BY <1>1, <1>2, <1>4, LifeTypes DEF LockInv
  <1>6. QueueInv' BY <1>1, <1>4, LifeTypes, QueueKept
  <1>7. UpInv' BY <1>1, <1>2, <1>4, LifeTypes DEF UpInv
  <1>8. FailInv' BY <1>1, <1>3, FailAt DEF FailInv
  <1>9. StepInv' BY <1>1, <1>2, <1>4, <1>8, LifeTypes DEF StepInv, Inside
  <1>10. TypeOK' BY SMTT(40), <1>1, <1>4, LifeTypes, ShutAt DEF TypeOK, PcTypes
  <1> QED BY <1>5, <1>6, <1>7, <1>9, <1>10 DEF LifeInv

\* voxsdk_init() is through.
LEMMA InitDoneStep ==
    ASSUME LifeInv, NEW t \in AppThreads, InitDone(t)
    PROVE  LifeInv'
  <1>1. /\ pc[t] = "init" /\ step > 17 /\ initialized' = TRUE /\ lock' = None
        /\ pc' = [pc EXCEPT ![t] = "idle"] /\ step' = 0
        /\ UNCHANGED <<stranded, instance, up, reg, re, queue, accounts, failed>>
    BY InitAt DEF InitDone
  <1>2. lock = t /\ t # EventThread /\ \A u \in AppThreads \ {t} : pc[u] \notin Inside
    BY <1>1, OneInside DEF Inside
  <1>3. \A i \in 1 .. 17 : /\ InitSteps[i] \in up
                           /\ InitSteps[i] \in Registered => Current(InitSteps[i])
    <2>1. InitInv BY <1>1, LifeTypes DEF StepInv
    <2>2. \A i \in 1 .. 17 : i < step BY <1>1, LifeTypes
    <2> QED BY <2>1, <2>2, InitAt DEF InitInv
  <1>4. Subsystems \subseteq up /\ \A s \in Registered : Current(s)
    BY <1>3, InitOrder
  <1>5. /\ pc' \in [Threads -> PcTypes] /\ pc'[t] = "idle"
        /\ \A u \in Threads \ {t} : pc'[u] = pc[u]
    BY <1>1, LifeTypes DEF PcTypes
  <1>6. LockInv' BY <1>1, <1>2, <1>5, LifeTypes DEF LockInv, Inside
  <1>7. QueueInv' BY <1>1, <1>5, LifeTypes, QueueKept
  <1>8. UpInv' BY <1>1, <1>2, <1>5, LifeTypes DEF UpInv
  <1>9. RestInv' BY <1>1, <1>4 DEF RestInv, Current
  <1>10. StepInv' BY <1>1, <1>2, <1>5, <1>9, LifeTypes DEF StepInv, Inside
  <1>11. TypeOK' BY SMTT(40), <1>1, <1>5, LifeTypes, ShutAt DEF TypeOK, PcTypes
  <1> QED BY <1>6, <1>7, <1>8, <1>10, <1>11 DEF LifeInv

-----------------------------------------------------------------------------
(* Closing.                                                                *)

\* One close, in an order that stops each thread before what it rests on.
LEMMA CloseFacts ==
    ASSUME LifeInv, NEW t \in AppThreads, NEW s, CloseOne(t, s), step < 19,
           s \in BeforeEvents => "event" \notin up, s \in KeptForLoop => "loop" \notin up,
           UNCHANGED <<lock, stranded, initialized, instance, accounts, failed>>
    PROVE  /\ TypeOK' /\ QueueInv' /\ UpInv' /\ up' = up \ {s} /\ step' = step + 1
           /\ \A u \in AppThreads : pc'[u] = pc[u]
           /\ pc'[EventThread] \in {"off", pc[EventThread]}
  <1>1. /\ s = "event" => pc[EventThread] \in {"idle", "off"}
        /\ pc' = IF s = "event" THEN [pc EXCEPT ![EventThread] = "off"] ELSE pc
        /\ re' = IF s = "loop" THEN "off" ELSE re
        /\ queue' = IF s = "libre" THEN <<>> ELSE queue
        /\ step' = step + 1
    BY DEF CloseOne
  <1>2. /\ up' = up \ {s}
        /\ reg' \in [Registered -> 0 .. MaxInits]
        /\ s = "baresip" /\ s \in up => \A x \in Registered : reg'[x] = 0
        /\ \A x \in Registered : reg'[x] = reg[x] \/ reg'[x] = 0
    BY SMTT(40), LifeTypes DEF CloseOne, Stop
  <1>3. /\ pc' \in [Threads -> PcTypes] /\ \A u \in AppThreads : pc'[u] = pc[u]
        /\ pc'[EventThread] = IF s = "event" THEN "off" ELSE pc[EventThread]
    BY <1>1, LifeTypes DEF PcTypes
  <1>4. QueueInv'
    <2>1. CASE s = "libre" BY <1>1, <2>1 DEF QueueInv
    <2>2. CASE s # "libre"
      <3>1. \A u \in Threads : pc'[u] = pc[u] \/ pc[u] \notin {"wait", "shutwait"}
        BY <1>1, <1>3 DEF Threads
      <3> QED BY <1>1, <2>2, <3>1, LifeTypes, QueueKept
    <2> QED BY <2>1, <2>2
  <1>5. UpInv'
    <2>1. re' = "running" <=> "loop" \in up'
      BY <1>1, <1>2, LifeTypes DEF UpInv
    <2>2. pc'[EventThread] # "off" <=> "event" \in up'
      BY <1>2, <1>3, LifeTypes DEF UpInv
    <2>3. /\ "event" \in up' => BeforeEvents \subseteq up'
          /\ "loop" \in up' => KeptForLoop \subseteq up'
      BY <1>2, LifeTypes DEF UpInv
    <2>4. ASSUME "baresip" \notin up', NEW x \in Registered PROVE reg'[x] = 0
      BY <1>2, <2>4, LifeTypes DEF UpInv
    <2> QED BY <2>1, <2>2, <2>3, <2>4 DEF UpInv
  <1>6. TypeOK'
    <2>1. step' \in 0 .. 19
      <3>1. step \in 0 .. 19 BY LifeTypes
      <3> QED BY <1>1, <3>1
    <2>2. re' \in {"off", "running"} /\ queue' \in Seq(Threads \cup {None}) /\ up' \subseteq Subsystems
      BY <1>1, <1>2, LifeTypes
    <2>3. TypeOK BY LifeTypes
    <2>4. pc' \in [Threads -> PcTypes] BY <1>3
    <2>5. reg' \in [Registered -> 0 .. MaxInits] BY <1>2
    <2>6. UNCHANGED <<lock, stranded, initialized, instance, accounts, failed>> OBVIOUS
    <2> QED BY ONLY SMTT(40), <2>1, <2>2, <2>3, <2>4, <2>5, <2>6, ShutAt DEF TypeOK, PcTypes
  <1> QED BY <1>1, <1>2, <1>3, <1>4, <1>5, <1>6

\* A failed voxsdk_init() closes one subsystem more.
LEMMA FailStepStep ==
    ASSUME LifeInv, NEW t \in AppThreads, FailStep(t)
    PROVE  LifeInv'
  <1> DEFINE s == FailSteps[step]
  <1>1. /\ pc[t] = "fail" /\ s # "zero" /\ CloseOne(t, s)
        /\ UNCHANGED <<lock, stranded, initialized, instance, accounts, failed>>
    BY DEF FailStep
  <1>2. lock = t /\ t # EventThread /\ \A u \in AppThreads \ {t} : pc[u] \notin Inside
    BY <1>1, OneInside DEF Inside
  <1>3. /\ ~initialized /\ failed /\ step \in 1 .. 13 /\ step # 13
        /\ \A i \in 1 .. 13 : i < step => FailSteps[i] \notin up
    BY <1>1, LifeTypes, FailAt, FailOrder DEF StepInv, FailInv
  <1>4. (s \in BeforeEvents => "event" \notin up) /\ (s \in KeptForLoop => "loop" \notin up)
    <2>1. (s \in BeforeEvents => 5 < step) /\ (s \in KeptForLoop => 1 < step) BY <1>3, FailOrder
    <2>2. 1 \in 1 .. 13 /\ 5 \in 1 .. 13 OBVIOUS
    <2> QED BY <1>3, <2>1, <2>2, FailOrder
  <1>5. /\ TypeOK' /\ QueueInv' /\ UpInv' /\ up' = up \ {s} /\ step' = step + 1
        /\ \A u \in AppThreads : pc'[u] = pc[u]
        /\ pc'[EventThread] \in {"off", pc[EventThread]}
    <2>1. step < 19 BY <1>3
    <2> HIDE DEF s
    <2> QED BY <1>1, <1>4, <2>1, CloseFacts
  <1>6. LockInv' BY <1>1, <1>2, <1>5, LifeTypes DEF LockInv
  <1>7. FailInv'
    <2>1. step' \in 1 .. 13 BY <1>3, <1>5
    <2>2. \A i \in 1 .. 13 : i < step' => FailSteps[i] \notin up'
      BY <1>3, <1>5
    <2> QED BY <1>1, <1>3, <2>1, <2>2, FailAt DEF FailInv
  <1>8. StepInv' BY <1>1, <1>2, <1>5, <1>7, LifeTypes DEF StepInv, Inside
  <1> QED BY <1>5, <1>6, <1>8 DEF LifeInv

\* It is unwound and lets go of the lock.
LEMMA FailEndStep ==
    ASSUME LifeInv, NEW t \in AppThreads, FailEnd(t)
    PROVE  LifeInv'
  <1>1. /\ pc[t] = "fail" /\ FailSteps[step] = "zero" /\ lock' = None
        /\ pc' = [pc EXCEPT ![t] = "idle"] /\ step' = 0 /\ stranded' \subseteq AppThreads
        /\ UNCHANGED <<initialized, instance, up, reg, re, queue, accounts, failed>>
    BY LifeTypes DEF FailEnd
  <1>2. lock = t /\ t # EventThread /\ \A u \in AppThreads \ {t} : pc[u] \notin Inside
    BY <1>1, OneInside DEF Inside
  <1>3. /\ ~initialized /\ failed /\ step = 13
        /\ \A i \in 1 .. 13 : i < step => FailSteps[i] \notin up
    BY <1>1, LifeTypes, FailAt, FailOrder DEF StepInv, FailInv
  <1>4. up \subseteq Leftover
    <2>1. SUFFICES ASSUME NEW x \in up, x \notin Leftover PROVE FALSE OBVIOUS
    <2>2. PICK k \in 1 .. 12 : FailSteps[k] = x BY <2>1, FailOrder, LifeTypes
    <2>3. k \in 1 .. 13 /\ k < step BY <1>3
    <2> QED BY <1>3, <2>1, <2>2, <2>3
  <1>5. /\ pc' \in [Threads -> PcTypes] /\ pc'[t] = "idle"
        /\ \A u \in Threads \ {t} : pc'[u] = pc[u]
    BY <1>1, LifeTypes DEF PcTypes
  <1>6. LockInv' BY <1>1, <1>2, <1>5, LifeTypes DEF LockInv, Inside
  <1>7. QueueInv' BY <1>1, <1>5, LifeTypes, QueueKept
  <1>8. UpInv' BY <1>1, <1>2, <1>5, LifeTypes DEF UpInv
  <1>9. RestInv' BY <1>1, <1>3, <1>4 DEF RestInv
  <1>10. StepInv' BY <1>1, <1>2, <1>5, <1>9, LifeTypes DEF StepInv, Inside
  <1>11. TypeOK' BY SMTT(40), <1>1, <1>5, LifeTypes, ShutAt DEF TypeOK, PcTypes
  <1> QED BY <1>6, <1>7, <1>8, <1>10, <1>11 DEF LifeInv

\* voxsdk_shutdown() closes one subsystem more.
LEMMA ShutStepStep ==
    ASSUME LifeInv, NEW t \in AppThreads, ShutStep(t)
    PROVE  LifeInv'
  <1> DEFINE s == ShutSteps[step]
  <1>1. /\ pc[t] = "shut" /\ step <= 18 /\ s # "accounts" /\ CloseOne(t, s)
        /\ UNCHANGED <<lock, stranded, initialized, instance, accounts, failed>>
    BY ShutAt DEF ShutStep
  <1>2. lock = t /\ t # EventThread /\ \A u \in AppThreads \ {t} : pc[u] \notin Inside
    BY <1>1, OneInside DEF Inside
  <1>3. /\ initialized /\ step \in 1 .. 18
        /\ \A i \in 1 .. 18 : i < step => ShutSteps[i] \notin up
    BY <1>1, LifeTypes, ShutAt DEF StepInv, ShutInv
  <1>4. (s \in BeforeEvents => "event" \notin up) /\ (s \in KeptForLoop => "loop" \notin up)
    <2>1. (s \in BeforeEvents => 1 < step) /\ (s \in KeptForLoop => 8 < step) BY <1>3, ShutOrder
    <2>2. 1 \in 1 .. 18 /\ 8 \in 1 .. 18 OBVIOUS
    <2> QED BY <1>3, <2>1, <2>2, ShutOrder
  <1>5. /\ TypeOK' /\ QueueInv' /\ UpInv' /\ up' = up \ {s} /\ step' = step + 1
        /\ \A u \in AppThreads : pc'[u] = pc[u]
        /\ pc'[EventThread] \in {"off", pc[EventThread]}
    <2>1. step < 19 BY <1>3
    <2> HIDE DEF s
    <2> QED BY <1>1, <1>4, <2>1, CloseFacts
  <1>6. LockInv' BY <1>1, <1>2, <1>5, LifeTypes DEF LockInv
  <1>7. ShutInv(t)'
    <2>1. step' \in 1 .. 19 BY <1>3, <1>5
    <2>2. \A i \in 1 .. 18 : i < step' => ShutSteps[i] \notin up'
      BY <1>3, <1>5
    <2>3. pc'[t] = "shut" BY <1>1, <1>5
    <2> QED BY <1>1, <1>3, <2>1, <2>2, <2>3, ShutAt DEF ShutInv
  <1>8. StepInv' BY <1>1, <1>2, <1>5, <1>7, LifeTypes DEF StepInv, Inside
  <1> QED BY <1>5, <1>6, <1>8 DEF LifeInv

\* It has the re thread destroy the accounts, when there are any.
LEMMA ShutAccountsStep ==
    ASSUME LifeInv, NEW t \in AppThreads, ShutAccounts(t)
    PROVE  LifeInv'
  <1>1. /\ pc[t] = "shut" /\ step <= 18 /\ ShutSteps[step] = "accounts"
        /\ UNCHANGED <<lock, stranded, initialized, instance, up, reg, re, accounts, failed>>
    BY ShutAt DEF ShutAccounts
  <1>2. lock = t /\ t # EventThread /\ \A u \in AppThreads \ {t} : pc[u] \notin Inside
    BY <1>1, OneInside DEF Inside
  <1>3. /\ initialized /\ step \in 1 .. 18 /\ t \in Threads
        /\ \A i \in 1 .. 18 : i < step => ShutSteps[i] \notin up
    BY <1>1, LifeTypes, ShutAt DEF StepInv, ShutInv
  <1>4. CASE accounts
    <2>1. queue' = Append(queue, t) /\ pc' = [pc EXCEPT ![t] = "shutwait"] /\ step' = step
      BY <1>4 DEF ShutAccounts
    <2>2. /\ pc' \in [Threads -> PcTypes] /\ pc'[t] = "shutwait"
          /\ \A u \in Threads \ {t} : pc'[u] = pc[u]
      BY <2>1, LifeTypes DEF PcTypes
    <2>3. LockInv' BY <1>1, <1>2, <2>1, <2>2, LifeTypes DEF LockInv
    <2>4. UpInv' BY <1>1, <1>2, <2>2, LifeTypes DEF UpInv
    <2>5. QueueInv' BY <1>1, <1>3, <2>1, <2>2, QueueGrows
    <2>6. ShutInv(t)'
      BY <1>1, <1>3, <2>1, ShutAt DEF ShutInv
    <2>7. StepInv' BY <1>1, <1>2, <2>2, <2>6, LifeTypes DEF StepInv, Inside
    <2>8. queue' \in Seq(Threads \cup {None}) BY <1>3, <2>1, LifeTypes
    <2>9. TypeOK' BY <1>1, <2>1, <2>2, <2>8, LifeTypes DEF TypeOK, PcTypes
    <2> QED BY <2>3, <2>4, <2>5, <2>7, <2>9 DEF LifeInv
  <1>5. CASE ~accounts
    <2>1. step' = step + 1 /\ UNCHANGED <<queue, pc>> BY <1>5 DEF ShutAccounts
    <2>2. LockInv' BY <1>1, <1>2, <2>1, LifeTypes DEF LockInv
    <2>3. UpInv' /\ QueueInv' BY <1>1, <2>1, LifeTypes DEF UpInv, QueueInv
    <2>4. \A i \in 1 .. 18 : i < step' => ShutSteps[i] \notin up'
      <3>1. ShutSteps[step] \notin up BY <1>1, LifeTypes, ShutOrder
      <3> QED BY <1>1, <1>3, <2>1, <3>1
    <2>5. step' \in 1 .. 19 BY <1>3, <2>1
    <2>6. ShutInv(t)' BY <1>1, <1>3, <2>1, <2>4, <2>5, ShutAt DEF ShutInv
    <2>7. StepInv' BY <1>1, <1>2, <2>1, <2>6, LifeTypes DEF StepInv, Inside
    <2>8. TypeOK'
      <3>1. TypeOK /\ step' \in 0 .. 19 BY <2>5, LifeTypes
      <3> QED BY ONLY SMTT(40), <1>1, <2>1, <3>1, ShutAt DEF TypeOK
    <2> QED BY <2>2, <2>3, <2>7, <2>8 DEF LifeInv
  <1> QED BY <1>4, <1>5, LifeTypes

\* voxsdk_shutdown() is through.
LEMMA ShutEndStep ==
    ASSUME LifeInv, NEW t \in AppThreads, ShutEnd(t)
    PROVE  LifeInv'
  <1>1. /\ pc[t] = "shut" /\ step > 18 /\ initialized' = FALSE /\ lock' = None
        /\ pc' = [pc EXCEPT ![t] = "idle"] /\ step' = 0 /\ failed' = FALSE
        /\ UNCHANGED <<stranded, instance, up, reg, re, queue, accounts>>
    BY ShutAt DEF ShutEnd
  <1>2. lock = t /\ t # EventThread /\ \A u \in AppThreads \ {t} : pc[u] \notin Inside
    BY <1>1, OneInside DEF Inside
  <1>3. up = {}
    <2>1. SUFFICES ASSUME NEW x \in up PROVE FALSE OBVIOUS
    <2>2. PICK k \in 1 .. 18 : ShutSteps[k] = x BY <2>1, ShutOrder, LifeTypes
    <2>3. ShutInv(t) BY <1>1, LifeTypes DEF StepInv
    <2>4. k < step BY <1>1, LifeTypes
    <2> QED BY <2>1, <2>2, <2>3, <2>4, ShutAt DEF ShutInv
  <1>5. /\ pc' \in [Threads -> PcTypes] /\ pc'[t] = "idle"
        /\ \A u \in Threads \ {t} : pc'[u] = pc[u]
    BY <1>1, LifeTypes DEF PcTypes
  <1>6. LockInv' BY <1>1, <1>2, <1>5, LifeTypes DEF LockInv, Inside
  <1>7. QueueInv' BY <1>1, <1>5, LifeTypes, QueueKept
  <1>8. UpInv' BY <1>1, <1>2, <1>5, LifeTypes DEF UpInv
  <1>9. RestInv' BY <1>1, <1>3 DEF RestInv
  <1>10. StepInv' BY <1>1, <1>2, <1>5, <1>9, LifeTypes DEF StepInv, Inside
  <1>11. TypeOK'
    <2>1. TypeOK /\ step' \in 0 .. 19 BY <1>1, LifeTypes
    <2>2. lock' \in AppThreads \cup {None} /\ initialized' \in BOOLEAN /\ failed' \in BOOLEAN
      BY <1>1
    <2> QED BY ONLY SMTT(40), <1>1, <1>5, <2>2, <2>1, ShutAt DEF TypeOK, PcTypes
  <1> QED BY <1>6, <1>7, <1>8, <1>10, <1>11 DEF LifeInv

-----------------------------------------------------------------------------
(* Work for the re thread.                                                 *)

\* A thread calls a function of the SDK.
LEMMA CallStep ==
    ASSUME LifeInv, NEW t \in Threads, NEW how \in {"sync", "async"}, Call(t, how)
    PROVE  LifeInv'
  <1>1. /\ pc[t] = "idle" /\ pc' = [pc EXCEPT ![t] = how]
        /\ UNCHANGED <<lock, stranded, initialized, instance, up, reg, step, accounts, failed, re, queue>>
    BY DEF Call, bootVars
  <1>3. /\ pc' \in [Threads -> PcTypes] /\ pc'[t] \in {"sync", "async"}
        /\ \A u \in Threads \ {t} : pc'[u] = pc[u]
    BY <1>1, LifeTypes DEF PcTypes
  <1>4. LockInv' /\ UpInv' /\ StepInv'
    BY <1>1, <1>3, LifeTypes, OutsideStep DEF Inside, LockInv
  <1>5. QueueInv' BY <1>1, <1>3, LifeTypes, QueueKept
  <1>6. TypeOK' BY <1>1, <1>3, LifeTypes DEF TypeOK, PcTypes
  <1> QED BY <1>4, <1>5, <1>6 DEF LifeInv

\* A thread asks for g_vox.lock from the API, or gets it and lets go.
LEMMA LockStep ==
    ASSUME LifeInv, NEW t \in Threads, AskLock(t) \/ GetLock(t)
    PROVE  LifeInv'
  <1>1. /\ pc[t] \in {"idle", "lock?"}
        /\ pc' = [pc EXCEPT ![t] = "lock?"] \/ pc' = [pc EXCEPT ![t] = "idle"]
        /\ UNCHANGED <<lock, stranded, initialized, instance, up, reg, step, accounts, failed, re, queue>>
    BY DEF AskLock, GetLock, bootVars
  <1>3. /\ pc' \in [Threads -> PcTypes] /\ pc'[t] \in {"idle", "lock?"}
        /\ \A u \in Threads \ {t} : pc'[u] = pc[u]
    BY SMTT(40), <1>1, LifeTypes DEF PcTypes
  <1>4. LockInv' /\ UpInv' /\ StepInv'
    BY SMTT(40), <1>1, <1>3, LifeTypes, OutsideStep DEF Inside, LockInv
  <1>5. QueueInv' BY <1>1, <1>3, LifeTypes, QueueKept
  <1>6. TypeOK' BY <1>1, <1>3, LifeTypes DEF TypeOK, PcTypes
  <1> QED BY <1>4, <1>5, <1>6 DEF LifeInv

\* The function is put on the dispatch queue, or refused.
LEMMA QueueStep ==
    ASSUME LifeInv, NEW t \in Threads, Queue(t)
    PROVE  LifeInv'
  <1>1. /\ pc[t] \in {"sync", "async"}
        /\ UNCHANGED <<lock, stranded, initialized, instance, up, reg, step, accounts, failed, re>>
    BY DEF Queue, bootVars
  <1>2. /\ pc' \in [Threads -> PcTypes] /\ pc'[t] \in {"wait", "idle"}
        /\ \A u \in Threads \ {t} : pc'[u] = pc[u]
    BY <1>1, LifeTypes DEF Queue, PcTypes
  <1>3. LockInv' /\ UpInv' /\ StepInv'
    BY <1>1, <1>2, LifeTypes, OutsideStep DEF Inside, LockInv
  <1>4. QueueInv' /\ queue' \in Seq(Threads \cup {None})
    <2>1. CASE "libre" \in up /\ pc[t] = "sync"
      <3>1. queue' = Append(queue, t) /\ pc'[t] = "wait" BY <2>1, LifeTypes DEF Queue
      <3> QED BY <1>1, <1>2, <3>1, LifeTypes, QueueGrows
    <2>2. CASE "libre" \in up /\ pc[t] = "async"
      <3>1. queue' = Append(queue, None) BY <2>2, LifeTypes DEF Queue
      <3>2. \A u \in Threads : pc'[u] = pc[u] \/ pc[u] \notin {"wait", "shutwait"}
        BY <1>1, <1>2
      <3> QED BY <3>1, <3>2, LifeTypes, QueueGrowsNone
    <2>3. CASE "libre" \notin up
      <3>1. queue' = queue BY <2>3 DEF Queue
      <3>2. \A u \in Threads : pc'[u] = pc[u] \/ pc[u] \notin {"wait", "shutwait"}
        BY <1>1, <1>2
      <3> QED BY <3>1, <3>2, LifeTypes, QueueKept
    <2> QED BY <1>1, <2>1, <2>2, <2>3
  <1>5. TypeOK' BY <1>1, <1>2, <1>4, LifeTypes DEF TypeOK, PcTypes
  <1> QED BY <1>3, <1>4, <1>5 DEF LifeInv

\* The re thread runs one, and wakes who waits for it.
LEMMA ReRunStep ==
    ASSUME LifeInv, ReRun
    PROVE  LifeInv'
  <1> DEFINE t == Head(queue)
             shut == t # None /\ pc[t] = "shutwait"
  <1>1. /\ re = "running" /\ queue # <<>> /\ queue' = Tail(queue)
        /\ pc' = IF t = None THEN pc ELSE [pc EXCEPT ![t] = IF shut THEN "shut" ELSE "idle"]
        /\ step' = IF shut THEN step + 1 ELSE step
        /\ accounts' \in BOOLEAN
        /\ UNCHANGED <<lock, stranded, initialized, instance, up, reg, re, failed>>
    BY DEF ReRun
  <1>2. /\ queue' \in Seq(Threads \cup {None}) /\ t = queue[1]
        /\ Len(queue) \in Nat \ {0} /\ DOMAIN queue = 1 .. Len(queue)
        /\ DOMAIN queue' = 1 .. Len(queue) - 1
        /\ \A i \in 1 .. Len(queue) - 1 : queue'[i] = queue[i + 1]
        /\ \A i \in 1 .. Len(queue) : queue[i] \in Threads \cup {None}
    BY <1>1, LifeTypes
  <1>3. t # None => t \in Threads /\ pc[t] \in {"wait", "shutwait"}
    BY SMTT(40), <1>2, LifeTypes DEF QueueInv
  <1>4. \A i \in 1 .. Len(queue) - 1 : queue'[i] # None => queue'[i] # t
    <2>1. ASSUME NEW i \in 1 .. Len(queue) - 1, queue'[i] # None, queue'[i] = t PROVE FALSE
      <3>1. i + 1 \in 1 .. Len(queue) /\ 1 \in 1 .. Len(queue) /\ i + 1 # 1 BY <1>2
      <3>2. queue[i + 1] = queue[1] /\ queue[1] # None BY <1>2, <2>1
      <3> QED BY <1>2, <3>1, <3>2, LifeTypes DEF QueueInv
    <2> QED BY <2>1
  <1> HIDE DEF t, shut
  <1>5. /\ pc' \in [Threads -> PcTypes] /\ \A u \in Threads \ {t} : pc'[u] = pc[u]
        /\ t = None => pc' = pc
        /\ t # None => pc'[t] = IF shut THEN "shut" ELSE "idle"
    BY <1>1, <1>3, LifeTypes DEF PcTypes
  <1>6. QueueInv'
    <2>1. ASSUME NEW i \in 1 .. Len(queue) - 1, queue'[i] # None
          PROVE  pc'[queue'[i]] \in {"wait", "shutwait"}
      <3>1. i + 1 \in 1 .. Len(queue) BY <1>2
      <3>2. queue[i + 1] = queue'[i] /\ queue'[i] \in Threads BY <1>2, <2>1, <3>1
      <3>3. pc[queue'[i]] \in {"wait", "shutwait"} BY <1>2, <2>1, <3>1, <3>2, LifeTypes DEF QueueInv
      <3> QED BY <1>4, <1>5, <2>1, <3>2, <3>3
    <2>2. ASSUME NEW i \in 1 .. Len(queue) - 1, queue'[i] # None,
                 NEW k \in 1 .. Len(queue) - 1, queue'[k] = queue'[i]
          PROVE  k = i
      <3>1. i + 1 \in 1 .. Len(queue) /\ k + 1 \in 1 .. Len(queue) BY <1>2
      <3>2. queue[i + 1] # None /\ queue[k + 1] = queue[i + 1] BY <1>2, <2>2
      <3>3. k + 1 = i + 1 BY <1>2, <3>1, <3>2, LifeTypes DEF QueueInv
      <3> QED BY <3>3, <1>2
    <2> QED BY <1>2, <2>1, <2>2 DEF QueueInv
  <1>7. CASE shut
    <2>0. t \in AppThreads /\ pc[t] = "shutwait" /\ pc'[t] = "shut"
      BY <1>3, <1>5, <1>7, LifeTypes DEF shut, LockInv, Threads
    <2>c. PICK c \in AppThreads : c = t BY <2>0
    <2>1. /\ pc[c] = "shutwait" /\ pc'[c] = "shut"
          /\ pc' \in [Threads -> PcTypes] /\ \A u \in Threads \ {c} : pc'[u] = pc[u]
      BY <1>5, <2>0, <2>c
    <2>2. lock = c /\ c # EventThread /\ \A u \in AppThreads \ {c} : pc[u] \notin Inside
      BY <2>1, OneInside DEF Inside
    <2>3. ShutInv(c) /\ step' = step + 1 BY <1>1, <1>7, <2>1, LifeTypes DEF StepInv
    <2>4. /\ initialized /\ step \in 1 .. 18 /\ ShutSteps[step] = "accounts"
          /\ \A i \in 1 .. 18 : i < step => ShutSteps[i] \notin up
      BY <2>1, <2>3, ShutAt DEF ShutInv
    <2>5. \A i \in 1 .. 18 : i < step' => ShutSteps[i] \notin up'
      <3>1. ShutSteps[step] \notin up BY <2>4, LifeTypes, ShutOrder
      <3> QED BY SMTT(40), <1>1, <2>3, <2>4, <3>1
    <2>6. step' \in 1 .. 19 BY <2>3, <2>4
    <2>7. ShutInv(c)' BY SMTT(40), <1>1, <2>1, <2>4, <2>5, <2>6, ShutAt DEF ShutInv
    <2>8. LockInv' BY <1>1, <2>1, <2>2, LifeTypes DEF LockInv
    <2>9. UpInv' BY <1>1, <2>1, <2>2, LifeTypes DEF UpInv
    <2>10. StepInv' BY <1>1, <2>1, <2>2, <2>7, LifeTypes DEF StepInv, Inside
    <2>11. TypeOK'
      <3>1. TypeOK /\ step' \in 0 .. 19 BY <2>6, LifeTypes
      <3> QED BY ONLY SMTT(40), <1>1, <1>2, <1>5, <3>1, ShutAt DEF TypeOK, PcTypes
    <2> QED BY <1>6, <2>8, <2>9, <2>10, <2>11 DEF LifeInv
  <1>8. CASE ~shut
    <2>1. step' = step /\ (t # None => pc[t] = "wait" /\ pc'[t] = "idle")
      BY <1>1, <1>3, <1>5, <1>8 DEF shut
    <2>2. LockInv' /\ UpInv' /\ StepInv'
      BY <1>1, <1>3, <1>5, <2>1, LifeTypes, OutsideStep DEF Inside, LockInv
    <2>3. TypeOK'
      <3>1. TypeOK BY LifeTypes
      <3> QED BY ONLY <1>1, <1>2, <1>5, <2>1, <3>1 DEF TypeOK, PcTypes
    <2> QED BY <1>6, <2>2, <2>3 DEF LifeInv
  <1> QED BY <1>7, <1>8

-----------------------------------------------------------------------------
(* The invariant, and what it says.                                        *)

\* A process that has not called voxsdk_init() satisfies the invariant.
LEMMA LifeBegins == Init => LifeInv
  <1> SUFFICES ASSUME Init PROVE LifeInv OBVIOUS
  <1>1. /\ lock = None /\ stranded = {} /\ initialized = FALSE /\ instance = 0
        /\ up = {} /\ reg = [s \in Registered |-> 0] /\ step = 0 /\ re = "off" /\ queue = <<>>
        /\ accounts = FALSE /\ failed = FALSE
        /\ pc = [t \in Threads |-> IF t \in AppThreads THEN "idle" ELSE "off"]
    BY DEF Init
  <1>2. /\ pc \in [Threads -> PcTypes] /\ pc[EventThread] = "off"
        /\ \A t \in AppThreads : pc[t] = "idle"
    BY <1>1 DEF PcTypes, Threads
  <1>3. TypeOK
    <2>1. reg \in [Registered -> 0 .. MaxInits] /\ instance \in 0 .. MaxInits BY <1>1
    <2>2. step \in 0 .. 19 BY <1>1
    <2>3. queue \in Seq(Threads \cup {None}) BY <1>1
    <2>4. /\ lock \in AppThreads \cup {None} /\ stranded \subseteq AppThreads /\ up \subseteq Subsystems
          /\ initialized \in BOOLEAN /\ accounts \in BOOLEAN /\ failed \in BOOLEAN
          /\ re \in {"off", "running"}
      BY <1>1
    <2>5. pc \in [Threads -> PcTypes] BY <1>2
    <2> QED BY ONLY SMTT(40), <2>4, <2>5, <2>1, <2>2, <2>3, ShutAt DEF TypeOK, PcTypes
  <1>4. LockInv BY <1>1, <1>2 DEF LockInv, Threads
  <1>5. QueueInv BY <1>1 DEF QueueInv
  <1>6. UpInv BY <1>1, <1>2 DEF UpInv
  <1>7. StepInv BY <1>1, <1>2 DEF StepInv, RestInv
  <1> QED BY <1>3, <1>4, <1>5, <1>6, <1>7 DEF LifeInv

\* A step of nothing keeps the invariant.
LEMMA LifeStutter ==
    ASSUME LifeInv, UNCHANGED vars
    PROVE  LifeInv'
  <1>1. UNCHANGED <<lock, stranded, initialized, instance, up, reg, pc, step, re, queue,
                    accounts, failed>>
    BY DEF vars
  <1>2. TypeOK' /\ LockInv' /\ QueueInv' /\ UpInv'
    BY <1>1, LifeTypes DEF TypeOK, LockInv, QueueInv, UpInv
  <1>3. StepInv' BY <1>1, LifeTypes DEF StepInv, RestInv, InitInv, FailInv, ShutInv, Current
  <1> QED BY <1>2, <1>3 DEF LifeInv

\* Every step keeps the invariant.
LEMMA LifeSteps ==
    ASSUME LifeInv, [Next]_vars
    PROVE  LifeInv'
  <1>1. CASE UNCHANGED vars BY <1>1, LifeStutter
  <1>2. ASSUME NEW t \in AppThreads, NEW what \in {"init", "shut"}, Want(t, what) \/ Enter(t, what)
        PROVE  LifeInv'
    BY <1>2, WantStep, EnterStep
  <1>3. ASSUME NEW t \in AppThreads, InitStep(t) \/ InitFail(t) \/ InitDone(t)
        PROVE  LifeInv'
    BY <1>3, InitStepStep, InitFailStep, InitDoneStep
  <1>4. ASSUME NEW t \in AppThreads, FailStep(t) \/ FailEnd(t)
        PROVE  LifeInv'
    BY <1>4, FailStepStep, FailEndStep
  <1>5. ASSUME NEW t \in AppThreads, ShutStep(t) \/ ShutAccounts(t) \/ ShutEnd(t)
        PROVE  LifeInv'
    BY <1>5, ShutStepStep, ShutAccountsStep, ShutEndStep
  <1>6. ASSUME NEW t \in Threads, Queue(t) \/ \E how \in {"sync", "async"} : Call(t, how)
        PROVE  LifeInv'
    BY <1>6, QueueStep, CallStep
  <1>8. ASSUME NEW t \in Threads, AskLock(t) \/ GetLock(t)
        PROVE  LifeInv'
    BY <1>8, LockStep
  <1>7. CASE ReRun BY <1>7, ReRunStep
  <1> QED BY <1>1, <1>2, <1>3, <1>4, <1>5, <1>6, <1>7, <1>8 DEF Next

\* No thread inside voxsdk_shutdown() and the SDK initialised: g_vox.lock is free.
LEMMA LifeSound == LifeInv => LifecycleSound
  <1> SUFFICES ASSUME LifeInv PROVE LifecycleSound OBVIOUS
  <1>1. RegistrationsCurrentUnlessFailed
    <2>1. SUFFICES ASSUME initialized, \A t \in Threads : pc[t] \notin {"shut", "shutwait"}
                   PROVE  \A s \in Registered : Current(s)
      BY DEF RegistrationsCurrentUnlessFailed, Current
    <2>2. lock = None
      <3>1. SUFFICES ASSUME lock # None PROVE FALSE OBVIOUS
      <3>2. lock \in AppThreads /\ lock \in Threads BY <3>1, LifeTypes
      <3>3. pc[lock] \in {"init", "fail"} BY <2>1, <3>2, LifeTypes DEF LockInv
      <3> QED BY <2>1, <3>2, <3>3, LifeTypes DEF StepInv, InitInv, FailInv
    <2> QED BY <2>1, <2>2, LifeTypes DEF StepInv, RestInv
  <1>2. JoinedFirst BY LifeTypes DEF JoinedFirst, UpInv
  <1> QED BY <1>1, <1>2, LifeTypes DEF LifecycleSound

\* Whatever the interleaving of init, shutdown and API calls, and however many
\* subsystems refused to start in earlier attempts, the invariant holds.
THEOREM LifecycleInvariant == Spec => []LifeInv
  BY LifeBegins, LifeSteps, PTL DEF Spec

\* While the SDK says it is initialised every registration is with the baresip that
\* runs (but for the three static ones after a voxsdk_init() that failed and was not
\* shut down), and each thread is joined before what it rests on is closed, for any
\* number of threads and of restarts.  Statistics, trace, messages, presence and the
\* filters are closed under the running re thread, and are not in the promise.
THEOREM LifecycleIsSound == Spec => []LifecycleSound
  BY LifecycleInvariant, LifeSound, PTL

\* The two invariants together, of the specification in which either part may move.
THEOREM SdkInvariant == MCSpec => [](LifeInv /\ Acct!AcctInv)
  <1>1. MCInit => LifeInv /\ Acct!AcctInv BY LifeBegins, AcctBegins DEF MCInit
  <1>2. ASSUME LifeInv /\ Acct!AcctInv, [MCNext]_allVars
        PROVE  (LifeInv /\ Acct!AcctInv)'
    <2>1. CASE part = "lifecycle" /\ Next /\ UNCHANGED <<part, acctVars>>
      BY <1>2, <2>1, LifeSteps, AcctSteps
    <2>2. CASE part = "accounts" /\ Acct!Next /\ UNCHANGED <<part, vars>>
      BY <1>2, <2>2, LifeStutter, AcctSteps
    <2>3. CASE UNCHANGED allVars
      BY <1>2, <2>3, LifeStutter, AcctSteps DEF allVars
    <2> QED BY <1>2, <2>1, <2>2, <2>3 DEF MCNext
  <1> QED BY <1>1, <1>2, PTL DEF MCSpec

\* No DNS answer reaches freed memory or an account that did not ask, but at a reused
\* address, and the handle an iteration hands out is alive (account.c).
THEOREM AccountsAreSound == MCSpec => []AccountsSound
  BY SdkInvariant, AcctSound, PTL

\* The lifecycle's promise in the specification TLC checks.
THEOREM SdkIsSound == MCSpec => []LifecycleSound
  BY SdkInvariant, LifeSound, PTL
=============================================================================
