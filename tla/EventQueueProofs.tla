-------------------------- MODULE EventQueueProofs --------------------------
(***************************************************************************)
(* Proofs about EventQueue, for every number of threads, callbacks, calls   *)
(* and every queue limit.                                                  *)
(***************************************************************************)
EXTENDS EventQueue, FiniteSetTheorems, TLAPS

USE QueueMaxAssumption, ConstantsAssumption
USE DEF vars, queueVars, etVars, callVars, coreVars, handlerVars

\* The events the producers build are events, and dropping a reference keeps
\* the counts integers.
LEMMA EventTypes ==
    /\ Plain \in Event
    /\ \A c \in Calls : State(c) \in Event /\ Sdp(c) \in Event /\ Closed(c) \in Event
  BY DEF Event, Plain, State, Sdp, Closed

\* Dropping a reference keeps the counts typed.
LEMMA DerefType ==
    ASSUME NEW r \in [Calls -> Int], NEW c \in Calls \cup {NoCall}
    PROVE  Deref(r, c) \in [Calls -> Int]
  BY DEF Deref

\* What the sequence operators do to the queue.
LEMMA AppendType ==
    ASSUME NEW q \in Seq(Event), NEW e \in Event
    PROVE  Append(q, e) \in Seq(Event) /\ Len(Append(q, e)) = Len(q) + 1
  OBVIOUS

\* The empty queue is a queue.
LEMMA EmptyType == <<>> \in Seq(Event) /\ Len(<<>>) = 0
  OBVIOUS

\* Posting keeps the queue typed and its counter exact and within the limit
\* (vox_event_post_qev()).
LEMMA PostType ==
    ASSUME TypeOK, NEW e \in Event, Post(e)
    PROVE  /\ queue' \in Seq(Event) /\ qlen' \in 0 .. QueueMax
           /\ refs' \in [Calls -> Int] /\ lost' \subseteq Calls
           /\ qlen = Len(queue) => qlen' = Len(queue')
  <1>1. e.hold \in Calls \cup {NoCall}
    BY DEF Event
  <1>2. CASE qlen >= QueueMax
    BY <1>1, <1>2, DerefType DEF Post, TypeOK
  <1>3. CASE ~(qlen >= QueueMax)
    <2>1. queue' = Append(queue, e) /\ qlen' = qlen + 1 /\ UNCHANGED <<refs, lost>>
      BY <1>3 DEF Post
    <2>2. queue \in Seq(Event) /\ qlen \in 0 .. QueueMax
          /\ refs \in [Calls -> Int] /\ lost \subseteq Calls
      BY DEF TypeOK
    <2>3. queue' \in Seq(Event) /\ Len(queue') = Len(queue) + 1
      BY <2>1, <2>2, AppendType
    <2> QED BY <1>3, <2>1, <2>2, <2>3
  <1> QED BY <1>2, <1>3

\* Initially the invariant holds.
LEMMA InitIInv == Init => IInv
  <1> SUFFICES ASSUME Init PROVE IInv
    OBVIOUS
  <1>1. handler \in [cb : Callback, owned : BOOLEAN]
    BY DEF Init, Callback
  <1>2. etEv \in Event /\ queue \in Seq(Event) /\ qlen = Len(queue)
    BY EventTypes, EmptyType DEF Init
  <1>3. TypeOK
    <2>1. /\ refs \in [Calls -> Int] /\ held \in [Calls -> Nat]
          /\ callState \in [Calls -> {"none", "live", "gone"}]
          /\ appPc \in [AppThreads -> AppPc]
      BY DEF Init, AppPc
    <2>2. qlen \in 0 .. QueueMax /\ posting \in BOOLEAN
      BY DEF Init
    <2>3. etHandler = handler /\ etPc \in EtPc
      BY DEF Init, EtPc
    <2> QED BY <1>1, <1>2, <2>1, <2>2, <2>3 DEF Init, TypeOK
  <1> QED
    BY <1>2, <1>3 DEF Init, IInv, LockInv, ThreadInv, QueueLengthExact,
       RetiredUnreachable, Active

\* Every step of a producer keeps the invariant.
LEMMA ProducerStep == IInv /\ Producer => IInv'
  <1> SUFFICES ASSUME IInv, Producer PROVE IInv'
    OBVIOUS
  <1> USE DEF IInv, LockInv, ThreadInv, QueueLengthExact, RetiredUnreachable
  <1>1. CASE PostPlain
    <2>1. Post(Plain) BY <1>1 DEF PostPlain
    <2>2. posting' \in BOOLEAN BY <1>1 DEF PostPlain, Producing, TypeOK
    <2> QED BY <1>1, <2>1, <2>2, PostType, EventTypes DEF PostPlain, TypeOK
  <1>8. CASE PostLog
    <2>1. queue \in Seq(Event) /\ qlen \in 0 .. QueueMax /\ Plain \in Event
      BY EventTypes DEF TypeOK
    <2>2. CASE qlen >= QueueMax
      BY <1>8, <2>1, <2>2 DEF PostLog, Producing, TypeOK
    <2>3. CASE qlen < QueueMax
      <3>1. queue' = Append(queue, Plain) /\ qlen' = qlen + 1
        BY <1>8, <2>1, <2>3 DEF PostLog
      <3>2. queue' \in Seq(Event) /\ Len(queue') = Len(queue) + 1
        BY <2>1, <3>1, AppendType
      <3>3. qlen' \in 0 .. QueueMax BY <2>1, <2>3, <3>1
      <3> QED BY <1>8, <3>1, <3>2, <3>3 DEF PostLog, Producing, TypeOK
    <2> QED BY <2>1, <2>2, <2>3
  <1>2. CASE PostRaced
    <2>1. etPc = "off" BY <1>2 DEF PostRaced
    <2> QED BY <1>2, <2>1 DEF PostRaced, Producing, TypeOK, Active
  <1>3. ASSUME NEW c \in Calls, CallNew(c) PROVE IInv'
    <2>1. State(c) \in Event BY EventTypes
    <2>2. posting' \in BOOLEAN BY <1>3 DEF CallNew, Producing, TypeOK
    <2>3. queue \in Seq(Event) /\ qlen \in 0 .. QueueMax /\ refs \in [Calls -> Int]
          /\ callState \in [Calls -> {"none", "live", "gone"}]
      BY DEF TypeOK
    <2>4. CASE qlen >= QueueMax
      <3>1. UNCHANGED <<refs, queue, qlen>>
            /\ callState' = [callState EXCEPT ![c] = "gone"]
        BY <1>3, <2>4 DEF CallNew
      <3> QED BY <1>3, <2>2, <2>3, <3>1 DEF CallNew, TypeOK
    <2>5. CASE ~(qlen >= QueueMax)
      <3>1. /\ queue' = Append(queue, State(c)) /\ qlen' = qlen + 1
            /\ refs' = [refs EXCEPT ![c] = 1]
            /\ callState' = [callState EXCEPT ![c] = "live"]
        BY <1>3, <2>5 DEF CallNew
      <3>2. queue' \in Seq(Event) /\ Len(queue') = Len(queue) + 1
        BY <2>1, <2>3, <3>1, AppendType
      <3>3. qlen' \in 0 .. QueueMax BY <2>3, <2>5, <3>1
      <3> QED BY <1>3, <2>2, <2>3, <3>1, <3>2, <3>3 DEF CallNew, TypeOK
    <2> QED BY <2>4, <2>5
  <1>4. ASSUME NEW c \in Calls, NEW e \in Event, CallPost(c, e) PROVE IInv'
    <2>1. Post(e) BY <1>4 DEF CallPost
    <2>2. posting' \in BOOLEAN BY <1>4 DEF CallPost, Producing, TypeOK
    <2> QED BY <1>4, <2>1, <2>2, PostType DEF CallPost, TypeOK
  <1>5. ASSUME NEW c \in Calls, CallClosed(c) PROVE IInv'
    BY <1>5 DEF CallClosed, TypeOK
  <1>6. CASE CallClosedPost
    <2>1. reHold \in Calls BY <1>6 DEF CallClosedPost, TypeOK
    <2>2. Post(Closed(reHold)) BY <1>6 DEF CallClosedPost
    <2> QED BY <1>6, <2>1, <2>2, PostType, EventTypes DEF CallClosedPost, TypeOK
  <1>7. CASE CallClosedOom
    BY <1>7 DEF CallClosedOom, TypeOK
  <1> QED BY <1>1, <1>2, <1>3, <1>4, <1>5, <1>6, <1>7, <1>8, EventTypes DEF Producer

\* Taking the head of the queue (the section of event_thread_fn() that holds
\* ev_lock) keeps the counter exact and starts a delivery.
LEMMA TakeType ==
    ASSUME TypeOK, QueueLengthExact, etPc # "off", Take
    PROVE  /\ queue' \in Seq(Event) /\ qlen' \in 0 .. QueueMax
           /\ qlen' = Len(queue') /\ etEv' \in Event
           /\ etHandler' = handler /\ delivering' = TRUE /\ etPc' = "snap"
  BY DEF TypeOK, QueueLengthExact, Take

\* Every step of the event thread keeps the invariant.
LEMMA EventThreadStep == IInv /\ EventThread => IInv'
  <1> SUFFICES ASSUME IInv, EventThread PROVE IInv'
    OBVIOUS
  <1> USE DEF IInv, LockInv, ThreadInv, QueueLengthExact, RetiredUnreachable,
              Active, EtPc
  <1>0. etPc # "off" => \A a \in AppThreads : appPc[a] \notin {"free", "teardown"}
    OBVIOUS
  <1>1. CASE EtTake
    <2>1. Take /\ etPc # "off" BY <1>1 DEF EtTake
    <2> QED BY ZenonT(60), <1>0, <1>1, <2>1, TakeType DEF EtTake, TypeOK
  <1>2. CASE EtSkip
    BY <1>2 DEF EtSkip, TypeOK
  <1>3. CASE EtCallOwned
    <2>1. etEv' \in Event BY <1>3 DEF EtCallOwned, TypeOK, Event
    <2>2. /\ etEv.kind # "plain" => etEv.call \in Calls
          /\ etEv.hold # NoCall => etEv.hold \in Calls
      BY DEF TypeOK, Event
    <2>a. held \in [Calls -> Nat] /\ refs \in [Calls -> Int] /\ ended \subseteq Calls
      BY DEF TypeOK
    <2>b. ASSUME etEv.hold # NoCall
          PROVE  held' \in [Calls -> Nat] /\ refs' \in [Calls -> Int]
      BY <1>3, <2>2, <2>a, <2>b DEF EtCallOwned
    <2>c. ASSUME etEv.hold = NoCall /\ etEv.kind = "sdp" /\ refs[etEv.call] > 0
          PROVE  held' \in [Calls -> Nat] /\ refs' \in [Calls -> Int]
      BY <1>3, <2>2, <2>a, <2>c DEF EtCallOwned
    <2>d. ASSUME etEv.hold = NoCall /\ ~(etEv.kind = "sdp" /\ refs[etEv.call] > 0)
          PROVE  held' \in [Calls -> Nat] /\ refs' \in [Calls -> Int]
      BY <1>3, <2>2, <2>a, <2>d DEF EtCallOwned
    <2>3. held' \in [Calls -> Nat] /\ refs' \in [Calls -> Int]
      BY <2>b, <2>c, <2>d
    <2>4. ended' \subseteq Calls BY <1>3, <2>2, <2>a DEF EtCallOwned
    <2> QED BY <1>0, <1>3, <2>1, <2>3, <2>4 DEF EtCallOwned, TypeOK
  <1>4. CASE EtCallBorrowed
    <2>1. etEv.kind # "plain" => etEv.call \in Calls BY DEF TypeOK, Event
    <2>2. ended' \subseteq Calls BY <1>4, <2>1 DEF EtCallBorrowed, TypeOK
    <2> QED BY <1>4, <2>2 DEF EtCallBorrowed, TypeOK
  <1>5. CASE EtReenter
    BY <1>5 DEF EtReenter, TypeOK
  <1>6. CASE EtReenterIsInit
    BY <1>6 DEF EtReenterIsInit, TypeOK
  <1>7. ASSUME NEW h \in Callback, NEW owned \in BOOLEAN, EtReenterSet(h, owned)
        PROVE  IInv'
    BY <1>7 DEF EtReenterSet, TypeOK
  <1>8. CASE EtReturn
    BY <1>8 DEF EtReturn, TypeOK
  <1>9. CASE EtDone
    <2>1. etEv.hold \in Calls \cup {NoCall} BY DEF TypeOK, Event
    <2>2. refs' \in [Calls -> Int] BY <1>9, <2>1, DerefType DEF EtDone, TypeOK
    <2>3. CASE Take
      <3>1. etPc # "off" BY <1>9 DEF EtDone
      <3> QED BY <1>0, <1>9, <2>2, <2>3, <3>1, TakeType DEF EtDone, TypeOK
    <2>4. CASE ~Take
      BY <1>9, <2>2, <2>4, EventTypes DEF EtDone, TypeOK
    <2> QED BY <2>3, <2>4
  <1>10. CASE EtExit
    BY <1>10 DEF EtExit, TypeOK
  <1> QED BY <1>1, <1>2, <1>3, <1>4, <1>5, <1>6, <1>7, <1>8, <1>9, <1>10 DEF EventThread

\* Every step of an application thread keeps the invariant.
LEMMA AppStep ==
    ASSUME IInv, NEW a \in AppThreads, App(a)
    PROVE  IInv'
  <1> USE DEF IInv, LockInv, ThreadInv, QueueLengthExact, RetiredUnreachable,
              Active, EtPc, AppPc
  <1>1. ASSUME NEW h \in Handlers, NEW owned \in BOOLEAN, SdkInit(a, h, owned)
        PROVE  IInv'
    <2>1. \A b \in AppThreads : appPc[b] = "idle" BY <1>1 DEF SdkInit
    <2>2. etPc = "off" BY <1>1 DEF SdkInit
    <2>3. queue' \in Seq(Event) /\ qlen' = 0 /\ qlen' = Len(queue')
      BY <1>1, EmptyType DEF SdkInit
    <2>4. handler' \in [cb : Callback, owned : BOOLEAN] /\ handler'.cb = h
      BY <1>1 DEF SdkInit, Callback
    <2>5. leaked' \subseteq Calls /\ retired' \subseteq Handlers /\ h \notin retired'
      BY <1>1 DEF SdkInit, TypeOK
    <2>6. TypeOK'
      <3>1. qlen' \in 0 .. QueueMax BY <2>3
      <3>2. UNCHANGED <<posting, etEv, etHandler, callState, refs, reHold, held, lost,
                        ended, lock, appPc>>
        BY <1>1 DEF SdkInit
      <3>3. initialized' = TRUE /\ evShutdown' = FALSE /\ delivering' = FALSE /\ etPc' = "wait"
        BY <1>1 DEF SdkInit
      <3> QED BY <2>3, <2>4, <2>5, <3>1, <3>2, <3>3 DEF TypeOK
    <2> QED BY <1>1, <2>1, <2>3, <2>4, <2>5, <2>6 DEF SdkInit
  <1>2. ASSUME NEW h \in Callback, NEW owned \in BOOLEAN, SwapBegin(a, h, owned)
        PROVE  IInv'
    BY <1>2 DEF SwapBegin, TypeOK
  <1>3. CASE SwapReturn(a)
    <2>1. etPc \notin Active BY <1>3 DEF SwapReturn
    <2>2. \A b \in AppThreads : b # a => appPc[b] = "idle" BY <1>3 DEF SwapReturn
    <2> QED BY <1>3, <2>1, <2>2 DEF SwapReturn, TypeOK
  <1>4. CASE ShutdownBegin(a)
    BY <1>4 DEF ShutdownBegin, TypeOK
  <1>5. CASE ShutdownJoin(a)
    BY <1>5 DEF ShutdownJoin, TypeOK
  <1>6. CASE ShutdownFreeOne(a)
    <2>1. etPc = "off" BY <1>6 DEF ShutdownFreeOne
    <2>2. Head(queue) \in Event /\ Tail(queue) \in Seq(Event)
      BY <1>6 DEF ShutdownFreeOne, TypeOK
    <2>3. Head(queue).hold \in Calls \cup {NoCall} BY <2>2 DEF Event
    <2>4. refs' \in [Calls -> Int] BY <1>6, <2>3, DerefType DEF ShutdownFreeOne, TypeOK
    <2> QED BY <1>6, <2>1, <2>2, <2>4 DEF ShutdownFreeOne, TypeOK
  <1>7. CASE ShutdownFreed(a)
    BY <1>7 DEF ShutdownFreed, TypeOK
  <1>8. CASE ShutdownEnd(a)
    <2>1. etPc = "off" BY <1>8 DEF ShutdownEnd
    <2>2. \A b \in AppThreads : b # a => appPc[b] = "idle" BY <1>8 DEF ShutdownEnd
    <2>3. refs' \in [Calls -> Int] /\ callState' \in [Calls -> {"none", "live", "gone"}]
      BY <1>8 DEF ShutdownEnd, TypeOK
    <2> QED BY ZenonT(60), <1>8, <2>1, <2>2, <2>3 DEF ShutdownEnd, TypeOK
  <1> QED BY <1>1, <1>2, <1>3, <1>4, <1>5, <1>6, <1>7, <1>8 DEF App

\* Releasing an owned event keeps the invariant.
LEMMA ReleaseStep ==
    ASSUME IInv, NEW c \in Calls, Release(c)
    PROVE  IInv'
  BY DEF IInv, LockInv, ThreadInv, QueueLengthExact, RetiredUnreachable, Release,
         TypeOK

\* A step that changes nothing keeps the invariant.
LEMMA StutterStep == IInv /\ UNCHANGED vars => IInv'
  BY DEF IInv, LockInv, ThreadInv, QueueLengthExact, RetiredUnreachable, TypeOK

\* The conjunction of the lock discipline, the event thread's place, the typing,
\* the exact queue length and the swap promise is an inductive invariant.
THEOREM InductiveInvariant == Spec => []IInv
  <1>1. IInv /\ [Next]_vars => IInv'
    BY ProducerStep, EventThreadStep, AppStep, ReleaseStep, StutterStep DEF Next
  <1> QED BY InitIInv, <1>1, PTL DEF Spec

\* Every variable keeps its type and ev_queue_len never passes ev_queue_max.
THEOREM TypeCorrect == Spec => []TypeOK
  <1>1. IInv => TypeOK BY DEF IInv
  <1> QED BY InductiveInvariant, <1>1, PTL

\* voxsdk_set_event_handler()'s promise, for any number of threads and
\* callbacks: once it (or voxsdk_shutdown()) has returned, the replaced
\* callback is neither running nor reachable.
THEOREM SwapPromise == Spec => []RetiredUnreachable
  <1>1. IInv => RetiredUnreachable BY DEF IInv
  <1> QED BY InductiveInvariant, <1>1, PTL

\* The counter vox_event_post_qev() tests is the length of the queue whenever an
\* event thread runs, over any sequence of shutdowns and re-inits.
THEOREM CounterExact == Spec => []QueueLengthExact
  <1>1. IInv => QueueLengthExact BY DEF IInv
  <1> QED BY InductiveInvariant, <1>1, PTL

-----------------------------------------------------------------------------
(* Who holds a wrapper's reference, and which events are on their way.     *)

\* What stands where after an append and after the head was taken.
LEMMA AppendAt ==
    ASSUME NEW q \in Seq(Event), NEW e \in Event
    PROVE  /\ DOMAIN Append(q, e) = 1 .. Len(q) + 1
           /\ DOMAIN q = 1 .. Len(q) /\ Len(q) \in Nat
           /\ \A i \in DOMAIN q : Append(q, e)[i] = q[i]
           /\ Append(q, e)[Len(q) + 1] = e
  OBVIOUS

\* What taking an event off the queue does, position by position.
LEMMA TailAt ==
    ASSUME NEW q \in Seq(Event), q # <<>>
    PROVE  /\ Tail(q) \in Seq(Event) /\ Len(q) \in Nat /\ Len(q) >= 1
           /\ DOMAIN q = 1 .. Len(q) /\ DOMAIN Tail(q) = 1 .. Len(q) - 1
           /\ \A i \in DOMAIN Tail(q) : i + 1 \in DOMAIN q /\ Tail(q)[i] = q[i + 1]
           /\ Head(q) = q[1] /\ 1 \in DOMAIN q
           /\ \A i \in DOMAIN q : i # 1 => i - 1 \in DOMAIN Tail(q) /\ Tail(q)[i - 1] = q[i]
  OBVIOUS

\* The fields of an event.
LEMMA EventFields ==
    ASSUME NEW e \in Event
    PROVE  /\ e.kind \in {"plain", "state", "sdp", "closed"}
           /\ e.hold \in Calls \cup {NoCall} /\ e.call \in Calls \cup {NoCall}
           /\ e.kind # "plain" => e.call \in Calls
  BY DEF Event

\* An append of an event that carries nothing: the plain ones, and the events of
\* a call that is listed.
LEMMA AppendOwn ==
    ASSUME TypeOK, QueueInv, CurrentInv, CallInv, NEW e \in Event,
           queue' = Append(queue, e), e.hold = NoCall,
           e.kind = "plain" => e.call = NoCall,
           e.kind # "plain" => Announces(e) /\ callState'[e.call] = "live" /\ e.call \notin ended,
           UNCHANGED <<etPc, etEv, reHold, held, lost, leaked, ended>>,
           \A c \in Calls : c = e.call \/ callState'[c] = callState[c],
           e.kind # "plain" => callState[e.call] # "gone"
    PROVE  /\ QueueInv' /\ CurrentInv' /\ CallInv'
           /\ \A c \in Calls : Queued(c)' <=> Queued(c)
  <1>0. queue \in Seq(Event)
    BY DEF TypeOK
  <1>1. /\ DOMAIN queue' = 1 .. Len(queue) + 1 /\ Len(queue) \in Nat
        /\ DOMAIN queue = 1 .. Len(queue)
        /\ \A i \in DOMAIN queue : queue'[i] = queue[i]
        /\ queue'[Len(queue) + 1] = e
    BY <1>0, AppendAt
  <1>2. \A i \in DOMAIN queue : queue[i] \in Event
    BY <1>0, <1>1
  <1>3. \A c \in Calls : Over(c) => Over(c)' /\ e.call # c
    <2> SUFFICES ASSUME NEW c \in Calls, Over(c) PROVE Over(c)' /\ e.call # c
      OBVIOUS
    <2>1. e.call # c BY EventFields DEF Over
    <2> QED BY <2>1 DEF Over
  <1>4. \A c \in Calls : Backed(c) => Backed(c)'
    BY EventFields DEF Backed
  <1>5. \A c \in Calls : Queued(c)' <=> Queued(c)
    BY <1>1 DEF Queued
  <1>6. \A c \in Calls : callState[c] # "none" => callState'[c] # "none"
    BY EventFields
  <1>7. QueueInv'
    <2> SUFFICES ASSUME NEW i \in DOMAIN queue'
                 PROVE  TerminalLast(i)' /\ Outlived(i)'
      BY DEF QueueInv
    <2>1. CASE i \in DOMAIN queue
      <3>1. queue'[i] = queue[i] /\ queue[i] \in Event /\ TerminalLast(i) /\ Outlived(i)
        BY <2>1, <1>1, <1>2 DEF QueueInv
      <3>2. TerminalLast(i)'
        <4>1. CASE queue[i].kind = "closed"
          <5>1. PICK c \in Calls : c = queue[i].call
            BY <3>1, <4>1, EventFields
          <5>2. Over(c)' /\ e.call # c
            BY <3>1, <4>1, <5>1, <1>3 DEF TerminalLast
          <5>3. \A k \in DOMAIN queue' : k > i => queue'[k].call # c
            BY <3>1, <4>1, <5>1, <5>2, <1>1 DEF TerminalLast
          <5> QED BY <3>1, <4>1, <5>1, <5>2, <5>3 DEF TerminalLast, Over
        <4>2. CASE queue[i].kind # "closed"
          BY <3>1, <4>2 DEF TerminalLast
        <4> QED BY <4>1, <4>2
      <3>3. Outlived(i)'
        <4>1. CASE queue[i].kind = "plain"
          BY <3>1, <4>1 DEF Outlived, Announces
        <4>2. CASE queue[i].kind # "plain"
          <5>1. PICK c \in Calls : c = queue[i].call
            BY <3>1, <4>2, EventFields
          <5>2. callState'[c] # "none"
            BY <3>1, <4>2, <5>1, <1>6 DEF Outlived
          <5>3. (\E k \in DOMAIN queue : k > i /\ queue[k].hold = c)
                   => \E k \in DOMAIN queue' : k > i /\ queue'[k].hold = c
            BY <1>1
          <5> QED BY <3>1, <5>1, <5>2, <5>3, <1>4 DEF Outlived, Backed, Announces
        <4> QED BY <4>1, <4>2
      <3> QED BY <3>2, <3>3
    <2>2. CASE i = Len(queue) + 1
      <3>1. queue'[i] = e BY <2>2, <1>1
      <3> QED BY <3>1, EventFields DEF Announces, Backed, TerminalLast, Outlived
    <2> QED BY <2>1, <2>2, <1>1
  <1>8. CurrentInv'
    <2>1. etEv \in Event BY DEF TypeOK
    <2>2. etEv.kind # "plain" => etEv.call \in Calls BY <2>1, EventFields
    <2>3. etPc \in Active /\ etEv.kind = "closed" =>
              Over(etEv.call)' /\ \A k \in DOMAIN queue' : queue'[k].call # etEv.call
      BY <2>2, <1>1, <1>3 DEF CurrentInv
    <2>4. etPc \in Active /\ Announces(etEv) => Backed(etEv.call)' \/ Queued(etEv.call)'
      BY <2>2, <1>4, <1>5 DEF CurrentInv, Announces
    <2> QED BY <2>2, <2>3, <2>4, <1>6 DEF CurrentInv, Over, Backed, Queued, Announces
  <1>9. CallInv'
    <2> SUFFICES ASSUME NEW c \in Calls
                 PROVE  /\ callState'[c] = "none" => reHold' # c /\ held'[c] = 0
                        /\ reHold' = c => callState'[c] = "gone"
                        /\ c \in leaked' => Over(c)'
                        /\ c \in ended' =>
                              /\ Over(c)'
                              /\ \A i \in DOMAIN queue' : queue'[i].call # c
                              /\ etPc' \in Active /\ etEv'.call = c => ~Announces(etEv)'
      BY DEF CallInv
    <2>1. c \in ended => e.call # c
      BY EventFields DEF TypeOK
    <2>2. c \in ended => \A i \in DOMAIN queue' : queue'[i].call # c
      BY <2>1, <1>1 DEF CallInv
    <2> QED BY <2>2, <1>3, EventFields DEF CallInv, Announces
  <1> QED BY <1>5, <1>7, <1>8, <1>9

\* Steps that leave the queue, the event in hand and the calls alone.
LEMMA OwnFrame ==
    ASSUME OwnInv, QuietInv',
           UNCHANGED <<queue, etEv, callState, refs, reHold, held, lost, leaked, ended>>,
           etPc' \in Active <=> etPc \in Active
    PROVE  OwnInv'
  <1>1. \A c \in Calls \cup {NoCall} :
            (Over(c)' <=> Over(c)) /\ (Backed(c)' <=> Backed(c)) /\ (Queued(c)' <=> Queued(c))
    BY DEF Over, Backed, Queued
  <1>2. QueueInv'
    <2>1. \A i : TerminalLast(i)' <=> TerminalLast(i)
      BY DEF TerminalLast, Over
    <2>2. \A i : Outlived(i)' <=> Outlived(i)
      BY DEF Outlived, Backed, Announces
    <2> QED BY <2>1, <2>2 DEF OwnInv, QueueInv
  <1>3. CurrentInv'
    BY DEF OwnInv, CurrentInv, Over, Backed, Queued, Announces
  <1>4. CallInv'
    BY DEF OwnInv, CallInv, Over, Announces
  <1>5. RefsInv'
    BY <1>1 DEF OwnInv, RefsInv, B
  <1> QED BY <1>2, <1>3, <1>4, <1>5 DEF OwnInv

\* Nothing on its way carries the reference of a call that is not over.
LEMMA NotOverFree ==
    ASSUME TypeOK, OwnInv, NEW c \in Calls, ~Over(c)
    PROVE  /\ ~Queued(c) /\ c \notin leaked /\ c \notin ended
           /\ ~(etPc \in Active /\ etEv.hold = c)
           /\ \A i \in DOMAIN queue : queue[i].kind = "closed" => queue[i].call # c
           /\ etPc \in Active /\ etEv.kind = "closed" => etEv.call # c
  <1>1. \A i \in DOMAIN queue : queue[i].kind = "closed" => queue[i].call # c
    BY DEF OwnInv, QueueInv, TerminalLast
  <1>2. ~Queued(c)
    BY <1>1 DEF OwnInv, QueueInv, TerminalLast, Queued
  <1>3. etPc \in Active /\ etEv.kind = "closed" => etEv.call # c
    BY DEF OwnInv, CurrentInv
  <1>4. ~(etPc \in Active /\ etEv.hold = c)
    BY <1>3 DEF OwnInv, CurrentInv
  <1> QED BY <1>1, <1>2, <1>3, <1>4 DEF OwnInv, CallInv

\* A plain event in the queue changes nothing for the calls.
LEMMA PlainOwn ==
    ASSUME TypeOK, OwnInv, queue' = Append(queue, Plain),
           UNCHANGED <<etPc, etEv, callState, refs, reHold, held, lost, leaked, ended,
                       appPc, evShutdown>>
    PROVE  OwnInv'
  <1>1. Plain \in Event /\ Plain.hold = NoCall /\ Plain.kind = "plain" /\ Plain.call = NoCall
    BY EventTypes DEF Plain
  <1>2. QueueInv' /\ CurrentInv' /\ CallInv' /\ \A c \in Calls : Queued(c)' <=> Queued(c)
    BY <1>1, AppendOwn DEF OwnInv
  <1>3. RefsInv'
    BY <1>2 DEF OwnInv, RefsInv, B
  <1>4. QuietInv'
    <2>1. queue \in Seq(Event) BY DEF TypeOK
    <2>2. \A i \in DOMAIN queue' :
             (i \in DOMAIN queue /\ queue'[i] = queue[i]) \/ queue'[i] = Plain
      BY <1>1, <2>1, AppendAt
    <2> QED BY <1>1, <2>2 DEF OwnInv, QuietInv, Announces
  <1> QED BY <1>2, <1>3, <1>4 DEF OwnInv

\* An event of a listed call, or the one that announces a new call.
LEMMA AnnounceOwn ==
    ASSUME TypeOK, OwnInv, NEW c \in Calls, NEW e \in {State(c), Sdp(c)},
           queue' = Append(queue, e), Hooked,
           callState[c] \in {"none", "live"}, reHold = NoCall,
           callState' = [callState EXCEPT ![c] = "live"],
           refs' = IF callState[c] = "none" THEN [refs EXCEPT ![c] = 1] ELSE refs,
           UNCHANGED <<etPc, etEv, reHold, held, lost, leaked, ended, appPc, evShutdown>>
    PROVE  OwnInv'
  <1>1. e \in Event /\ e.hold = NoCall /\ e.kind # "plain" /\ Announces(e) /\ e.call = c
    <2>1. CASE e = State(c) BY <2>1, EventTypes DEF State, Announces
    <2>2. CASE e = Sdp(c) BY <2>2, EventTypes DEF Sdp, Announces
    <2> QED BY <2>1, <2>2
  <1>2. ~Over(c)
    BY DEF Over
  <1>3. callState \in [Calls -> {"none", "live", "gone"}] /\ refs \in [Calls -> Int]
        /\ held \in [Calls -> Nat]
    BY DEF TypeOK
  <1>4. /\ ~Queued(c) /\ c \notin leaked /\ c \notin ended
        /\ ~(etPc \in Active /\ etEv.hold = c)
    BY <1>2, NotOverFree
  <1>5. QueueInv' /\ CurrentInv' /\ CallInv' /\ \A d \in Calls : Queued(d)' <=> Queued(d)
    BY <1>1, <1>3, <1>4, AppendOwn DEF OwnInv
  <1>6. RefsInv'
    <2> SUFFICES ASSUME NEW d \in Calls
                 PROVE  refs'[d] = held'[d] + B(callState'[d] = "live") + B(reHold' = d)
                           + B(d \in leaked') + B(Queued(d)') + B(etPc' \in Active /\ etEv'.hold = d)
      BY DEF RefsInv
    <2>1. refs[d] = held[d] + B(callState[d] = "live") + B(reHold = d)
                    + B(d \in leaked) + B(Queued(d)) + B(etPc \in Active /\ etEv.hold = d)
      BY DEF OwnInv, RefsInv
    <2>2. CASE d # c \/ callState[c] = "live"
      <3>1. refs'[d] = refs[d] /\ callState'[d] = callState[d]
        BY <2>2, <1>3
      <3> QED BY <2>1, <3>1, <1>5 DEF B
    <2>3. CASE d = c /\ callState[c] = "none"
      <3>1. refs'[d] = 1 /\ callState'[d] = "live"
        BY <2>3, <1>3
      <3>2. held'[d] = 0 /\ reHold' # d
        BY <2>3 DEF OwnInv, CallInv
      <3>3. ~Queued(d)' /\ ~(d \in leaked') /\ ~(etPc' \in Active /\ etEv'.hold = d)
        BY <2>3, <1>4, <1>5
      <3> QED BY <3>1, <3>2, <3>3 DEF B
    <2> QED BY <2>2, <2>3
  <1>7. QuietInv'
    BY DEF OwnInv, QuietInv, Hooked
  <1> QED BY <1>5, <1>6, <1>7 DEF OwnInv

\* BEVENT_CALL_CLOSED, first half: the re thread holds the reference.
LEMMA CallClosedOwn ==
    ASSUME TypeOK, OwnInv, NEW c \in Calls, CallClosed(c)
    PROVE  OwnInv'
  <1>1. /\ reHold = NoCall /\ reHold' = c /\ callState[c] = "live"
        /\ callState' = [callState EXCEPT ![c] = "gone"]
        /\ callState \in [Calls -> {"none", "live", "gone"}]
        /\ UNCHANGED <<queue, etPc, etEv, refs, held, lost, leaked, ended, appPc, evShutdown>>
    BY DEF CallClosed, TypeOK
  <1>2. ~Over(c)
    BY <1>1 DEF Over
  <1>3. /\ ~Queued(c) /\ c \notin leaked /\ c \notin ended
        /\ ~(etPc \in Active /\ etEv.hold = c)
        /\ \A i \in DOMAIN queue : queue[i].kind = "closed" => queue[i].call # c
        /\ etPc \in Active /\ etEv.kind = "closed" => etEv.call # c
    BY <1>2, NotOverFree
  <1>4. \A d \in Calls : /\ Over(d) => Over(d)'
                         /\ Backed(d) => Backed(d)'
                         /\ Queued(d)' <=> Queued(d)
                         /\ callState[d] # "none" <=> callState'[d] # "none"
    BY <1>1 DEF Over, Backed, Queued
  <1>5. QueueInv'
    <2> SUFFICES ASSUME NEW i \in DOMAIN queue PROVE TerminalLast(i)' /\ Outlived(i)'
      BY <1>1 DEF QueueInv
    <2>1. queue[i] \in Event /\ TerminalLast(i) /\ Outlived(i)
      BY DEF TypeOK, OwnInv, QueueInv
    <2>2. TerminalLast(i)'
      BY <1>1, <1>4, <2>1, EventFields DEF TerminalLast, Over
    <2>3. Outlived(i)'
      BY <1>1, <1>4, <2>1, EventFields DEF Outlived, Announces, Backed
    <2> QED BY <2>2, <2>3
  <1>6. CurrentInv'
    <2>1. etEv \in Event BY DEF TypeOK
    <2> QED BY <1>1, <1>4, <2>1, EventFields
            DEF OwnInv, CurrentInv, Announces, Over, Backed, Queued
  <1>7. CallInv'
    BY <1>1, <1>3, <1>4 DEF OwnInv, CallInv, Over, Announces
  <1>8. RefsInv'
    <2>1. \A d \in Calls : refs[d] \in Int /\ held[d] \in Nat BY DEF TypeOK
    <2>2. \A d \in Calls : B(callState'[d] = "live") + B(reHold' = d)
                            = B(callState[d] = "live") + B(reHold = d)
      BY <1>1 DEF B
    <2> QED BY <1>1, <1>4, <2>1, <2>2 DEF OwnInv, RefsInv, B
  <1>9. QuietInv'
    BY <1>1 DEF OwnInv, QuietInv, Announces
  <1> QED BY <1>5, <1>6, <1>7, <1>8, <1>9 DEF OwnInv

\* The terminal event is queued and takes the reference over.
LEMMA ClosedQueuedOwn ==
    ASSUME TypeOK, OwnInv, reHold # NoCall, reHold' = NoCall,
           queue' = Append(queue, Closed(reHold)),
           UNCHANGED <<etPc, etEv, callState, refs, held, lost, leaked, ended, appPc, evShutdown>>
    PROVE  OwnInv'
  <1>1. PICK c \in Calls : c = reHold
    BY DEF TypeOK
  <1>2. /\ Closed(c) \in Event /\ Closed(c).kind = "closed" /\ Closed(c).call = c
        /\ Closed(c).hold = c /\ c # NoCall
    BY EventTypes DEF Closed
  <1>3. callState[c] = "gone" /\ ~Over(c) /\ Over(c)'
    BY <1>1, <1>2 DEF OwnInv, CallInv, Over
  <1>4. /\ ~Queued(c) /\ c \notin leaked /\ c \notin ended
        /\ ~(etPc \in Active /\ etEv.hold = c)
        /\ \A i \in DOMAIN queue : queue[i].kind = "closed" => queue[i].call # c
        /\ etPc \in Active /\ etEv.kind = "closed" => etEv.call # c
    BY <1>3, NotOverFree
  <1>5. queue \in Seq(Event) /\ \A i \in DOMAIN queue : queue[i] \in Event
    BY DEF TypeOK
  <1>6. /\ DOMAIN queue' = 1 .. Len(queue) + 1 /\ Len(queue) \in Nat
        /\ DOMAIN queue = 1 .. Len(queue)
        /\ \A i \in DOMAIN queue : queue'[i] = queue[i]
        /\ queue'[Len(queue) + 1] = Closed(c)
    BY <1>1, <1>2, <1>5, AppendAt
  <1>7. \A d \in Calls : /\ Over(d) => Over(d)'
                         /\ d # c => (Backed(d) <=> Backed(d)')
                         /\ Queued(d)' <=> Queued(d) \/ d = c
    <2>1. \A d \in Calls : Queued(d)' <=> Queued(d) \/ d = c
      BY <1>2, <1>6 DEF Queued
    <2> QED BY <2>1, <1>1, <1>2 DEF Over, Backed
  <1>8. QueueInv'
    <2> SUFFICES ASSUME NEW i \in DOMAIN queue' PROVE TerminalLast(i)' /\ Outlived(i)'
      BY DEF QueueInv
    <2>1. CASE i \in DOMAIN queue
      <3>1. /\ queue'[i] = queue[i] /\ queue[i] \in Event
            /\ TerminalLast(i) /\ Outlived(i)
        BY <2>1, <1>5, <1>6 DEF OwnInv, QueueInv
      <3>2. TerminalLast(i)'
        <4>1. CASE queue[i].kind = "closed"
          <5>1. PICK d \in Calls : d = queue[i].call
            BY <3>1, <4>1, EventFields
          <5>2. Over(d)' /\ d # c
            BY <2>1, <3>1, <4>1, <5>1, <1>4, <1>7 DEF TerminalLast
          <5>3. \A k \in DOMAIN queue' : k > i => queue'[k].call # d
            BY <3>1, <4>1, <5>1, <5>2, <1>2, <1>6 DEF TerminalLast
          <5> QED BY <3>1, <4>1, <5>1, <5>2, <5>3 DEF TerminalLast, Over
        <4>2. CASE queue[i].kind # "closed"
          BY <3>1, <4>2 DEF TerminalLast
        <4> QED BY <4>1, <4>2
      <3>3. Outlived(i)'
        <4>1. CASE queue[i].kind = "plain"
          BY <3>1, <4>1 DEF Outlived, Announces
        <4>2. CASE queue[i].kind # "plain"
          <5>1. PICK d \in Calls : d = queue[i].call
            BY <3>1, <4>2, EventFields
          <5>2. (\E k \in DOMAIN queue : k > i /\ queue[k].hold = d)
                   => \E k \in DOMAIN queue' : k > i /\ queue'[k].hold = d
            BY <1>6
          <5>3. d = c => \E k \in DOMAIN queue' : k > i /\ queue'[k].hold = d
            BY <2>1, <1>2, <1>6
          <5> QED BY <3>1, <4>2, <5>1, <5>2, <5>3, <1>7 DEF Outlived, Backed, Announces
        <4> QED BY <4>1, <4>2
      <3> QED BY <3>2, <3>3
    <2>2. CASE i = Len(queue) + 1
      <3>1. queue'[i] = Closed(c) BY <2>2, <1>6
      <3>2. TerminalLast(i)'
        BY <2>2, <3>1, <1>2, <1>3, <1>4, <1>6 DEF TerminalLast, Over
      <3>3. Outlived(i)'
        BY <3>1, <1>2, <1>3 DEF Outlived, Announces
      <3> QED BY <3>2, <3>3
    <2> QED BY <2>1, <2>2, <1>6
  <1>9. CurrentInv'
    <2>1. etEv \in Event BY DEF TypeOK
    <2>2. etPc \in Active /\ etEv.kind = "closed" =>
              Over(etEv.call)' /\ \A k \in DOMAIN queue' : queue'[k].call # etEv.call
      BY <2>1, <1>2, <1>4, <1>6, <1>7, EventFields DEF OwnInv, CurrentInv
    <2>3. etPc \in Active /\ Announces(etEv) => Backed(etEv.call)' \/ Queued(etEv.call)'
      BY <2>1, <1>7, EventFields DEF OwnInv, CurrentInv, Announces
    <2> QED BY <2>1, <2>2, <2>3 DEF OwnInv, CurrentInv, Over, Backed, Queued, Announces
  <1>10. CallInv'
    <2>1. \A d \in Calls : d \in ended => \A i \in DOMAIN queue' : queue'[i].call # d
      BY <1>2, <1>4, <1>6 DEF OwnInv, CallInv
    <2> QED BY <1>1, <1>2, <1>7, <2>1 DEF OwnInv, CallInv, Announces, Over
  <1>11. RefsInv'
    <2>1. \A d \in Calls : refs[d] \in Int /\ held[d] \in Nat BY DEF TypeOK
    <2>2. \A d \in Calls : B(reHold' = d) + B(Queued(d)') = B(reHold = d) + B(Queued(d))
      BY <1>1, <1>2, <1>4, <1>7 DEF B
    <2> QED BY <2>1, <2>2 DEF OwnInv, RefsInv, B
  <1>12. QuietInv'
    <2>1. \A i \in DOMAIN queue' :
             (i \in DOMAIN queue /\ queue'[i] = queue[i]) \/ queue'[i] = Closed(c)
      BY <1>6
    <2> QED BY <1>2, <2>1 DEF OwnInv, QuietInv, Announces
  <1> QED BY <1>8, <1>9, <1>10, <1>11, <1>12 DEF OwnInv

\* A terminal event that is not queued: the reference is dropped with it by a
\* full queue, or forgotten when there is no memory for it.
LEMMA ClosedLostOwn ==
    ASSUME TypeOK, OwnInv, reHold # NoCall, reHold' = NoCall,
           \/ refs' = Deref(refs, reHold) /\ lost' = lost \cup {reHold} /\ leaked' = leaked
           \/ refs' = refs /\ lost' = lost /\ leaked' = leaked \cup {reHold},
           UNCHANGED <<queue, etPc, etEv, callState, held, ended, appPc, evShutdown>>
    PROVE  OwnInv'
  <1>1. PICK c \in Calls : c = reHold
    BY DEF TypeOK
  <1>2. callState[c] = "gone" /\ ~Over(c) /\ Over(c)' /\ c # NoCall
    BY <1>1 DEF OwnInv, CallInv, Over
  <1>3. /\ ~Queued(c) /\ c \notin leaked /\ c \notin ended
        /\ \A i \in DOMAIN queue : queue[i].kind = "closed" => queue[i].call # c
        /\ etPc \in Active /\ etEv.kind = "closed" => etEv.call # c
    BY <1>2, NotOverFree
  <1>4. \A d \in Calls : /\ Over(d) => Over(d)'
                         /\ Backed(d) => Backed(d)'
                         /\ Queued(d)' <=> Queued(d)
    <2>1. lost \subseteq lost' /\ leaked \subseteq leaked' /\ c \in lost' \cup leaked'
      BY <1>1
    <2> QED BY <2>1, <1>1, <1>2 DEF Over, Backed, Queued
  <1>5. QueueInv'
    <2> SUFFICES ASSUME NEW i \in DOMAIN queue PROVE TerminalLast(i)' /\ Outlived(i)'
      BY DEF QueueInv
    <2>1. queue[i] \in Event /\ TerminalLast(i) /\ Outlived(i)
      BY DEF TypeOK, OwnInv, QueueInv
    <2>2. TerminalLast(i)'
      <3>1. queue[i].kind = "closed" => queue[i].call \notin leaked'
        BY <2>1, <1>1, <1>3 DEF TerminalLast
      <3> QED BY <3>1, <1>4, <2>1, EventFields DEF TerminalLast, Over
    <2>3. Outlived(i)'
      BY <1>4, <2>1, EventFields DEF Outlived, Announces, Backed
    <2> QED BY <2>2, <2>3
  <1>6. CurrentInv'
    <2>1. etEv \in Event BY DEF TypeOK
    <2> QED BY <1>4, <2>1, EventFields
            DEF OwnInv, CurrentInv, Announces, Over, Backed, Queued
  <1>7. CallInv'
    BY <1>1, <1>2, <1>4 DEF OwnInv, CallInv, Announces, Over
  <1>8. RefsInv'
    <2>1. refs \in [Calls -> Int] /\ \A d \in Calls : refs[d] \in Int /\ held[d] \in Nat
      BY DEF TypeOK
    <2>2. CASE refs' = Deref(refs, reHold) /\ leaked' = leaked
      <3>1. \A d \in Calls : refs'[d] = refs[d] - B(d = c)
        BY <2>1, <2>2, <1>1, <1>2 DEF Deref, B
      <3>2. \A d \in Calls : B(reHold' = d) = B(reHold = d) - B(d = c)
        BY <1>1, <1>2 DEF B
      <3> QED BY <2>1, <3>1, <3>2, <2>2, <1>4 DEF OwnInv, RefsInv, B
    <2>3. CASE refs' = refs /\ leaked' = leaked \cup {reHold}
      <3>1. \A d \in Calls : B(reHold' = d) + B(d \in leaked') = B(reHold = d) + B(d \in leaked)
        BY <2>3, <1>1, <1>2, <1>3 DEF B
      <3> QED BY <2>1, <2>3, <3>1, <1>4 DEF OwnInv, RefsInv, B
    <2> QED BY <2>2, <2>3
  <1>9. QuietInv'
    BY DEF OwnInv, QuietInv, Announces
  <1> QED BY <1>5, <1>6, <1>7, <1>8, <1>9 DEF OwnInv

\* The head of the queue is taken out.  If it is a terminal event, nothing of its
\* call is behind it.
LEMMA DropHeadOwn ==
    ASSUME TypeOK, OwnInv, queue # <<>>, queue' = Tail(queue),
           UNCHANGED <<callState, reHold, lost, leaked>>
    PROVE  /\ QueueInv'
           /\ Head(queue) \in Event /\ TerminalLast(1) /\ Outlived(1) /\ Head(queue) = queue[1]
           /\ \A d \in Calls : B(Queued(d)') = B(Queued(d)) - B(Head(queue).hold = d)
           /\ \A i \in DOMAIN queue' : i + 1 \in DOMAIN queue /\ queue'[i] = queue[i + 1]
           /\ Head(queue).kind = "closed" =>
                \A i \in DOMAIN queue' : queue'[i].call # Head(queue).call
           /\ Announces(Head(queue)) =>
                \/ Backed(Head(queue).call)
                \/ \E k \in DOMAIN queue' : queue'[k].hold = Head(queue).call
  <1>1. queue \in Seq(Event) /\ \A i \in DOMAIN queue : queue[i] \in Event
    BY DEF TypeOK
  <1>2. /\ Len(queue) \in Nat /\ DOMAIN queue = 1 .. Len(queue)
        /\ DOMAIN queue' = 1 .. Len(queue) - 1
        /\ \A i \in DOMAIN queue' : i + 1 \in DOMAIN queue /\ queue'[i] = queue[i + 1]
        /\ Head(queue) = queue[1] /\ 1 \in DOMAIN queue
        /\ \A i \in DOMAIN queue : i # 1 => i - 1 \in DOMAIN queue' /\ queue'[i - 1] = queue[i]
    BY <1>1, TailAt
  <1>3. \A i \in DOMAIN queue : TerminalLast(i) /\ Outlived(i)
    BY DEF OwnInv, QueueInv
  <1>4. QueueInv'
    <2> SUFFICES ASSUME NEW i \in DOMAIN queue' PROVE TerminalLast(i)' /\ Outlived(i)'
      BY DEF QueueInv
    <2>1. /\ i + 1 \in DOMAIN queue /\ queue'[i] = queue[i + 1]
          /\ TerminalLast(i + 1) /\ Outlived(i + 1) /\ i \in Nat
      BY <1>2, <1>3
    <2>2. \A k \in DOMAIN queue' : k > i =>
              k + 1 \in DOMAIN queue /\ k + 1 > i + 1 /\ queue'[k] = queue[k + 1]
      BY <1>2, <2>1
    <2>3. \A k \in DOMAIN queue : k > i + 1 =>
              k - 1 \in DOMAIN queue' /\ k - 1 > i /\ queue'[k - 1] = queue[k]
      BY <1>2, <2>1
    <2>4. TerminalLast(i)'
      BY <2>1, <2>2 DEF TerminalLast, Over
    <2>5. Outlived(i)'
      BY <2>1, <2>3 DEF Outlived, Announces, Backed
    <2> QED BY <2>4, <2>5
  <1>5. \A k \in DOMAIN queue : k # 1 => k > 1
    BY <1>2
  <1>6. Head(queue).kind = "closed" => \A i \in DOMAIN queue' : queue'[i].call # Head(queue).call
    <2>1. \A i \in DOMAIN queue' : i + 1 > 1 BY <1>2
    <2> QED BY <2>1, <1>2, <1>3 DEF TerminalLast
  <1>7. \A d \in Calls : B(Queued(d)') = B(Queued(d)) - B(Head(queue).hold = d)
    <2> SUFFICES ASSUME NEW d \in Calls
                 PROVE  B(Queued(d)') = B(Queued(d)) - B(Head(queue).hold = d)
      OBVIOUS
    <2>1. CASE Head(queue).hold = d
      <3>1. Queued(d) BY <2>1, <1>2 DEF Queued
      <3>2. Head(queue).kind = "closed" /\ Head(queue).call = d
        BY <2>1, <1>2, <1>3 DEF TerminalLast
      <3>3. ~Queued(d)'
        <4> SUFFICES ASSUME NEW i \in DOMAIN queue', queue'[i].hold = d PROVE FALSE
          BY DEF Queued
        <4>1. TerminalLast(i + 1) /\ queue[i + 1].hold = d BY <1>2, <1>3
        <4>2. queue[i + 1].call = d BY <4>1 DEF TerminalLast
        <4> QED BY <4>2, <3>2, <1>2, <1>6
      <3> QED BY <3>1, <3>3, <2>1 DEF B
    <2>2. CASE Head(queue).hold # d
      <3>1. Queued(d)' <=> Queued(d) BY <2>2, <1>2 DEF Queued
      <3> QED BY <3>1, <2>2 DEF B
    <2> QED BY <2>1, <2>2
  <1>8. Announces(Head(queue)) =>
                \/ Backed(Head(queue).call)
                \/ \E k \in DOMAIN queue' : queue'[k].hold = Head(queue).call
    <2> HAVE Announces(Head(queue))
    <2>1. CASE Backed(queue[1].call) BY <2>1, <1>2
    <2>2. CASE \E k \in DOMAIN queue : k > 1 /\ queue[k].hold = queue[1].call
      <3>1. PICK k \in DOMAIN queue : k > 1 /\ queue[k].hold = queue[1].call
        BY <2>2
      <3>2. k - 1 \in DOMAIN queue' /\ queue'[k - 1] = queue[k]
        BY <3>1, <1>2
      <3> QED BY <3>1, <3>2, <1>2
    <2> QED BY <2>1, <2>2, <1>2, <1>3 DEF Outlived
  <1> QED BY <1>1, <1>2, <1>3, <1>4, <1>6, <1>7, <1>8

\* The event thread lets the event in hand go, if it has one, and takes the next.
LEMMA TakeOwn ==
    ASSUME TypeOK, OwnInv, Take,
           refs' = IF etPc \in Active THEN Deref(refs, etEv.hold) ELSE refs,
           UNCHANGED <<callState, reHold, held, lost, leaked, ended, appPc, evShutdown>>
    PROVE  OwnInv'
  <1>1. queue # <<>> /\ queue' = Tail(queue) /\ etEv' = Head(queue) /\ etPc' = "snap"
    BY DEF Take
  <1>2. /\ QueueInv'
        /\ Head(queue) \in Event /\ TerminalLast(1) /\ Outlived(1) /\ Head(queue) = queue[1]
        /\ \A d \in Calls : B(Queued(d)') = B(Queued(d)) - B(Head(queue).hold = d)
        /\ \A i \in DOMAIN queue' : i + 1 \in DOMAIN queue /\ queue'[i] = queue[i + 1]
        /\ Head(queue).kind = "closed" =>
              \A i \in DOMAIN queue' : queue'[i].call # Head(queue).call
        /\ Announces(Head(queue)) =>
              \/ Backed(Head(queue).call)
              \/ \E k \in DOMAIN queue' : queue'[k].hold = Head(queue).call
    BY <1>1, DropHeadOwn
  <1>3. CurrentInv'
    BY <1>1, <1>2 DEF CurrentInv, TerminalLast, Outlived, Over, Backed, Queued, Announces
  <1>4. CallInv'
    <2>1. \A d \in Calls : d \in ended => queue[1].call # d
      BY <1>1, <1>2, TailAt DEF OwnInv, CallInv, TypeOK
    <2> QED BY <1>1, <1>2, <2>1 DEF OwnInv, CallInv, Over, Announces
  <1>5. RefsInv'
    <2>1. /\ refs \in [Calls -> Int] /\ etEv.hold \in Calls \cup {NoCall}
          /\ \A d \in Calls : refs[d] \in Int /\ held[d] \in Nat
      BY EventFields DEF TypeOK
    <2>2. \A d \in Calls : refs'[d] = refs[d] - B(etPc \in Active /\ etEv.hold = d)
      BY <2>1 DEF Deref, B
    <2>3. \A d \in Calls : B(etPc' \in Active /\ etEv'.hold = d) = B(Head(queue).hold = d)
      BY <1>1 DEF B, Active
    <2> QED BY <2>1, <2>2, <2>3, <1>2 DEF OwnInv, RefsInv, B
  <1>6. QuietInv'
    BY <1>2 DEF OwnInv, QuietInv, Announces
  <1> QED BY <1>2, <1>3, <1>4, <1>5, <1>6 DEF OwnInv

\* The event thread lets the event in hand go and waits.
LEMMA IdleOwn ==
    ASSUME TypeOK, OwnInv, etPc \in Active, etPc' \notin Active, refs' = Deref(refs, etEv.hold),
           UNCHANGED <<queue, callState, reHold, held, lost, leaked, ended, appPc, evShutdown>>
    PROVE  OwnInv'
  <1>1. QueueInv'
    <2>1. \A i : TerminalLast(i)' <=> TerminalLast(i)
      BY DEF TerminalLast, Over
    <2>2. \A i : Outlived(i)' <=> Outlived(i)
      BY DEF Outlived, Backed, Announces
    <2> QED BY <2>1, <2>2 DEF OwnInv, QueueInv
  <1>2. CurrentInv' BY DEF CurrentInv
  <1>3. CallInv' BY DEF OwnInv, CallInv, Over
  <1>4. RefsInv'
    <2>1. /\ refs \in [Calls -> Int] /\ etEv.hold \in Calls \cup {NoCall}
          /\ \A d \in Calls : refs[d] \in Int /\ held[d] \in Nat
      BY EventFields DEF TypeOK
    <2>2. \A d \in Calls : refs'[d] = refs[d] - B(etPc \in Active /\ etEv.hold = d)
      BY <2>1 DEF Deref, B
    <2>3. \A d \in Calls : Queued(d)' <=> Queued(d)
      BY DEF Queued
    <2> QED BY <2>1, <2>2, <2>3 DEF OwnInv, RefsInv, B
  <1>5. QuietInv' BY DEF OwnInv, QuietInv, Announces
  <1> QED BY <1>1, <1>2, <1>3, <1>4, <1>5 DEF OwnInv

\* qev_clone() moves the reference, or takes another, and the callback may be
\* given the terminal event.
LEMMA CallbackOwn ==
    ASSUME TypeOK, OwnInv, EtCallOwned \/ EtCallBorrowed
    PROVE  OwnInv'
  <1>1. /\ etPc \in Active /\ etPc' \in Active
        /\ etEv'.kind = etEv.kind /\ etEv'.call = etEv.call /\ etEv'.hold \in {etEv.hold, NoCall}
        /\ ended' = IF etEv.kind = "closed" THEN ended \cup {etEv.call} ELSE ended
        /\ UNCHANGED <<queue, callState, reHold, lost, leaked, appPc, evShutdown>>
        /\ etEv \in Event
    BY DEF EtCallOwned, EtCallBorrowed, TypeOK, Event, Active
  <1>2. QueueInv'
    <2>1. \A i : TerminalLast(i)' <=> TerminalLast(i)
      BY <1>1 DEF TerminalLast, Over
    <2>2. \A i : Outlived(i)' <=> Outlived(i)
      BY <1>1 DEF Outlived, Backed, Announces
    <2> QED BY <1>1, <2>1, <2>2 DEF OwnInv, QueueInv
  <1>3. CurrentInv'
    BY <1>1 DEF OwnInv, CurrentInv, Over, Backed, Queued, Announces
  <1>4. refs \in [Calls -> Int] /\ held \in [Calls -> Nat]
    BY DEF TypeOK
  <1>5. \A d \in Calls : Queued(d)' <=> Queued(d)
    BY <1>1 DEF Queued
  <1>6. /\ \A d \in Calls : held[d] # held'[d] => etEv.kind # "plain" /\ d = etEv.call
        /\ \A d \in Calls : refs'[d] - held'[d] = refs[d] - held[d]
                    - B(etEv.hold = d) + B(etEv'.hold = d)
    <2>1. etEv.hold # NoCall => etEv.kind = "closed" /\ etEv.hold = etEv.call /\ etEv.hold \in Calls
      BY <1>1, EventFields DEF OwnInv, CurrentInv
    <2>2. CASE EtCallBorrowed
      <3>1. UNCHANGED <<etEv, refs, held>> BY <2>2 DEF EtCallBorrowed
      <3> QED BY <3>1, <1>4 DEF B
    <2>3. CASE EtCallOwned /\ etEv.hold # NoCall
      <3>1. held' = [held EXCEPT ![etEv.hold] = @ + 1] /\ refs' = refs /\ etEv'.hold = NoCall
        BY <2>3, <1>1 DEF EtCallOwned, Event
      <3> QED BY <2>1, <2>3, <3>1, <1>4 DEF B
    <2>4. CASE EtCallOwned /\ etEv.hold = NoCall /\ etEv.kind = "sdp" /\ refs[etEv.call] > 0
      <3>1. /\ held' = [held EXCEPT ![etEv.call] = @ + 1]
            /\ refs' = [refs EXCEPT ![etEv.call] = @ + 1] /\ etEv'.hold = NoCall
        BY <2>4, <1>1 DEF EtCallOwned, Event
      <3>2. etEv.call \in Calls BY <2>4, <1>1, EventFields
      <3> QED BY <2>4, <3>1, <3>2, <1>4 DEF B
    <2>5. CASE EtCallOwned /\ etEv.hold = NoCall /\ ~(etEv.kind = "sdp" /\ refs[etEv.call] > 0)
      <3>1. held' = held /\ refs' = refs /\ etEv'.hold = NoCall
        BY <2>5, <1>1 DEF EtCallOwned, Event
      <3> QED BY <2>5, <3>1, <1>4 DEF B
    <2> QED BY <2>2, <2>3, <2>4, <2>5
  <1>7. CallInv'
    <2> SUFFICES ASSUME NEW c \in Calls
                 PROVE  /\ callState'[c] = "none" => reHold' # c /\ held'[c] = 0
                        /\ reHold' = c => callState'[c] = "gone"
                        /\ c \in leaked' => Over(c)'
                        /\ c \in ended' =>
                              /\ Over(c)'
                              /\ \A i \in DOMAIN queue' : queue'[i].call # c
                              /\ etPc' \in Active /\ etEv'.call = c => ~Announces(etEv)'
      BY DEF CallInv
    <2>1. callState'[c] = "none" => held'[c] = 0
      BY <1>1, <1>6 DEF OwnInv, CallInv, CurrentInv
    <2>2. CASE c \in ended
      BY <1>1, <2>1, <2>2 DEF OwnInv, CallInv, Over, Announces
    <2>3. CASE c \notin ended
      BY <1>1, <2>1, <2>3 DEF OwnInv, CallInv, CurrentInv, Over, Announces
    <2> QED BY <2>2, <2>3
  <1>8. RefsInv'
    <2>1. \A d \in Calls : refs[d] \in Int /\ held[d] \in Nat /\ refs'[d] \in Int /\ held'[d] \in Nat
      <3>1. refs' \in [Calls -> Int] /\ held' \in [Calls -> Nat]
        BY <1>4, <1>1, EventFields DEF EtCallOwned, EtCallBorrowed
      <3> QED BY <3>1, <1>4
    <2> QED BY <1>1, <1>5, <1>6, <2>1 DEF OwnInv, RefsInv, B
  <1>9. QuietInv' BY <1>1 DEF OwnInv, QuietInv, Announces
  <1> QED BY <1>2, <1>3, <1>7, <1>8, <1>9 DEF OwnInv

\* voxsdk_init() forgets what the queue still holds.
LEMMA ReinitOwn ==
    ASSUME IInv, OwnInv, NEW a \in AppThreads, NEW h \in Handlers, NEW owned \in BOOLEAN,
           SdkInit(a, h, owned)
    PROVE  OwnInv'
  <1>1. /\ queue' = <<>> /\ etPc' = "wait" /\ etPc \notin Active
        /\ leaked' = leaked \cup {c \in Calls : \E i \in DOMAIN queue : queue[i].hold = c}
        /\ UNCHANGED <<etEv, callState, refs, reHold, held, lost, ended, appPc>>
    BY DEF SdkInit, IInv, ThreadInv, Active
  <1>2. \A b \in AppThreads : appPc[b] = "idle"
    BY DEF SdkInit, IInv, LockInv, TypeOK
  <1>3. DOMAIN queue' = {} BY <1>1
  <1>4. \A c \in Calls : /\ c \in leaked' <=> c \in leaked \/ Queued(c)
                         /\ ~Queued(c)' /\ (Over(c)' <=> Over(c))
                         /\ Queued(c) => Over(c) /\ c \notin leaked
    <2>1. \A c \in Calls : c \in leaked' <=> c \in leaked \/ Queued(c)
      BY <1>1 DEF Queued
    <2>2. \A c \in Calls : Queued(c) => Over(c) /\ c \notin leaked
      BY DEF Queued, OwnInv, QueueInv, TerminalLast
    <2> QED BY <2>1, <2>2, <1>1, <1>3 DEF Over, Queued
  <1>5. QueueInv' BY <1>3 DEF QueueInv
  <1>6. CurrentInv' BY <1>1 DEF CurrentInv, Active
  <1>7. CallInv'
    BY <1>1, <1>3, <1>4 DEF OwnInv, CallInv, Active
  <1>8. RefsInv'
    <2>1. \A d \in Calls : refs[d] \in Int /\ held[d] \in Nat BY DEF IInv, TypeOK
    <2>2. \A d \in Calls : B(d \in leaked') + B(Queued(d)') = B(d \in leaked) + B(Queued(d))
      BY <1>4 DEF B
    <2> QED BY <1>1, <2>1, <2>2 DEF OwnInv, RefsInv, B, Active
  <1>9. QuietInv' BY <1>1, <1>2 DEF QuietInv
  <1> QED BY <1>5, <1>6, <1>7, <1>8, <1>9 DEF OwnInv

\* vox_event_close() frees the oldest event with the reference it carries.
LEMMA FreeOneOwn ==
    ASSUME IInv, OwnInv, NEW a \in AppThreads, ShutdownFreeOne(a)
    PROVE  OwnInv'
  <1>1. /\ queue # <<>> /\ queue' = Tail(queue) /\ refs' = Deref(refs, Head(queue).hold)
        /\ etPc \notin Active
        /\ UNCHANGED <<etPc, etEv, callState, reHold, held, lost, leaked, ended, appPc, evShutdown>>
    BY DEF ShutdownFreeOne, IInv, ThreadInv, Active
  <1>2. /\ QueueInv' /\ Head(queue) \in Event
        /\ \A d \in Calls : B(Queued(d)') = B(Queued(d)) - B(Head(queue).hold = d)
        /\ \A i \in DOMAIN queue' : i + 1 \in DOMAIN queue /\ queue'[i] = queue[i + 1]
    BY <1>1, DropHeadOwn DEF IInv
  <1>3. CurrentInv' BY <1>1 DEF CurrentInv
  <1>4. CallInv' BY <1>1, <1>2 DEF OwnInv, CallInv, Over
  <1>5. RefsInv'
    <2>1. /\ refs \in [Calls -> Int] /\ Head(queue).hold \in Calls \cup {NoCall}
          /\ \A d \in Calls : refs[d] \in Int /\ held[d] \in Nat
      BY <1>2, EventFields DEF IInv, TypeOK
    <2>2. \A d \in Calls : refs'[d] = refs[d] - B(Head(queue).hold = d)
      BY <1>1, <2>1 DEF Deref, B
    <2> SUFFICES ASSUME NEW d \in Calls
                 PROVE  refs'[d] = held[d] + B(callState[d] = "live") + B(reHold = d)
                            + B(d \in leaked) + B(Queued(d)') + B(etPc \in Active /\ etEv.hold = d)
      BY <1>1 DEF RefsInv
    <2>4. refs[d] = held[d] + B(callState[d] = "live") + B(reHold = d)
                    + B(d \in leaked) + B(Queued(d)) + B(etPc \in Active /\ etEv.hold = d)
      BY DEF OwnInv, RefsInv
    <2>5. refs'[d] = refs[d] - B(Head(queue).hold = d)
          /\ B(Queued(d)') = B(Queued(d)) - B(Head(queue).hold = d)
      BY <1>2, <2>2
    <2> QED BY <2>1, <2>4, <2>5 DEF B
  <1>6. QuietInv' BY <1>1, <1>2 DEF OwnInv, QuietInv, Announces
  <1> QED BY <1>2, <1>3, <1>4, <1>5, <1>6 DEF OwnInv

\* The end of voxsdk_shutdown() drops every listed wrapper: no event of a listed
\* call is queued any more.
LEMMA ShutdownEndOwn ==
    ASSUME IInv, OwnInv, NEW a \in AppThreads, ShutdownEnd(a)
    PROVE  OwnInv'
  <1>1. /\ refs' = [c \in Calls |-> IF callState[c] = "live" THEN refs[c] - 1 ELSE refs[c]]
        /\ callState' = [c \in Calls |-> IF callState[c] = "live" THEN "gone" ELSE callState[c]]
        /\ etPc \notin Active /\ reHold = NoCall /\ appPc[a] = "teardown"
        /\ appPc' = [appPc EXCEPT ![a] = "idle"]
        /\ UNCHANGED <<queue, etPc, etEv, reHold, held, lost, leaked, ended, evShutdown>>
    BY DEF ShutdownEnd, IInv, ThreadInv, Active
  <1>2. \A i \in DOMAIN queue : ~Announces(queue[i])
    BY <1>1 DEF OwnInv, QuietInv
  <1>3. \A c \in Calls : /\ Over(c) => Over(c)'
                         /\ Queued(c)' <=> Queued(c)
                         /\ callState[c] # "none" <=> callState'[c] # "none"
    BY <1>1 DEF Over, Queued
  <1>4. QueueInv'
    <2> SUFFICES ASSUME NEW i \in DOMAIN queue PROVE TerminalLast(i)' /\ Outlived(i)'
      BY <1>1 DEF QueueInv
    <2>1. queue[i] \in Event /\ TerminalLast(i) /\ Outlived(i)
      BY DEF IInv, TypeOK, OwnInv, QueueInv
    <2>2. TerminalLast(i)'
      BY <1>1, <1>3, <2>1, EventFields DEF TerminalLast, Over
    <2>3. Outlived(i)'
      BY <1>1, <1>2, <1>3, <2>1, EventFields DEF Outlived, Announces
    <2> QED BY <2>2, <2>3
  <1>5. CurrentInv' BY <1>1 DEF CurrentInv
  <1>6. CallInv' BY <1>1, <1>3 DEF OwnInv, CallInv, IInv, TypeOK
  <1>7. RefsInv'
    <2>1. \A d \in Calls : refs[d] \in Int /\ held[d] \in Nat BY DEF IInv, TypeOK
    <2>2. \A d \in Calls : refs'[d] - B(callState'[d] = "live") = refs[d] - B(callState[d] = "live")
      BY <1>1, <2>1 DEF B
    <2> QED BY <1>1, <1>3, <2>1, <2>2 DEF OwnInv, RefsInv, B
  <1>8. QuietInv'
    <2>1. \A b \in AppThreads : b # a => appPc[b] = "idle"
      BY <1>1 DEF IInv, LockInv
    <2> QED BY <1>1, <2>1 DEF IInv, TypeOK, QuietInv
  <1> QED BY <1>4, <1>5, <1>6, <1>7, <1>8 DEF OwnInv

\* voxsdk_event_release() gives one reference back.
LEMMA ReleaseOwn ==
    ASSUME IInv, OwnInv, NEW c \in Calls, Release(c)
    PROVE  OwnInv'
  <1>1. /\ held[c] > 0 /\ held' = [held EXCEPT ![c] = @ - 1] /\ refs' = [refs EXCEPT ![c] = @ - 1]
        /\ UNCHANGED <<queue, etPc, etEv, callState, reHold, lost, leaked, ended, appPc, evShutdown>>
        /\ held \in [Calls -> Nat] /\ refs \in [Calls -> Int]
    BY DEF Release, IInv, TypeOK
  <1>2. QueueInv'
    <2>1. \A i : TerminalLast(i)' <=> TerminalLast(i)
      BY <1>1 DEF TerminalLast, Over
    <2>2. \A i : Outlived(i)' <=> Outlived(i)
      BY <1>1 DEF Outlived, Backed, Announces
    <2> QED BY <1>1, <2>1, <2>2 DEF OwnInv, QueueInv
  <1>3. CurrentInv' BY <1>1 DEF OwnInv, CurrentInv, Over, Backed, Queued, Announces
  <1>4. CallInv' BY <1>1 DEF OwnInv, CallInv, Over, Announces
  <1>5. RefsInv'
    <2>1. \A d \in Calls : refs'[d] - held'[d] = refs[d] - held[d] /\ refs'[d] \in Int
                           /\ held'[d] \in Int /\ refs[d] \in Int /\ held[d] \in Nat
      BY <1>1
    <2>2. \A d \in Calls : Queued(d)' <=> Queued(d) BY <1>1 DEF Queued
    <2> QED BY <1>1, <2>1, <2>2 DEF OwnInv, RefsInv, B
  <1>6. QuietInv' BY <1>1 DEF OwnInv, QuietInv, Announces
  <1> QED BY <1>2, <1>3, <1>4, <1>5, <1>6 DEF OwnInv

\* Initially no call has a wrapper.
LEMMA InitOwn == Init => OwnInv
  <1> SUFFICES ASSUME Init PROVE OwnInv
    OBVIOUS
  <1>1. DOMAIN queue = {} BY DEF Init
  <1>2. \A c \in Calls : ~Queued(c) /\ reHold # c BY <1>1 DEF Queued, Init
  <1> QED BY <1>1, <1>2 DEF Init, OwnInv, QuietInv, QueueInv, CurrentInv, CallInv, RefsInv,
             Active, B

\* Every step of a producer keeps the accounts.
LEMMA ProducerOwn == IInv /\ OwnInv /\ Producer => OwnInv'
  <1> SUFFICES ASSUME IInv, OwnInv, Producer PROVE OwnInv'
    OBVIOUS
  <1>0. TypeOK BY DEF IInv
  <1>1. CASE PostPlain
    <2>1. CASE qlen >= QueueMax
      <3>1. UNCHANGED <<queue, etPc, etEv, callState, refs, reHold, held, lost, leaked, ended,
                        appPc, evShutdown>>
        BY <1>1, <2>1 DEF PostPlain, Post, Plain, Deref
      <3>2. QuietInv' BY <3>1 DEF OwnInv, QuietInv, Announces
      <3> QED BY <3>1, <3>2, OwnFrame
    <2>2. CASE ~(qlen >= QueueMax)
      BY <1>0, <1>1, <2>2, PlainOwn DEF PostPlain, Post
    <2> QED BY <2>1, <2>2
  <1>2. CASE PostLog \/ PostRaced
    <2>1. CASE UNCHANGED queue
      <3>1. UNCHANGED <<queue, etPc, etEv, callState, refs, reHold, held, lost, leaked, ended,
                        appPc, evShutdown>>
        BY <1>2, <2>1 DEF PostLog, PostRaced
      <3>2. QuietInv' BY <3>1 DEF OwnInv, QuietInv, Announces
      <3> QED BY <3>1, <3>2, OwnFrame
    <2>2. CASE queue' = Append(queue, Plain)
      BY <1>0, <1>2, <2>2, PlainOwn DEF PostLog, PostRaced
    <2> QED BY <1>2, <2>1, <2>2 DEF PostLog, PostRaced
  <1>3. ASSUME NEW c \in Calls, CallNew(c) PROVE OwnInv'
    <2>1. CASE qlen >= QueueMax
      <3>1. /\ callState' = [callState EXCEPT ![c] = "gone"] /\ callState[c] = "none"
            /\ callState \in [Calls -> {"none", "live", "gone"}] /\ reHold = NoCall
            /\ UNCHANGED <<queue, etPc, etEv, refs, reHold, held, lost, leaked, ended,
                           appPc, evShutdown>>
        BY <1>0, <1>3, <2>1 DEF CallNew, TypeOK
      <3>2. \A d \in Calls : /\ Over(d) => Over(d)' /\ (Backed(d) <=> Backed(d)')
                             /\ Queued(d)' <=> Queued(d)
                             /\ callState[d] # "none" => callState'[d] # "none"
                             /\ callState'[d] = "live" <=> callState[d] = "live"
        BY <3>1 DEF Over, Backed, Queued
      <3>3. QueueInv'
        <4> SUFFICES ASSUME NEW i \in DOMAIN queue PROVE TerminalLast(i)' /\ Outlived(i)'
          BY <3>1 DEF QueueInv
        <4>1. queue[i] \in Event /\ TerminalLast(i) /\ Outlived(i)
          BY <1>0 DEF TypeOK, OwnInv, QueueInv
        <4>2. TerminalLast(i)'
          BY <3>1, <3>2, <4>1, EventFields DEF TerminalLast, Over
        <4>3. Outlived(i)'
          BY <3>1, <3>2, <4>1, EventFields DEF Outlived, Announces, Backed
        <4> QED BY <4>2, <4>3
      <3>4. CurrentInv'
        <4>1. etEv \in Event BY <1>0 DEF TypeOK
        <4> QED BY <3>1, <3>2, <4>1, EventFields
                DEF OwnInv, CurrentInv, Announces, Over, Backed, Queued
      <3>5. CallInv' BY <3>1, <3>2 DEF OwnInv, CallInv, Announces
      <3>6. RefsInv' BY <3>1, <3>2 DEF OwnInv, RefsInv, B
      <3>7. QuietInv' BY <3>1 DEF OwnInv, QuietInv, Announces
      <3> QED BY <3>3, <3>4, <3>5, <3>6, <3>7 DEF OwnInv
    <2>2. CASE ~(qlen >= QueueMax)
      BY <1>0, <1>3, <2>2, AnnounceOwn DEF CallNew
    <2> QED BY <2>1, <2>2
  <1>4. ASSUME NEW c \in Calls, NEW e \in {State(c), Sdp(c)}, CallPost(c, e) PROVE OwnInv'
    <2>1. e.hold = NoCall BY <1>4 DEF State, Sdp
    <2>2. CASE qlen >= QueueMax
      <3>1. UNCHANGED <<queue, etPc, etEv, callState, refs, reHold, held, lost, leaked, ended,
                        appPc, evShutdown>>
        BY <1>4, <2>1, <2>2 DEF CallPost, Post, Deref
      <3>2. QuietInv' BY <3>1 DEF OwnInv, QuietInv, Announces
      <3> QED BY <3>1, <3>2, OwnFrame
    <2>3. CASE ~(qlen >= QueueMax)
      <3>1. callState' = [callState EXCEPT ![c] = "live"] /\ callState[c] = "live"
        BY <1>0, <1>4 DEF CallPost, TypeOK
      <3> QED BY <1>0, <1>4, <2>3, <3>1, AnnounceOwn DEF CallPost, Post
    <2> QED BY <2>2, <2>3
  <1>5. ASSUME NEW c \in Calls, CallClosed(c) PROVE OwnInv'
    BY <1>0, <1>5, CallClosedOwn
  <1>6. CASE CallClosedPost
    <2>0. Closed(reHold).hold = reHold BY DEF Closed
    <2>1. CASE qlen >= QueueMax
      BY <1>0, <1>6, <2>0, <2>1, ClosedLostOwn DEF CallClosedPost, Post
    <2>2. CASE ~(qlen >= QueueMax)
      BY <1>0, <1>6, <2>2, ClosedQueuedOwn DEF CallClosedPost, Post
    <2> QED BY <2>1, <2>2
  <1>7. CASE CallClosedOom
    BY <1>0, <1>7, ClosedLostOwn DEF CallClosedOom
  <1> QED BY <1>1, <1>2, <1>3, <1>4, <1>5, <1>6, <1>7 DEF Producer

\* Every step of the event thread keeps the accounts.
LEMMA EventThreadOwn == IInv /\ OwnInv /\ EventThread => OwnInv'
  <1> SUFFICES ASSUME IInv, OwnInv, EventThread PROVE OwnInv'
    OBVIOUS
  <1>0. TypeOK BY DEF IInv
  <1>1. CASE EtTake
    BY <1>0, <1>1, TakeOwn DEF EtTake, Active
  <1>2. CASE EtCallOwned \/ EtCallBorrowed
    BY <1>0, <1>2, CallbackOwn
  <1>3. CASE EtDone
    <2>1. CASE Take
      BY <1>0, <1>3, <2>1, TakeOwn DEF EtDone, Active
    <2>2. CASE ~Take
      BY <1>0, <1>3, <2>2, IdleOwn DEF EtDone, Active
    <2> QED BY <2>1, <2>2
  <1>4. CASE \/ EtSkip \/ EtReenter \/ EtReenterIsInit \/ EtReturn \/ EtExit
             \/ \E h \in Callback, owned \in BOOLEAN : EtReenterSet(h, owned)
    <2>1. /\ UNCHANGED <<queue, etEv, callState, refs, reHold, held, lost, leaked, ended,
                         appPc, evShutdown>>
          /\ etPc' \in Active <=> etPc \in Active
      BY <1>4 DEF EtSkip, EtReenter, EtReenterIsInit, EtReturn, EtExit, EtReenterSet, Active
    <2>2. QuietInv' BY <2>1 DEF OwnInv, QuietInv, Announces
    <2> QED BY <2>1, <2>2, OwnFrame
  <1> QED BY <1>1, <1>2, <1>3, <1>4 DEF EventThread

\* Every step of an application thread keeps the accounts.
LEMMA AppOwn ==
    ASSUME IInv, OwnInv, NEW a \in AppThreads, App(a)
    PROVE  OwnInv'
  <1>1. ASSUME NEW h \in Handlers, NEW owned \in BOOLEAN, SdkInit(a, h, owned) PROVE OwnInv'
    BY <1>1, ReinitOwn
  <1>2. CASE \/ \E h \in Callback, owned \in BOOLEAN : SwapBegin(a, h, owned)
             \/ SwapReturn(a) \/ ShutdownBegin(a) \/ ShutdownJoin(a) \/ ShutdownFreed(a)
    <2>1. /\ UNCHANGED <<queue, etEv, callState, refs, reHold, held, lost, leaked, ended>>
          /\ etPc' \in Active <=> etPc \in Active
      BY <1>2 DEF SwapBegin, SwapReturn, ShutdownBegin, ShutdownJoin, ShutdownFreed, Active
    <2>2. /\ evShutdown => evShutdown'
          /\ \A b \in AppThreads :
                \/ appPc'[b] = appPc[b]
                \/ appPc'[b] \in {"idle", "swapwait"}
                \/ appPc'[b] = "join" /\ evShutdown'
                \/ appPc'[b] = "free" /\ appPc[b] = "join"
                \/ appPc'[b] = "teardown" /\ appPc[b] = "free" /\ queue = <<>>
      BY <1>2 DEF SwapBegin, SwapReturn, ShutdownBegin, ShutdownJoin, ShutdownFreed, IInv, TypeOK
    <2>3. QuietInv'
      BY <2>1, <2>2 DEF OwnInv, QuietInv, Announces
    <2> QED BY <2>1, <2>3, OwnFrame
  <1>3. CASE ShutdownFreeOne(a) BY <1>3, FreeOneOwn
  <1>4. CASE ShutdownEnd(a) BY <1>4, ShutdownEndOwn
  <1> QED BY <1>1, <1>2, <1>3, <1>4 DEF App

\* The places of every reference and the order of every call's events, as an
\* inductive invariant.
THEOREM AccountsInvariant == Spec => []OwnInv
  <1>1. IInv /\ OwnInv /\ [Next]_vars => OwnInv'
    <2>1. IInv /\ OwnInv /\ UNCHANGED vars => OwnInv'
      <3> SUFFICES ASSUME OwnInv, UNCHANGED vars PROVE OwnInv'
        OBVIOUS
      <3>1. QuietInv' BY DEF OwnInv, QuietInv, Announces
      <3> QED BY <3>1, OwnFrame
    <2> QED BY <2>1, ProducerOwn, EventThreadOwn, AppOwn, ReleaseOwn DEF Next
  <1> QED BY InitOwn, InductiveInvariant, <1>1, PTL DEF Spec

\* Whatever the queue drops, the application keeps and a shutdown interrupts, the
\* reference count of a wrapper is the number of places that will release it:
\* qev_destructor(), voxsdk_event_release() and vox_call_global_reset() neither
\* release twice nor forget.
THEOREM ReferencesAccounted == Spec => []RefsAccounted
  <1>1. IInv /\ OwnInv => RefsAccounted
    <2> SUFFICES ASSUME IInv, OwnInv, NEW c \in Calls PROVE refs[c] = HeldBy(c)
      BY DEF RefsAccounted
    <2> DEFINE S == {i \in DOMAIN queue : queue[i].hold = c}
    <2>1. queue \in Seq(Event) /\ DOMAIN queue = 1 .. Len(queue)
      BY DEF IInv, TypeOK
    <2>2. Cardinality(S) = B(Queued(c))
      <3>1. CASE S = {}
        <4>1. ~Queued(c) BY <3>1 DEF Queued
        <4> QED BY <3>1, <4>1, FS_EmptySet DEF B
      <3>2. CASE S # {}
        <4>1. PICK i \in S : TRUE BY <3>2
        <4>2. Queued(c) BY <4>1 DEF Queued
        <4>3. \A j, k \in S : ~(k > j)
          <5>1. \A j \in S : queue[j].call = c /\ queue[j].kind = "closed" /\ TerminalLast(j)
            BY DEF OwnInv, QueueInv, TerminalLast
          <5> QED BY <5>1 DEF TerminalLast
        <4>4. \A j \in S : j = i
          BY <2>1, <4>1, <4>3
        <4>5. S = {i} BY <4>1, <4>4
        <4> QED BY <4>2, <4>5, FS_Singleton DEF B
      <3> QED BY <3>1, <3>2
    <2>3. \A d \in Calls : refs[d] \in Int /\ held[d] \in Nat BY DEF IInv, TypeOK
    <2>4. HeldBy(c) = B(callState[c] = "live") + B(reHold = c) + held[c] + B(c \in leaked)
                      + B(Queued(c)) + B(etPc \in Active /\ etEv.hold = c)
      BY <2>2 DEF HeldBy
    <2> QED BY <2>3, <2>4 DEF OwnInv, RefsInv, B
  <1> QED BY <1>1, InductiveInvariant, AccountsInvariant, PTL

\* A handle given to a callback is good until the terminal event of its call, the
\* last one any callback gets, for every queue limit: only a terminal event that
\* the full queue dropped (event.c) takes the wrapper away early.
THEOREM HandlesAreSound == Spec => []HandlesSound
  <1>1. IInv /\ OwnInv => HandlesSound
    <2> SUFFICES ASSUME IInv, OwnInv PROVE HandlesSound
      OBVIOUS
    <2>1. etEv \in Event BY DEF IInv, TypeOK
    <2>2. HandleValidUnlessLost
      <3> SUFFICES ASSUME etPc \in {"callback", "reenter"}, Announces(etEv), etEv.call \notin lost
                   PROVE  refs[etEv.call] > 0
        BY DEF HandleValidUnlessLost, Announces
      <3>1. PICK c \in Calls : c = etEv.call BY <2>1, EventFields DEF Announces
      <3>2. callState[c] = "live" \/ reHold = c \/ c \in leaked \/ Queued(c)
        BY <3>1 DEF OwnInv, CurrentInv, Active, Backed
      <3>3. refs[c] \in Int /\ held[c] \in Nat BY DEF IInv, TypeOK
      <3> QED BY <3>1, <3>2, <3>3 DEF OwnInv, RefsInv, B
    <2>3. EndedIsLast
      BY DEF EndedIsLast, OwnInv, CallInv, Active, Announces, IInv, TypeOK
    <2> QED BY <2>2, <2>3 DEF HandlesSound
  <1> QED BY <1>1, InductiveInvariant, AccountsInvariant, PTL
=============================================================================
