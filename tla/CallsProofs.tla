----------------------------- MODULE CallsProofs -----------------------------
(***************************************************************************)
(* Proofs about Calls, for every number of calls, every queue limit and    *)
(* every choice of what the application and the peers do.                  *)
(***************************************************************************)
EXTENDS Calls, FiniteSetTheorems, TLAPS

USE CallsAssumption
USE DEF vars, reVars, appVars

-----------------------------------------------------------------------------
(* Operators.                                                              *)

\* The story an application is told is a preorder.
LEMMA FollowsTrans ==
    ASSUME NEW s \in P!CallStates \cup {"none"}, NEW t \in P!CallStates \cup {"none"},
           NEW u \in P!CallStates \cup {"none"}, Follows(s, t), Follows(t, u)
    PROVE  Follows(s, u)
  BY DEF Follows, P!Later, P!CallStates, P!Setup, P!Up, P!Over

\* Where a call that is listed can go from where it is.
LEMMA FollowsSteps ==
    /\ \A t \in P!CallStates : Follows("none", t)
    /\ \A s \in P!Setup : Follows(s, "RINGING")
    /\ \A s \in P!Setup \cup P!Up : Follows(s, "ESTABLISHED")
    /\ \A s \in P!Setup \cup P!Up : \A t \in P!Over : Follows(s, t)
    /\ Follows("ESTABLISHED", "HELD")
    /\ P!Setup \cap P!Over = {} /\ P!Up \cap P!Over = {}
    /\ \A s \in P!CallStates : s # "none"
    /\ "RINGING" \in P!Setup /\ "CALLING" \in P!Setup
    /\ "HELD" \in P!Up /\ "ESTABLISHED" \in P!Up
    /\ P!Setup \subseteq P!CallStates /\ P!Up \subseteq P!CallStates /\ P!Over \subseteq P!CallStates
  BY DEF Follows, P!Later, P!CallStates, P!Setup, P!Up, P!Over

\* Events that tell something else are not states.
LEMMA InfosApart == Infos \cap P!CallStates = {}
  BY DEF P!CallStates, P!Setup, P!Up, P!Over

\* The close handler always classifies a call as one that is over.
LEMMA ClassifyOver ==
    ASSUME NEW s, NEW cause PROVE Classify(s, cause) \in P!Over
  BY DEF Classify, P!Over

\* The records a wrapper goes through.
LEMMA RecordTypes ==
    /\ NoCall \in CallRecord /\ Freed \in CallRecord
    /\ NoCall.dlg = "none" /\ Freed.dlg = "gone" /\ ~Freed.listed /\ ~Freed.bc
    /\ Freed.refs = 0 /\ Freed.setup_start = "off" /\ ~NoCall.listed /\ ~NoCall.bc
    /\ Freed.state = "none"
  <1>1. NoCall \in CallRecord
    BY DEF NoCall, CallRecord
  <1>2. /\ NoCall.dlg = "none" /\ NoCall.refs = 0 /\ NoCall.setup_start = "off"
        /\ NoCall.state = "none" /\ ~NoCall.listed /\ ~NoCall.bc
    BY DEF NoCall
  <1> QED BY <1>1, <1>2 DEF Freed, CallRecord

\* A wrapper just allocated is listed, holds one reference and owes nothing.
LEMMA WrapType ==
    ASSUME NEW dlg \in {"in", "out"}, NEW state \in P!Setup
    PROVE  LET r == WrapNew(dlg, state) IN
           /\ r \in CallRecord /\ r.listed /\ r.bc /\ r.refs = 1 /\ r.dlg = dlg /\ r.state = state
           /\ ~r.xfer_pending /\ r.notifier = "none" /\ r.via = None /\ r.setup_start = "off"
  <1>1. NoCall \in CallRecord
    BY RecordTypes
  <1>2. /\ NoCall.setup_start = "off" /\ NoCall.via = None
        /\ NoCall.notifier = "none" /\ ~NoCall.xfer_pending
    BY DEF NoCall
  <1> DEFINE r1 == [NoCall EXCEPT !.state = state, !.bc = TRUE]
             r0 == [r1 EXCEPT !.listed = TRUE]
             r2 == [r0 EXCEPT !.refs = 1]
             r3 == [r2 EXCEPT !.dlg = dlg]
  <1>3. /\ r1 \in CallRecord /\ r1.bc /\ r1.state = state /\ r1.setup_start = "off"
        /\ r1.via = None /\ r1.notifier = "none" /\ ~r1.xfer_pending
    BY <1>1, <1>2, FollowsSteps DEF CallRecord
  <1>4. WrapNew(dlg, state) = r3
    BY DEF WrapNew
  <1> HIDE DEF r1
  <1>a. /\ r0 \in CallRecord /\ r0.bc /\ r0.state = state /\ r0.setup_start = "off"
        /\ r0.via = None /\ r0.notifier = "none" /\ ~r0.xfer_pending /\ r0.listed
    BY <1>3 DEF CallRecord
  <1> HIDE DEF r0
  <1>5. /\ r2 \in CallRecord /\ r2.bc /\ r2.state = state /\ r2.setup_start = "off"
        /\ r2.via = None /\ r2.notifier = "none" /\ ~r2.xfer_pending
        /\ r2.listed /\ r2.refs = 1
    BY <1>a DEF CallRecord
  <1> HIDE DEF r2
  <1>6. /\ r3 \in CallRecord /\ r3.bc /\ r3.state = state /\ r3.setup_start = "off"
        /\ r3.via = None /\ r3.notifier = "none" /\ ~r3.xfer_pending
        /\ r3.listed /\ r3.refs = 1 /\ r3.dlg = dlg
    BY <1>5 DEF CallRecord
  <1> QED BY <1>4, <1>6

\* A call just dialled is watched; one dialled for a transfer remembers whose it is.
LEMMA DialledType ==
    ASSUME NEW n \in Calls, NEW c \in Calls \cup {None}
    PROVE  \A r \in {[Watched(WrapNew("out", "CALLING"))
                         EXCEPT !.local_sdp = (n \in Rich), !.via = c],
                     [Watched(WrapNew("out", "CALLING")) EXCEPT !.local_sdp = (n \in Rich)]} :
           /\ r \in CallRecord /\ r.listed /\ r.bc /\ r.refs = 1 /\ r.dlg = "out"
           /\ r.state = "CALLING" /\ ~r.xfer_pending /\ r.notifier = "none"
           /\ r.setup_start = "running"
  <1> DEFINE w == WrapNew("out", "CALLING")
  <1>1. /\ w \in CallRecord /\ w.listed /\ w.bc /\ w.refs = 1 /\ w.dlg = "out"
        /\ w.state = "CALLING" /\ ~w.xfer_pending /\ w.notifier = "none"
    BY WrapType, FollowsSteps
  <1> HIDE DEF w
  <1> DEFINE v == [w EXCEPT !.setup_start = "running"]
             t == [v EXCEPT !.local_sdp = (n \in Rich)]
             u == [t EXCEPT !.via = c]
  <1>2. /\ v \in CallRecord /\ v.listed /\ v.bc /\ v.refs = 1 /\ v.dlg = "out"
        /\ v.state = "CALLING" /\ ~v.xfer_pending /\ v.notifier = "none"
        /\ v.setup_start = "running"
    BY <1>1 DEF CallRecord
  <1>3. /\ [Watched(WrapNew("out", "CALLING")) EXCEPT !.local_sdp = (n \in Rich), !.via = c] = u
        /\ [Watched(WrapNew("out", "CALLING")) EXCEPT !.local_sdp = (n \in Rich)] = t
    BY DEF Watched, w
  <1> HIDE DEF v
  <1>a. /\ t \in CallRecord /\ t.listed /\ t.bc /\ t.refs = 1 /\ t.dlg = "out"
        /\ t.state = "CALLING" /\ ~t.xfer_pending /\ t.notifier = "none"
        /\ t.setup_start = "running"
    BY <1>2 DEF CallRecord
  <1> HIDE DEF t
  <1>4. /\ u \in CallRecord /\ u.listed /\ u.bc /\ u.refs = 1 /\ u.dlg = "out"
        /\ u.state = "CALLING" /\ ~u.xfer_pending /\ u.notifier = "none"
        /\ u.setup_start = "running"
    BY <1>a DEF CallRecord
  <1> HIDE DEF u
  <1> QED BY <1>3, <1>4, <1>a

\* One wrapper is replaced.
LEMMA SetAt ==
    ASSUME NEW f \in [Calls -> CallRecord], NEW c \in Calls, NEW r \in CallRecord
    PROVE  LET g == [f EXCEPT ![c] = r] IN
           g \in [Calls -> CallRecord] /\ g[c] = r /\ \A d \in Calls \ {c} : g[d] = f[d]
  OBVIOUS

\* mem_deref() of the last reference frees.
LEMMA DerefLast ==
    ASSUME NEW r \in CallRecord, r.refs = 1
    PROVE  Deref(r) = Freed
  BY DEF Deref

\* What the SDK's own decisions look at in a wrapper; the state, while it is listed.
SameCore(q, r) ==
    /\ q.listed = r.listed /\ q.bc = r.bc /\ q.refs = r.refs /\ q.dlg = r.dlg
    /\ r.listed => q.state = r.state

\* baresip's last NOTIFY to a transferor touches the transferor's notifier only.
LEMMA NotifiedKeeps ==
    ASSUME NEW calls \in [Calls -> CallRecord], NEW n \in Calls
    PROVE  /\ Notified(calls, n) \in [Calls -> CallRecord]
           /\ \A d \in Calls :
                /\ SameCore(Notified(calls, n)[d], calls[d])
                /\ Notified(calls, n)[d].state = calls[d].state
                /\ Notified(calls, n)[d].xfer_pending = calls[d].xfer_pending
                /\ Notified(calls, n)[d].setup_start = calls[d].setup_start
                /\ Notified(calls, n)[d].notifier = "owed" <=> calls[d].notifier = "owed"
  <1>1. CASE calls[n].via = None
    BY <1>1 DEF Notified, SameCore
  <1>2. CASE calls[n].via # None
    <2> DEFINE c == calls[n].via
               one == [calls EXCEPT ![n].via = None]
    <2>1. c \in Calls BY <1>2 DEF CallRecord
    <2>2. one \in [Calls -> CallRecord] /\ \A d \in Calls :
            /\ SameCore(one[d], calls[d]) /\ one[d].state = calls[d].state
            /\ one[d].xfer_pending = calls[d].xfer_pending
            /\ one[d].setup_start = calls[d].setup_start /\ one[d].notifier = calls[d].notifier
      BY DEF CallRecord, SameCore
    <2>3. Notified(calls, n) = [one EXCEPT ![c].notifier = IF @ = "moved" THEN "none" ELSE @]
      BY <1>2 DEF Notified
    <2> HIDE DEF one, c
    <2>4. PICK v \in {"none", "owed", "moved"} :
             /\ Notified(calls, n) = [one EXCEPT ![c] = [one[c] EXCEPT !.notifier = v]]
             /\ v = "owed" <=> one[c].notifier = "owed"
      BY <2>1, <2>2, <2>3 DEF CallRecord
    <2>5. one[c] \in CallRecord BY <2>1, <2>2
    <2> DEFINE r == [one[c] EXCEPT !.notifier = v]
    <2>6. /\ r \in CallRecord /\ SameCore(r, one[c]) /\ r.state = one[c].state
          /\ r.xfer_pending = one[c].xfer_pending /\ r.setup_start = one[c].setup_start
          /\ r.notifier = v
      BY ONLY <2>5, v \in {"none", "owed", "moved"} DEF CallRecord, SameCore
    <2> HIDE DEF r
    <2>7. /\ Notified(calls, n) \in [Calls -> CallRecord] /\ Notified(calls, n)[c] = r
          /\ \A d \in Calls \ {c} : Notified(calls, n)[d] = one[d]
      BY <2>1, <2>2, <2>4, <2>6, SetAt DEF r
    <2> QED BY <2>1, <2>2, <2>4, <2>6, <2>7 DEF SameCore
  <1> QED BY <1>1, <1>2

\* What a call owes: the deadline of its dial and the answer to a REFER.
SameDebts(q, r) ==
    /\ q.xfer_pending = r.xfer_pending /\ q.setup_start = r.setup_start
    /\ q.notifier = "owed" <=> r.notifier = "owed"

\* Telling the transferor changes no other debt.
LEMMA NotifiedDebts ==
    ASSUME NEW calls \in [Calls -> CallRecord], NEW n \in Calls
    PROVE  \A d \in Calls : SameDebts(Notified(calls, n)[d], calls[d])
  BY NotifiedKeeps DEF SameDebts

\* CALL_ANSWERED and CALL_ESTABLISHED: the call is up and no longer watched.
LEMMA EstablishedFacts ==
    ASSUME NEW calls \in [Calls -> CallRecord], NEW c \in Calls, NEW dlg \in {"answered", "up"}
    PROVE  LET new == Established(calls, c, dlg) IN
           /\ new \in [Calls -> CallRecord]
           /\ new[c].state = "ESTABLISHED" /\ new[c].dlg = dlg /\ new[c].setup_start = "off"
           /\ new[c].listed = calls[c].listed /\ new[c].bc = calls[c].bc
           /\ new[c].refs = calls[c].refs /\ new[c].xfer_pending = calls[c].xfer_pending
           /\ new[c].notifier = "owed" <=> calls[c].notifier = "owed"
           /\ \A d \in Calls \ {c} : SameCore(new[d], calls[d]) /\ SameDebts(new[d], calls[d])
  <1> DEFINE f1 == [calls EXCEPT ![c].state = "ESTABLISHED"]
             f2 == [f1 EXCEPT ![c].setup_start = "off"]
             f3 == [f2 EXCEPT ![c].dlg = dlg]
  <1>1. /\ f1 \in [Calls -> CallRecord] /\ f1[c].state = "ESTABLISHED"
        /\ f1[c].listed = calls[c].listed /\ f1[c].bc = calls[c].bc /\ f1[c].refs = calls[c].refs
        /\ f1[c].xfer_pending = calls[c].xfer_pending /\ f1[c].notifier = calls[c].notifier
        /\ \A d \in Calls \ {c} : f1[d] = calls[d]
    BY FollowsSteps DEF CallRecord
  <1>2. Established(calls, c, dlg) = Notified(f3, c)
    BY DEF Established
  <1> HIDE DEF f1
  <1>3. /\ f2 \in [Calls -> CallRecord] /\ f2[c].state = "ESTABLISHED"
        /\ f2[c].listed = calls[c].listed /\ f2[c].bc = calls[c].bc /\ f2[c].refs = calls[c].refs
        /\ f2[c].xfer_pending = calls[c].xfer_pending /\ f2[c].notifier = calls[c].notifier
        /\ f2[c].setup_start = "off"
        /\ \A d \in Calls \ {c} : f2[d] = calls[d]
    BY <1>1 DEF CallRecord
  <1> HIDE DEF f2
  <1>4. /\ f3 \in [Calls -> CallRecord] /\ f3[c].state = "ESTABLISHED"
        /\ f3[c].listed = calls[c].listed /\ f3[c].bc = calls[c].bc /\ f3[c].refs = calls[c].refs
        /\ f3[c].xfer_pending = calls[c].xfer_pending /\ f3[c].notifier = calls[c].notifier
        /\ f3[c].setup_start = "off" /\ f3[c].dlg = dlg
        /\ \A d \in Calls \ {c} : f3[d] = calls[d]
    BY <1>3 DEF CallRecord
  <1> HIDE DEF f3
  <1>5. /\ Notified(f3, c) \in [Calls -> CallRecord] /\ Notified(f3, c)[c].state = f3[c].state
        /\ \A d \in Calls : SameCore(Notified(f3, c)[d], f3[d]) /\ SameDebts(Notified(f3, c)[d], f3[d])
    BY <1>4, NotifiedKeeps, NotifiedDebts
  <1> QED BY <1>2, <1>4, <1>5 DEF SameCore, SameDebts

\* The end of a call: its wrapper leaves the list and goes with the terminal event,
\* or is freed with the one the full queue refused.
LEMMA CloseFacts ==
    ASSUME NEW calls \in [Calls -> CallRecord], NEW c \in Calls, NEW cause,
           NEW last \in {"classified", "ENDED"}, calls[c].refs = 1, Close(calls, c, cause, last)
    PROVE  /\ call' \in [Calls -> CallRecord]
           /\ \A d \in Calls \ {c} : SameCore(call'[d], calls[d]) /\ SameDebts(call'[d], calls[d])
           /\ ~call'[c].listed /\ ~call'[c].bc /\ call'[c].dlg = "gone"
           /\ \/ /\ Len(events) >= QueueMax
                 /\ call'[c].refs = 0 /\ lost' = lost \cup {c} /\ events' = events
              \/ /\ ~(Len(events) >= QueueMax)
                 /\ call'[c].refs = 1 /\ lost' = lost
                 /\ \E s \in P!Over : events' = Append(events, [call |-> c, what |-> s])
  <1> DEFINE s == Classify(calls[c].state, cause)
             r1 == [calls[c] EXCEPT !.state = IF last = "classified" THEN s ELSE last]
             r2 == [r1 EXCEPT !.bc = FALSE]
             r3 == [r2 EXCEPT !.listed = FALSE]
             r4 == [r3 EXCEPT !.dlg = "gone"]
             r == [r4 EXCEPT !.notifier = "none"]
  <1>1. s \in P!Over BY ClassifyOver
  <1>2. CASE Len(events) >= QueueMax
    <2>1. call' = [Notified(calls, c) EXCEPT ![c] = Deref(r)] /\ lost' = lost \cup {c}
          /\ UNCHANGED events
      BY <1>2 DEF Close
    <2>2. r.refs = 1
      BY DEF CallRecord
    <2>3. Deref(r) = Freed BY <2>2 DEF Deref
    <2>4. call' = [Notified(calls, c) EXCEPT ![c] = Freed] BY <2>1, <2>3
    <2> HIDE DEF r
    <2> QED BY <1>2, <2>1, <2>4, NotifiedKeeps, NotifiedDebts, RecordTypes
  <1>3. CASE ~(Len(events) >= QueueMax)
    <2> DEFINE q == [r EXCEPT !.via = None]
    <2>1. call' = [Notified(calls, c) EXCEPT ![c] = q] /\ UNCHANGED lost
          /\ events' = Append(events, [call |-> c, what |-> s])
      BY <1>3 DEF Close
    <2>2. r1 \in CallRecord /\ r1.refs = 1
      <3>1. (IF last = "classified" THEN s ELSE last) \in P!CallStates \cup {"none"}
        BY <1>1, FollowsSteps DEF P!Over
      <3>2. calls[c] \in CallRecord /\ calls[c].refs = 1 OBVIOUS
      <3> HIDE DEF s
      <3> QED BY <3>1, <3>2 DEF CallRecord
    <2> HIDE DEF s, r1
    <2>3. r2 \in CallRecord /\ r2.refs = 1 /\ ~r2.bc
      BY <2>2 DEF CallRecord
    <2> HIDE DEF r2
    <2>4. r3 \in CallRecord /\ r3.refs = 1 /\ ~r3.bc /\ ~r3.listed
      BY <2>3 DEF CallRecord
    <2> HIDE DEF r3
    <2>5. r4 \in CallRecord /\ r4.refs = 1 /\ ~r4.bc /\ ~r4.listed /\ r4.dlg = "gone"
      BY <2>4 DEF CallRecord
    <2> HIDE DEF r4
    <2>6. r \in CallRecord /\ r.refs = 1 /\ ~r.bc /\ ~r.listed /\ r.dlg = "gone"
      BY <2>5 DEF CallRecord
    <2> HIDE DEF r
    <2>7. q \in CallRecord /\ q.refs = 1 /\ ~q.bc /\ ~q.listed /\ q.dlg = "gone"
      BY <2>6 DEF CallRecord
    <2> HIDE DEF q
    <2> QED BY <1>1, <1>3, <2>1, <2>7, NotifiedKeeps, NotifiedDebts
  <1> QED BY <1>2, <1>3

-----------------------------------------------------------------------------
(* The story of a call.                                                    *)

\* What posting does to the queue of events, position by position.
LEMMA AppendAt ==
    ASSUME NEW q \in Seq(Event), NEW e \in Event
    PROVE  /\ Append(q, e) \in Seq(Event) /\ Len(Append(q, e)) = Len(q) + 1
           /\ DOMAIN Append(q, e) = 1 .. Len(q) + 1
           /\ DOMAIN q = 1 .. Len(q) /\ Len(q) \in Nat
           /\ \A i \in DOMAIN q : Append(q, e)[i] = q[i]
           /\ Append(q, e)[Len(q) + 1] = e
  OBVIOUS

\* What taking an event off the queue does, position by position.
LEMMA TailAt ==
    ASSUME NEW q \in Seq(Event), q # <<>>
    PROVE  /\ Tail(q) \in Seq(Event) /\ Len(q) \in Nat /\ Len(q) >= 1
           /\ Len(Tail(q)) = Len(q) - 1
           /\ DOMAIN q = 1 .. Len(q) /\ DOMAIN Tail(q) = 1 .. Len(q) - 1
           /\ \A i \in DOMAIN Tail(q) : i + 1 \in DOMAIN q /\ Tail(q)[i] = q[i + 1]
           /\ Head(q) = q[1] /\ 1 \in DOMAIN q
           /\ \A i \in DOMAIN q : i # 1 => i - 1 \in DOMAIN Tail(q) /\ Tail(q)[i - 1] = q[i]
  OBVIOUS

\* The types the arguments below need.
LEMMA Types ==
    ASSUME TypeOK
    PROVE  /\ events \in Seq(Event) /\ call \in [Calls -> CallRecord]
           /\ told \in [Calls -> P!CallStates \cup {"none"}] /\ lost \subseteq Calls
           /\ \A i \in DOMAIN events : /\ events[i] \in Event /\ events[i].call \in Calls
                                       /\ events[i].what \in P!CallStates \cup Infos
           /\ DOMAIN events = 1 .. Len(events) /\ Len(events) \in Nat
           /\ \A c \in Calls : /\ call[c] \in CallRecord /\ call[c].refs \in Int
                               /\ call[c].listed \in BOOLEAN
                               /\ call[c].state \in P!CallStates \cup {"none"}
                               /\ told[c] \in P!CallStates \cup {"none"}
  <1>1. events \in Seq(Event) /\ call \in [Calls -> CallRecord]
        /\ told \in [Calls -> P!CallStates \cup {"none"}] /\ lost \subseteq Calls
    BY DEF TypeOK
  <1>2. \A i \in DOMAIN events : events[i] \in Event
    BY <1>1
  <1>3. \A e \in Event : e.call \in Calls /\ e.what \in P!CallStates \cup Infos
    BY DEF Event
  <1>4. \A r \in CallRecord : r.refs \in Int /\ r.listed \in BOOLEAN
                              /\ r.state \in P!CallStates \cup {"none"}
    BY DEF CallRecord
  <1> QED BY <1>1, <1>2, <1>3, <1>4

\* A step that leaves the queue and the core of every wrapper alone.
LEMMA QuietStory ==
    ASSUME TypeOK, OwnerInv, StoryInv, \A d \in Calls : SameCore(call'[d], call[d]),
           UNCHANGED <<events, told, etHold, lost>>, et' = "idle" => etHold = None
    PROVE  OwnerInv' /\ StoryInv'
  <1>1. \A c \in Calls : /\ EndQueued(c)' <=> EndQueued(c)
                         /\ NoneQueued(c)' <=> NoneQueued(c)
    BY DEF EndQueued, NoneQueued, Ends
  <1>2. OwnerInv'
    BY <1>1 DEF OwnerInv, SameCore, B
  <1>3. StoryInv'
    <2>1. \A i \in DOMAIN events : EndLast(i)'
      BY Types DEF StoryInv, EndLast, Ends, SameCore
    <2>2. \A i \in DOMAIN events : InOrder(i)'
      BY Types DEF StoryInv, InOrder, SameCore, Follows
    <2>3. \A c \in Calls : call'[c].listed => Follows(told'[c], call'[c].state)
      BY DEF StoryInv, SameCore, Follows
    <2> QED BY <2>1, <2>2, <2>3 DEF StoryInv, Follows
  <1> QED BY <1>2, <1>3

\* A listed call goes on, and its event, if it is not refused, is queued behind
\* everything else.
LEMMA PostStory ==
    ASSUME TypeOK, OwnerInv, StoryInv, NEW c \in Calls, NEW what \in Infos \cup P!Setup \cup P!Up,
           call[c].listed, call'[c].listed, call'[c].bc, call'[c].refs = call[c].refs,
           call'[c].state \in P!Setup \cup P!Up, call'[c].dlg # "none",
           call'[c].dlg = "out" => call'[c].state \in P!Setup,
           Follows(call[c].state, call'[c].state),
           what \in Infos \/ what = call'[c].state,
           \A d \in Calls \ {c} : SameCore(call'[d], call[d]),
           Post(c, what),
           UNCHANGED <<told, etHold, lost>>, et' = "idle" => etHold = None
    PROVE  OwnerInv' /\ StoryInv'
  <1> DEFINE e == [call |-> c, what |-> what]
  <1>1. e \in Event /\ e.call = c /\ e.what = what /\ ~Ends(e)
    BY FollowsSteps, InfosApart DEF Event, Ends
  <1>t. /\ events \in Seq(Event) /\ DOMAIN events = 1 .. Len(events) /\ Len(events) \in Nat
        /\ \A i \in DOMAIN events : /\ events[i].call \in Calls
                                    /\ events[i].what \in P!CallStates \cup Infos
        /\ call[c].state \in P!CallStates \cup {"none"} /\ told[c] \in P!CallStates \cup {"none"}
        /\ call'[c].state \in P!CallStates
    BY Types, FollowsSteps
  <1>2. /\ DOMAIN events \subseteq DOMAIN events'
        /\ \A i \in DOMAIN events : events'[i] = events[i]
        /\ \A i \in DOMAIN events' : i \in DOMAIN events \/ events'[i] = e
        /\ \A i \in DOMAIN events, k \in DOMAIN events' : k \in DOMAIN events \/ k > i
        /\ \A i \in DOMAIN events', k \in DOMAIN events' : k > i => i \in DOMAIN events
    BY <1>1, <1>t, AppendAt DEF Post
  <1>q. etHold # c /\ ~EndQueued(c) /\ call[c].dlg # "none"
    BY Types DEF OwnerInv, B
  <1>3. \A d \in Calls : /\ EndQueued(d)' <=> EndQueued(d)
                         /\ d # c => (NoneQueued(d)' <=> NoneQueued(d))
    <2>1. \A d \in Calls : EndQueued(d)' <=> EndQueued(d)
      BY <1>1, <1>2 DEF EndQueued, Ends
    <2>2. \A d \in Calls : d # c => (NoneQueued(d)' <=> NoneQueued(d))
      BY <1>1, <1>2 DEF NoneQueued
    <2> QED BY <2>1, <2>2
  <1>4. OwnerInv'
    <2> SUFFICES ASSUME NEW d \in Calls
                 PROVE  /\ call'[d].listed <=> call'[d].bc
                        /\ call'[d].refs = B(call'[d].listed) + B(etHold' = d) + B(EndQueued(d)')
                        /\ call'[d].listed => /\ call'[d].refs = 1
                                              /\ call'[d].state \in P!Setup \cup P!Up
                                              /\ call'[d].dlg = "out" => call'[d].state \in P!Setup
                                              /\ call'[d].dlg # "none"
                        /\ etHold' = d => NoneQueued(d)'
                        /\ call'[d].dlg = "none" => told'[d] = "none" /\ NoneQueued(d)'
      BY DEF OwnerInv
    <2>1. CASE d = c
      BY <2>1, <1>q, <1>3 DEF OwnerInv, B
    <2>2. CASE d # c
      BY <2>2, <1>3 DEF OwnerInv, B, SameCore
    <2> QED BY <2>1, <2>2
  <1>5. ASSUME NEW i \in DOMAIN events' PROVE EndLast(i)'
    <2>1. CASE i \in DOMAIN events
      <3>1. events'[i] = events[i] /\ EndLast(i) /\ events[i].call \in Calls
        BY <2>1, <1>2, <1>t DEF StoryInv
      <3>2. Ends(events[i]) => events[i].call # c
        BY <2>1, <1>q DEF EndQueued
      <3>3. Ends(events[i]) => \A k \in DOMAIN events' : k > i => events'[k].call # events[i].call
        BY <3>1, <3>2, <1>1, <1>2 DEF EndLast
      <3>4. \/ call'[events[i].call].listed \/ events[i].call \in lost
            \/ \E k \in DOMAIN events' : /\ k >= i /\ events'[k].call = events[i].call
                                         /\ Ends(events'[k])
        BY <3>1, <1>2 DEF EndLast, SameCore
      <3> QED BY <3>1, <3>3, <3>4 DEF EndLast, Ends
    <2>2. CASE i \notin DOMAIN events
      <3>1. events'[i] = e /\ \A k \in DOMAIN events' : ~(k > i)
        BY <2>2, <1>2
      <3> QED BY <3>1, <1>1 DEF EndLast, Ends
    <2> QED BY <2>1, <2>2
  <1>6. ASSUME NEW i \in DOMAIN events' PROVE InOrder(i)'
    <2>1. CASE i \in DOMAIN events
      <3> SUFFICES ASSUME events[i].what \in P!CallStates PROVE InOrder(i)'
        BY <2>1, <1>2 DEF InOrder
      <3>1. events'[i] = events[i] /\ InOrder(i) /\ events[i].call \in Calls
        BY <2>1, <1>2, <1>t DEF StoryInv
      <3>2. CASE events[i].call = c
        <4>1. Follows(events[i].what, call[c].state)
          BY <3>1, <3>2 DEF InOrder
        <4>2. Follows(events[i].what, call'[c].state)
          BY <4>1, <1>t, FollowsTrans
        <4>3. \A k \in DOMAIN events' :
                 k > i /\ events'[k].call = c /\ events'[k].what \in P!CallStates
                    => Follows(events[i].what, events'[k].what)
          <5> SUFFICES ASSUME NEW k \in DOMAIN events', k > i, events'[k].call = c,
                              events'[k].what \in P!CallStates
                       PROVE  Follows(events[i].what, events'[k].what)
            OBVIOUS
          <5>1. CASE k \in DOMAIN events
            BY <5>1, <3>1, <3>2, <1>2 DEF InOrder
          <5>2. CASE k \notin DOMAIN events
            BY <5>2, <4>2, <1>1, <1>2, InfosApart
          <5> QED BY <5>1, <5>2
        <4> QED BY <3>1, <3>2, <4>2, <4>3 DEF InOrder, Follows
      <3>3. CASE events[i].call # c
        BY <3>1, <3>3, <1>1, <1>2 DEF InOrder, SameCore, Follows
      <3> QED BY <3>2, <3>3
    <2>2. CASE i \notin DOMAIN events
      <3>1. events'[i] = e /\ \A k \in DOMAIN events' : ~(k > i)
        BY <2>2, <1>2
      <3>2. Follows(told[c], call'[c].state)
        BY <1>t, FollowsTrans DEF StoryInv
      <3> QED BY <3>1, <3>2, <1>1, InfosApart DEF InOrder, Follows
    <2> QED BY <2>1, <2>2
  <1>7. \A d \in Calls : call'[d].listed => Follows(told'[d], call'[d].state)
    <2>1. Follows(told[c], call'[c].state)
      BY <1>t, FollowsTrans DEF StoryInv
    <2> QED BY <2>1 DEF StoryInv, SameCore, Follows
  <1> QED BY <1>4, <1>5, <1>6, <1>7 DEF StoryInv, Follows

\* A call nobody knew gets its wrapper: it rings, or it was dialled.
LEMMA NewStory ==
    ASSUME TypeOK, OwnerInv, StoryInv, NEW c \in Calls, call[c] = NoCall,
           call'[c].listed, call'[c].bc, call'[c].refs = 1, call'[c].state \in P!Setup,
           call'[c].dlg # "none",
           \A d \in Calls \ {c} : SameCore(call'[d], call[d]) /\ told'[d] = told[d],
           told'[c] \in {"none", call'[c].state},
           events' = events \/ Post(c, call'[c].state),
           UNCHANGED <<etHold, lost>>, et' = "idle" => etHold = None
    PROVE  OwnerInv' /\ StoryInv'
  <1> DEFINE e == [call |-> c, what |-> call'[c].state]
  <1>1. e \in Event /\ e.call = c /\ e.what = call'[c].state /\ ~Ends(e)
    BY FollowsSteps DEF Event, Ends
  <1>t. /\ events \in Seq(Event) /\ DOMAIN events = 1 .. Len(events) /\ Len(events) \in Nat
        /\ \A i \in DOMAIN events : /\ events[i].call \in Calls
                                    /\ events[i].what \in P!CallStates \cup Infos
        /\ call'[c].state \in P!CallStates
    BY Types, FollowsSteps
  <1>2. /\ DOMAIN events \subseteq DOMAIN events'
        /\ \A i \in DOMAIN events : events'[i] = events[i]
        /\ \A i \in DOMAIN events' : i \in DOMAIN events \/ events'[i] = e
        /\ \A i \in DOMAIN events, k \in DOMAIN events' : k \in DOMAIN events \/ k > i
        /\ \A i \in DOMAIN events', k \in DOMAIN events' : k > i => i \in DOMAIN events
    BY <1>1, <1>t, AppendAt DEF Post
  <1>q. etHold # c /\ ~EndQueued(c) /\ NoneQueued(c) /\ told[c] = "none"
    <2>1. call[c].dlg = "none" /\ call[c].refs = 0 /\ ~call[c].listed
      BY RecordTypes DEF NoCall
    <2>2. NoneQueued(c) /\ told[c] = "none" BY <2>1 DEF OwnerInv
    <2>3. ~EndQueued(c) BY <2>2 DEF EndQueued, NoneQueued
    <2> QED BY <2>1, <2>2, <2>3 DEF OwnerInv, B
  <1>3. \A d \in Calls : /\ EndQueued(d)' <=> EndQueued(d)
                         /\ d # c => (NoneQueued(d)' <=> NoneQueued(d))
    <2>1. \A d \in Calls : EndQueued(d)' <=> EndQueued(d)
      BY <1>1, <1>2 DEF EndQueued, Ends
    <2>2. \A d \in Calls : d # c => (NoneQueued(d)' <=> NoneQueued(d))
      BY <1>1, <1>2 DEF NoneQueued
    <2> QED BY <2>1, <2>2
  <1>4. OwnerInv'
    <2> SUFFICES ASSUME NEW d \in Calls
                 PROVE  /\ call'[d].listed <=> call'[d].bc
                        /\ call'[d].refs = B(call'[d].listed) + B(etHold' = d) + B(EndQueued(d)')
                        /\ call'[d].listed => /\ call'[d].refs = 1
                                              /\ call'[d].state \in P!Setup \cup P!Up
                                              /\ call'[d].dlg = "out" => call'[d].state \in P!Setup
                                              /\ call'[d].dlg # "none"
                        /\ etHold' = d => NoneQueued(d)'
                        /\ call'[d].dlg = "none" => told'[d] = "none" /\ NoneQueued(d)'
      BY DEF OwnerInv
    <2>1. CASE d = c
      BY <2>1, <1>q, <1>3 DEF OwnerInv, B
    <2>2. CASE d # c
      BY <2>2, <1>3 DEF OwnerInv, B, SameCore
    <2> QED BY <2>1, <2>2
  <1>5. ASSUME NEW i \in DOMAIN events' PROVE EndLast(i)' /\ InOrder(i)'
    <2>1. CASE i \in DOMAIN events
      <3>1. /\ events'[i] = events[i] /\ EndLast(i) /\ InOrder(i)
            /\ events[i].call \in Calls \ {c} /\ told'[events[i].call] = told[events[i].call]
        BY <2>1, <1>2, <1>t, <1>q DEF StoryInv, NoneQueued
      <3>2. EndLast(i)'
        BY <3>1, <1>1, <1>2 DEF EndLast, SameCore, Ends
      <3>3. InOrder(i)'
        BY <3>1, <1>1, <1>2 DEF InOrder, SameCore, Follows
      <3> QED BY <3>2, <3>3
    <2>2. CASE i \notin DOMAIN events
      <3>1. events'[i] = e /\ \A k \in DOMAIN events' : ~(k > i)
        BY <2>2, <1>2
      <3>2. EndLast(i)' BY <3>1, <1>1 DEF EndLast, Ends
      <3>3. InOrder(i)' BY <3>1, <1>1, <1>t, FollowsSteps DEF InOrder, Follows
      <3> QED BY <3>2, <3>3
    <2> QED BY <2>1, <2>2
  <1>6. \A d \in Calls : call'[d].listed => Follows(told'[d], call'[d].state)
    <2>1. Follows(told'[c], call'[c].state)
      BY <1>t, FollowsSteps DEF Follows
    <2> QED BY <2>1 DEF StoryInv, SameCore, Follows
  <1> QED BY <1>4, <1>5, <1>6 DEF StoryInv, Follows

\* A wrapper that is not listed and has no event queued is freed: by the callback
\* that was given its end, or because its first event was refused.
LEMMA FreedStory ==
    ASSUME TypeOK, OwnerInv, StoryInv, NEW c \in Calls, ~call[c].listed, NoneQueued(c),
           call'[c] = Freed, etHold' # c, etHold # c => etHold' = etHold, etHold = c => etHold' = None,
           \A d \in Calls \ {c} : SameCore(call'[d], call[d]),
           UNCHANGED <<told, events, lost>>, et' = "idle" => etHold' = None
    PROVE  OwnerInv' /\ StoryInv'
  <1>1. \A d \in Calls : /\ EndQueued(d)' <=> EndQueued(d)
                         /\ NoneQueued(d)' <=> NoneQueued(d)
    BY DEF EndQueued, NoneQueued, Ends
  <1>2. ~EndQueued(c) BY DEF EndQueued, NoneQueued
  <1>3. OwnerInv'
    <2> SUFFICES ASSUME NEW d \in Calls
                 PROVE  /\ call'[d].listed <=> call'[d].bc
                        /\ call'[d].refs = B(call'[d].listed) + B(etHold' = d) + B(EndQueued(d)')
                        /\ call'[d].listed => /\ call'[d].refs = 1
                                              /\ call'[d].state \in P!Setup \cup P!Up
                                              /\ call'[d].dlg = "out" => call'[d].state \in P!Setup
                                              /\ call'[d].dlg # "none"
                        /\ etHold' = d => NoneQueued(d)'
                        /\ call'[d].dlg = "none" => told'[d] = "none" /\ NoneQueued(d)'
      BY DEF OwnerInv
    <2>1. CASE d = c
      BY <2>1, <1>1, <1>2, RecordTypes DEF B
    <2>2. CASE d # c
      BY <2>2, <1>1 DEF OwnerInv, B, SameCore
    <2> QED BY <2>1, <2>2
  <1>4. ASSUME NEW i \in DOMAIN events PROVE EndLast(i)' /\ InOrder(i)'
    <2>1. EndLast(i) /\ InOrder(i) /\ events[i].call \in Calls \ {c}
      BY Types DEF StoryInv, NoneQueued
    <2>2. EndLast(i)' BY <2>1 DEF EndLast, SameCore, Ends
    <2>3. InOrder(i)' BY <2>1 DEF InOrder, SameCore, Follows
    <2> QED BY <2>2, <2>3
  <1>5. \A d \in Calls : call'[d].listed => Follows(told'[d], call'[d].state)
    BY RecordTypes DEF StoryInv, SameCore, Follows
  <1> QED BY <1>3, <1>4, <1>5 DEF StoryInv, Follows

\* The end of a call, listed or only just dialled for a REFER.
LEMMA CloseStory ==
    ASSUME TypeOK, OwnerInv, StoryInv, NEW c \in Calls, call[c].listed \/ call[c] = NoCall,
           ~call'[c].listed, ~call'[c].bc, call'[c].dlg = "gone",
           \A d \in Calls \ {c} : SameCore(call'[d], call[d]),
           \/ call'[c].refs = 0 /\ lost' = lost \cup {c} /\ events' = events
           \/ /\ call'[c].refs = 1 /\ lost' = lost
              /\ \E s \in P!Over : events' = Append(events, [call |-> c, what |-> s]),
           UNCHANGED <<told, etHold>>, et' = "idle" => etHold = None
    PROVE  OwnerInv' /\ StoryInv'
  <1>t. /\ events \in Seq(Event) /\ DOMAIN events = 1 .. Len(events) /\ Len(events) \in Nat
        /\ \A i \in DOMAIN events : /\ events[i].call \in Calls
                                    /\ events[i].what \in P!CallStates \cup Infos
        /\ told[c] \in P!CallStates \cup {"none"} /\ call[c].state \in P!CallStates \cup {"none"}
    BY Types
  <1>q. /\ etHold # c /\ ~EndQueued(c)
        /\ \A s \in P!Over :
              /\ Follows(told[c], s)
              /\ \A i \in DOMAIN events : events[i].call = c /\ events[i].what \in P!CallStates
                    => Follows(events[i].what, s)
    <2>1. CASE call[c].listed
      <3>1. etHold # c /\ ~EndQueued(c) BY <2>1, Types DEF OwnerInv, B
      <3>2. ASSUME NEW s \in P!Over
            PROVE  /\ Follows(told[c], s)
                   /\ \A i \in DOMAIN events : events[i].call = c /\ events[i].what \in P!CallStates
                         => Follows(events[i].what, s)
        <4>1. Follows(call[c].state, s) /\ s \in P!CallStates
          BY <2>1, FollowsSteps DEF OwnerInv
        <4>2. Follows(told[c], s)
          BY <2>1, <4>1, <1>t, FollowsTrans DEF StoryInv
        <4>3. ASSUME NEW i \in DOMAIN events, events[i].call = c, events[i].what \in P!CallStates
              PROVE  Follows(events[i].what, s)
          <5>1. Follows(events[i].what, call[c].state)
            BY <2>1, <4>3 DEF StoryInv, InOrder
          <5> QED BY <4>1, <4>3, <5>1, <1>t, FollowsTrans
        <4> QED BY <4>2, <4>3
      <3> QED BY <3>1, <3>2
    <2>2. CASE call[c] = NoCall
      <3>1. call[c].dlg = "none" /\ call[c].refs = 0 /\ ~call[c].listed
        BY <2>2, RecordTypes DEF NoCall
      <3>2. NoneQueued(c) /\ told[c] = "none" BY <3>1 DEF OwnerInv
      <3>3. ~EndQueued(c) BY <3>2 DEF EndQueued, NoneQueued
      <3>4. etHold # c BY <3>1, <3>3 DEF OwnerInv, B
      <3> QED BY <3>2, <3>3, <3>4, FollowsSteps DEF NoneQueued
    <2> QED BY <2>1, <2>2
  <1>1. CASE call'[c].refs = 0 /\ lost' = lost \cup {c} /\ events' = events
    <2>1. \A d \in Calls : /\ EndQueued(d)' <=> EndQueued(d)
                           /\ NoneQueued(d)' <=> NoneQueued(d)
      BY <1>1 DEF EndQueued, NoneQueued, Ends
    <2>2. OwnerInv'
      <3> SUFFICES ASSUME NEW d \in Calls
                   PROVE  /\ call'[d].listed <=> call'[d].bc
                          /\ call'[d].refs = B(call'[d].listed) + B(etHold' = d) + B(EndQueued(d)')
                          /\ call'[d].listed => /\ call'[d].refs = 1
                                                /\ call'[d].state \in P!Setup \cup P!Up
                                                /\ call'[d].dlg = "out" => call'[d].state \in P!Setup
                                                /\ call'[d].dlg # "none"
                          /\ etHold' = d => NoneQueued(d)'
                          /\ call'[d].dlg = "none" => told'[d] = "none" /\ NoneQueued(d)'
        BY DEF OwnerInv
      <3>1. CASE d = c BY <3>1, <1>1, <1>q, <2>1 DEF B
      <3>2. CASE d # c BY <3>2, <2>1 DEF OwnerInv, B, SameCore
      <3> QED BY <3>1, <3>2
    <2>3. ASSUME NEW i \in DOMAIN events PROVE EndLast(i)' /\ InOrder(i)'
      <3>1. EndLast(i) /\ InOrder(i) /\ events[i].call \in Calls
        BY <1>t DEF StoryInv
      <3>2. EndLast(i)' BY <1>1, <3>1 DEF EndLast, SameCore, Ends
      <3>3. InOrder(i)' BY <1>1, <3>1 DEF InOrder, SameCore, Follows
      <3> QED BY <3>2, <3>3
    <2>4. \A d \in Calls : call'[d].listed => Follows(told'[d], call'[d].state)
      BY DEF StoryInv, SameCore, Follows
    <2> QED BY <1>1, <2>2, <2>3, <2>4 DEF StoryInv, Follows
  <1>2. ASSUME NEW s \in P!Over, call'[c].refs = 1, lost' = lost,
               events' = Append(events, [call |-> c, what |-> s])
        PROVE  OwnerInv' /\ StoryInv'
    <2> DEFINE e == [call |-> c, what |-> s]
    <2>1. e \in Event /\ e.call = c /\ e.what = s /\ Ends(e) /\ s \in P!CallStates
      BY FollowsSteps DEF Event, Ends
    <2>2. /\ DOMAIN events' = 1 .. Len(events) + 1
          /\ \A i \in DOMAIN events : events'[i] = events[i]
          /\ events'[Len(events) + 1] = e
      BY <1>2, <2>1, <1>t, AppendAt
    <2>3. \A d \in Calls : /\ EndQueued(d)' <=> EndQueued(d) \/ d = c
                           /\ d # c => (NoneQueued(d)' <=> NoneQueued(d))
      <3>1. \A d \in Calls : EndQueued(d)' <=> EndQueued(d) \/ d = c
        BY <2>1, <2>2, <1>t DEF EndQueued, Ends
      <3>2. \A d \in Calls : d # c => (NoneQueued(d)' <=> NoneQueued(d))
        BY <2>1, <2>2, <1>t DEF NoneQueued
      <3> QED BY <3>1, <3>2
    <2>4. OwnerInv'
      <3> SUFFICES ASSUME NEW d \in Calls
                   PROVE  /\ call'[d].listed <=> call'[d].bc
                          /\ call'[d].refs = B(call'[d].listed) + B(etHold' = d) + B(EndQueued(d)')
                          /\ call'[d].listed => /\ call'[d].refs = 1
                                                /\ call'[d].state \in P!Setup \cup P!Up
                                                /\ call'[d].dlg = "out" => call'[d].state \in P!Setup
                                                /\ call'[d].dlg # "none"
                          /\ etHold' = d => NoneQueued(d)'
                          /\ call'[d].dlg = "none" => told'[d] = "none" /\ NoneQueued(d)'
        BY DEF OwnerInv
      <3>1. CASE d = c BY <3>1, <1>2, <1>q, <2>3 DEF B
      <3>2. CASE d # c BY <3>2, <2>3 DEF OwnerInv, B, SameCore
      <3> QED BY <3>1, <3>2
    <2>5. ASSUME NEW i \in DOMAIN events' PROVE EndLast(i)' /\ InOrder(i)'
      <3>1. CASE i \in DOMAIN events
        <4>1. events'[i] = events[i] /\ EndLast(i) /\ InOrder(i) /\ events[i].call \in Calls
          BY <3>1, <2>2, <1>t DEF StoryInv
        <4>2. EndLast(i)'
          <5>1. Ends(events[i]) => events[i].call # c
            BY <3>1, <1>q DEF EndQueued
          <5>2. Ends(events[i]) => \A k \in DOMAIN events' : k > i => events'[k].call # events[i].call
            BY <4>1, <5>1, <2>1, <2>2, <1>t DEF EndLast
          <5>3. \/ call'[events[i].call].listed \/ events[i].call \in lost
                \/ \E k \in DOMAIN events' : /\ k >= i /\ events'[k].call = events[i].call
                                             /\ Ends(events'[k])
            <6>1. CASE events[i].call = c
              BY <3>1, <6>1, <2>1, <2>2, <1>t
            <6>2. CASE events[i].call # c
              BY <4>1, <6>2, <2>2, <1>t DEF EndLast, SameCore
            <6> QED BY <6>1, <6>2
          <5> QED BY <1>2, <4>1, <5>2, <5>3 DEF EndLast, Ends
        <4>3. InOrder(i)'
          <5>1. CASE events[i].call = c
            BY <3>1, <4>1, <5>1, <1>q, <2>1, <2>2, <1>t DEF InOrder, Follows
          <5>2. CASE events[i].call # c
            BY <4>1, <5>2, <2>1, <2>2, <1>t DEF InOrder, SameCore, Follows
          <5> QED BY <5>1, <5>2
        <4> QED BY <4>2, <4>3
      <3>2. CASE i = Len(events) + 1
        <4>1. events'[i] = e /\ \A k \in DOMAIN events' : ~(k > i)
          BY <3>2, <2>2, <1>t
        <4>2. EndLast(i)'
          BY <4>1, <3>2, <2>1, <2>2, <1>t DEF EndLast, Ends
        <4>3. InOrder(i)'
          BY <4>1, <1>q, <2>1 DEF InOrder, Follows
        <4> QED BY <4>2, <4>3
      <3> QED BY <3>1, <3>2, <2>2, <1>t
    <2>6. \A d \in Calls : call'[d].listed => Follows(told'[d], call'[d].state)
      BY DEF StoryInv, SameCore, Follows
    <2> QED BY <2>4, <2>5, <2>6 DEF StoryInv, Follows
  <1> QED BY <1>1, <1>2

\* The event thread takes the oldest event: the terminal one brings the wrapper.
LEMMA DeliverStory ==
    ASSUME TypeOK, OwnerInv, StoryInv, Deliver
    PROVE  /\ OwnerInv' /\ StoryInv'
           /\ 1 \in DOMAIN events /\ Head(events) = events[1]
           /\ events' \in Seq(Event) /\ Len(events') <= QueueMax
  <1>t. /\ events \in Seq(Event) /\ DOMAIN events = 1 .. Len(events) /\ Len(events) \in Nat
        /\ told \in [Calls -> P!CallStates \cup {"none"}]
        /\ \A i \in DOMAIN events : /\ events[i].call \in Calls
                                    /\ events[i].what \in P!CallStates \cup Infos
    BY Types
  <1>e. PICK e \in Event, c \in Calls : e = Head(events) /\ c = e.call
    BY <1>t, TailAt DEF Deliver
  <1>1. /\ et = "idle" /\ events # <<>> /\ events' = Tail(events) /\ et' = "callback"
        /\ etHold' = IF e.what \in P!Over THEN c ELSE None
        /\ told' = IF e.what \in Infos THEN told ELSE [told EXCEPT ![c] = e.what]
        /\ UNCHANGED <<call, lost>>
    BY <1>e DEF Deliver
  <1>2. /\ Len(events) \in Nat /\ DOMAIN events = 1 .. Len(events) /\ events' \in Seq(Event)
        /\ Len(events') = Len(events) - 1 /\ DOMAIN events' = 1 .. Len(events) - 1
        /\ \A i \in DOMAIN events' : i + 1 \in DOMAIN events /\ events'[i] = events[i + 1]
        /\ Head(events) = events[1] /\ 1 \in DOMAIN events
        /\ \A i \in DOMAIN events : i # 1 => i - 1 \in DOMAIN events' /\ events'[i - 1] = events[i]
    BY <1>1, <1>t, TailAt
  <1>3. /\ c \in Calls /\ e.what \in P!CallStates \cup Infos /\ EndLast(1) /\ InOrder(1)
        /\ etHold = None /\ e = events[1] /\ e.call = c
    BY <1>e, <1>1, <1>2, <1>t DEF StoryInv, OwnerInv
  <1>4. /\ \A d \in Calls \ {c} : told'[d] = told[d]
        /\ e.what \in P!CallStates => told'[c] = e.what
        /\ e.what \in Infos => told'[c] = told[c]
    BY <1>1, <1>3, <1>t, InfosApart
  <1>5. Ends(e) => NoneQueued(c)' /\ EndQueued(c) /\ ~EndQueued(c)'
    <2>1. Ends(e) => NoneQueued(c)'
      <3>1. \A i \in DOMAIN events' : i + 1 > 1 BY <1>2
      <3> QED BY <3>1, <1>2, <1>3 DEF EndLast, NoneQueued
    <2>2. Ends(e) => EndQueued(c)
      BY <1>2, <1>3 DEF EndQueued
    <2> QED BY <2>1, <2>2 DEF NoneQueued, EndQueued
  <1>6. \A d \in Calls : /\ NoneQueued(d) => NoneQueued(d)' /\ d # c
                         /\ ~(Ends(e) /\ d = c) => (EndQueued(d)' <=> EndQueued(d))
    <2>1. \A d \in Calls : NoneQueued(d) => NoneQueued(d)' /\ d # c
      BY <1>2, <1>3 DEF NoneQueued
    <2>2. ASSUME NEW d \in Calls, ~(Ends(e) /\ d = c) PROVE EndQueued(d)' <=> EndQueued(d)
      <3>1. EndQueued(d)' => EndQueued(d)
        BY <1>2 DEF EndQueued, Ends
      <3>2. ASSUME NEW i \in DOMAIN events, events[i].call = d, Ends(events[i]) PROVE EndQueued(d)'
        <4>1. i # 1 BY <1>3, <2>2, <3>2
        <4>2. i - 1 \in DOMAIN events' /\ events'[i - 1] = events[i] BY <4>1, <1>2
        <4> QED BY <3>2, <4>2 DEF EndQueued, Ends
      <3> QED BY <3>1, <3>2 DEF EndQueued
    <2> QED BY <2>1, <2>2
  <1>7. OwnerInv'
    <2> SUFFICES ASSUME NEW d \in Calls
                 PROVE  /\ call'[d].listed <=> call'[d].bc
                        /\ call'[d].refs = B(call'[d].listed) + B(etHold' = d) + B(EndQueued(d)')
                        /\ call'[d].listed => /\ call'[d].refs = 1
                                              /\ call'[d].state \in P!Setup \cup P!Up
                                              /\ call'[d].dlg = "out" => call'[d].state \in P!Setup
                                              /\ call'[d].dlg # "none"
                        /\ etHold' = d => NoneQueued(d)'
                        /\ call'[d].dlg = "none" => told'[d] = "none" /\ NoneQueued(d)'
      BY <1>1 DEF OwnerInv
    <2>1. CASE d = c /\ Ends(e)
      <3>1. etHold' = d /\ EndQueued(d) /\ ~EndQueued(d)' /\ NoneQueued(d)' /\ etHold # d
        BY <2>1, <1>1, <1>3, <1>5 DEF Ends
      <3>2. ~call[d].listed /\ call[d].refs = 1
        BY <3>1 DEF OwnerInv, B
      <3>3. call[d].dlg # "none"
        BY <2>1, <1>6 DEF OwnerInv
      <3> QED BY <1>1, <3>1, <3>2, <3>3 DEF OwnerInv, B
    <2>2. CASE ~(d = c /\ Ends(e))
      <3>1. etHold' # d BY <2>2, <1>1 DEF Ends
      <3> QED BY <2>2, <3>1, <1>1, <1>3, <1>4, <1>6 DEF OwnerInv, B
    <2> QED BY <2>1, <2>2
  <1>8. ASSUME NEW i \in DOMAIN events' PROVE EndLast(i)' /\ InOrder(i)'
    <2>1. /\ i + 1 \in DOMAIN events /\ events'[i] = events[i + 1] /\ i \in Nat /\ i + 1 > 1
          /\ EndLast(i + 1) /\ InOrder(i + 1) /\ events[i + 1].call \in Calls
      BY <1>2, <1>t DEF StoryInv
    <2>2. \A k \in DOMAIN events' : k > i =>
              k + 1 \in DOMAIN events /\ k + 1 > i + 1 /\ events'[k] = events[k + 1]
      BY <1>2, <2>1
    <2>3. \A k \in DOMAIN events : k >= i + 1 =>
              k - 1 \in DOMAIN events' /\ k - 1 >= i /\ events'[k - 1] = events[k]
      BY <1>2, <2>1
    <2>4. EndLast(i)'
      <3>1. Ends(events'[i]) => \A k \in DOMAIN events' : k > i => events'[k].call # events'[i].call
        BY <2>1, <2>2 DEF EndLast
      <3>2. \/ call[events[i + 1].call].listed \/ events[i + 1].call \in lost
            \/ \E k \in DOMAIN events' : /\ k >= i /\ events'[k].call = events[i + 1].call
                                         /\ Ends(events'[k])
        BY <2>1, <2>3 DEF EndLast
      <3> QED BY <2>1, <3>1, <3>2, <1>1 DEF EndLast, Ends
    <2>5. InOrder(i)'
      <3> SUFFICES ASSUME events[i + 1].what \in P!CallStates PROVE InOrder(i)'
        BY <2>1 DEF InOrder
      <3>1. Follows(told'[events[i + 1].call], events[i + 1].what)
        <4>1. CASE events[i + 1].call = c /\ e.what \in P!CallStates
          BY <4>1, <2>1, <1>3, <1>4 DEF InOrder
        <4>2. CASE ~(events[i + 1].call = c /\ e.what \in P!CallStates)
          BY <4>2, <2>1, <1>3, <1>4 DEF InOrder
        <4> QED BY <4>1, <4>2
      <3> QED BY <2>1, <2>2, <3>1, <1>1 DEF InOrder, Follows
    <2> QED BY <2>4, <2>5
  <1>9. \A d \in Calls : call'[d].listed => Follows(told'[d], call'[d].state)
    <2>1. CASE e.what \in P!CallStates
      BY <2>1, <1>1, <1>3, <1>4 DEF StoryInv, InOrder
    <2>2. CASE e.what \notin P!CallStates
      BY <2>2, <1>1, <1>3, <1>4 DEF StoryInv
    <2> QED BY <2>1, <2>2
  <1>10. Len(events') <= QueueMax
    BY <1>2 DEF TypeOK
  <1> QED BY <1>2, <1>7, <1>8, <1>9, <1>10 DEF StoryInv, Follows

-----------------------------------------------------------------------------
(* One lemma per party.                                                    *)

\* An event posted, or dropped by a full queue, keeps the queue typed and within its limit.
LEMMA PostType ==
    ASSUME TypeOK, NEW c \in Calls, NEW what \in P!CallStates \cup Infos,
           Post(c, what) \/ events' = events
    PROVE  events' \in Seq(Event) /\ Len(events') <= QueueMax
  <1>1. [call |-> c, what |-> what] \in Event BY DEF Event
  <1>2. events \in Seq(Event) /\ Len(events) <= QueueMax /\ Len(events) \in Nat
    BY DEF TypeOK
  <1> QED BY <1>1, <1>2, AppendAt DEF Post

\* So does the terminal event of a call.
LEMMA CloseType ==
    ASSUME TypeOK, NEW c \in Calls,
           \/ events' = events
           \/ /\ ~(Len(events) >= QueueMax)
              /\ \E s \in P!Over : events' = Append(events, [call |-> c, what |-> s])
    PROVE  events' \in Seq(Event) /\ Len(events') <= QueueMax
  <1>1. \A s \in P!Over : [call |-> c, what |-> s] \in Event BY FollowsSteps DEF Event
  <1>2. events \in Seq(Event) /\ Len(events) <= QueueMax /\ Len(events) \in Nat
    BY DEF TypeOK
  <1>3. ASSUME NEW s \in P!Over, ~(Len(events) >= QueueMax),
               events' = Append(events, [call |-> c, what |-> s])
        PROVE  events' \in Seq(Event) /\ Len(events') <= QueueMax
    BY <1>1, <1>2, <1>3, AppendAt
  <1> QED BY <1>2, <1>3

\* What the re thread leaves of the dispatch queue when it takes a function.
LEMMA WorkTail ==
    ASSUME NEW w \in Seq(Item), w # <<>>
    PROVE  /\ Tail(w) \in Seq(Item) /\ Len(Tail(w)) = Len(w) - 1 /\ Len(w) \in Nat
           /\ Head(w) = w[1] /\ Head(w) \in Item /\ 1 \in DOMAIN w
           /\ \A i \in DOMAIN Tail(w) : i + 1 \in DOMAIN w /\ Tail(w)[i] = w[i + 1] /\ i + 1 # 1
  OBVIOUS

\* A step of the re thread leaves the application and the event thread alone, or
\* takes one function off the dispatch queue.
Ran == Run(SyncCalls \cup AsyncCalls \cup {"invite"}) /\ UNCHANGED <<etHold, wild>>

\* What the application and the event thread rely on.
AppOK ==
    /\ et \in {"idle", "callback", "blocked"} /\ etHold \in Calls \cup {None}
    /\ work \in Seq(Item) /\ Len(work) <= WorkMax
    /\ handle \in [Calls -> {"no", "pending", "yes", "over"}]
    /\ told \in [Calls -> P!CallStates \cup {"none"}] /\ wild \subseteq {"async", "sync"}
    /\ et = "idle" => etHold = None
    /\ WaitInv /\ SyncOnLive

\* A function runs: one waiting caller less, and no handle is lost.
LEMMA RunWait ==
    ASSUME CallInv, Run(SyncCalls \cup AsyncCalls \cup {"invite"}), etHold' = etHold,
           Threads = {"callback"} =>
             \A d \in Calls : /\ handle[d] = "yes" => handle'[d] = "yes"
                              /\ handle'[d] # "pending"
                              /\ lost' = {} /\ handle'[d] = "yes" => call'[d].refs > 0
    PROVE  /\ WaitInv' /\ et' \in {"idle", "callback", "blocked"} /\ (et' = "idle" => etHold' = None)
           /\ work' \in Seq(Item) /\ Len(work') <= WorkMax
           /\ Item1 \in Item /\ Item1.op \in SyncCalls \cup AsyncCalls \cup {"invite"}
           /\ Item1.op # "invite" => Item1.call \in Calls
           /\ Threads = {"callback"} =>
                 Item1.by = "callback" /\ (Item1.op \in SyncCalls => handle[Item1.call] = "yes")
  <1>1. AppOK
    BY DEF CallInv, AppOK, TypeOK, OwnerInv
  <1>2. /\ work # <<>> /\ work' = Tail(work)
        /\ et' = IF Item1.by = "callback" /\ Item1.op \notin AsyncCalls THEN "callback" ELSE et
    BY DEF Run
  <1>3. /\ work' \in Seq(Item) /\ Len(work') = Len(work) - 1 /\ Len(work) \in Nat
        /\ Item1 = work[1] /\ 1 \in DOMAIN work /\ Item1 \in Item
        /\ \A i \in DOMAIN work' : /\ i + 1 \in DOMAIN work /\ work'[i] = work[i + 1] /\ i + 1 # 1
                                   /\ work[i + 1] \in Item
    BY <1>1, <1>2, WorkTail DEF AppOK, Item1
  <1>4. \A w \in Item : /\ w.op \in SyncCalls \cup AsyncCalls \cup {"invite"}
                        /\ w.op # "invite" => w.call \in Calls
    BY DEF Item
  <1>5. SyncCalls \cap AsyncCalls = {} /\ "invite" \notin SyncCalls
    BY DEF SyncCalls, AsyncCalls
  <1>6. ASSUME Threads = {"callback"}, NEW i \in DOMAIN work'
        PROVE  /\ work'[i].by = "callback"
               /\ work'[i].op \notin AsyncCalls =>
                     /\ et' = "blocked"
                     /\ \A k \in DOMAIN work' : work'[k].op \notin AsyncCalls => k = i
               /\ work'[i].op \in SyncCalls => handle'[work'[i].call] = "yes"
    <2>1. work'[i].op \notin AsyncCalls => et = "blocked" /\ work[1].op \in AsyncCalls
      BY <1>1, <1>3, <1>6 DEF AppOK, WaitInv
    <2>2. work'[i].op \notin AsyncCalls => et' = "blocked"
      BY <1>2, <1>3, <2>1
    <2>3. i \in Nat /\ \A k \in DOMAIN work' : k \in Nat
      BY <1>3
    <2>4. \A k \in DOMAIN work' : work'[i].op \notin AsyncCalls /\ work'[k].op \notin AsyncCalls
              => k + 1 = i + 1
      BY <1>1, <1>3, <1>6 DEF AppOK, WaitInv
    <2>5. work'[i].op \notin AsyncCalls =>
              \A k \in DOMAIN work' : work'[k].op \notin AsyncCalls => k = i
      BY <2>3, <2>4
    <2>6. work[i + 1].by = "callback"
          /\ (work[i + 1].op \in SyncCalls => handle[work[i + 1].call] = "yes")
      BY <1>1, <1>3, <1>6 DEF AppOK, WaitInv
    <2>7. work'[i].op \in SyncCalls => handle'[work'[i].call] = "yes"
      <3>1. work'[i] = work[i + 1] /\ work[i + 1] \in Item BY <1>3
      <3>2. work[i + 1].op \in SyncCalls => work[i + 1].call \in Calls
        BY <3>1, <1>4, <1>5
      <3> QED BY <1>6, <2>6, <3>1, <3>2
    <2> QED BY <1>3, <2>2, <2>5, <2>6, <2>7
  <1>7. WaitInv'
    <2>1. Threads = {"callback"} =>
            \A d \in Calls : /\ handle'[d] # "pending"
                             /\ lost' = {} /\ handle'[d] = "yes" => call'[d].refs > 0
      OBVIOUS
    <2> QED BY <1>6, <2>1 DEF WaitInv
  <1>8. Threads = {"callback"} =>
           Item1.by = "callback" /\ (Item1.op \in SyncCalls => handle[Item1.call] = "yes")
    BY <1>1, <1>3 DEF AppOK, WaitInv
  <1>9. et' \in {"idle", "callback", "blocked"} /\ (et' = "idle" => etHold' = None)
    BY <1>1, <1>2 DEF AppOK
  <1>10. Len(work') <= WorkMax BY <1>1, <1>3 DEF AppOK
  <1> QED BY <1>3, <1>4, <1>7, <1>8, <1>9, <1>10

\* What the application relies on survives a step of the re thread that frees no
\* wrapper, or frees one with a dropped event.
LEMMA AppFrame ==
    ASSUME CallInv, UNCHANGED appVars \/ (Ran /\ UNCHANGED <<handle, told>>), lost \subseteq lost',
           \A d \in Calls : call[d].refs > 0 => call'[d].refs > 0 \/ lost' # {}
    PROVE  AppOK' /\ UNCHANGED <<told, etHold>>
  <1>1. AppOK
    BY DEF CallInv, AppOK, TypeOK, OwnerInv
  <1>2. CASE UNCHANGED appVars
    BY <1>1, <1>2 DEF AppOK, WaitInv, SyncOnLive
  <1>3. CASE Ran /\ UNCHANGED <<handle, told>>
    <2>1. /\ Run(SyncCalls \cup AsyncCalls \cup {"invite"})
          /\ UNCHANGED <<etHold, handle, told, wild>>
      BY <1>3 DEF Ran
    <2>2. Threads = {"callback"} =>
             \A d \in Calls : /\ handle[d] = "yes" => handle'[d] = "yes"
                              /\ handle'[d] # "pending"
                              /\ lost' = {} /\ handle'[d] = "yes" => call'[d].refs > 0
      BY <1>1, <2>1 DEF AppOK, WaitInv
    <2>3. /\ WaitInv' /\ et' \in {"idle", "callback", "blocked"} /\ (et' = "idle" => etHold' = None)
          /\ work' \in Seq(Item) /\ Len(work') <= WorkMax
      BY <2>1, <2>2, RunWait
    <2>4. SyncOnLive' BY <1>1, <2>1 DEF AppOK, SyncOnLive
    <2> QED BY <1>1, <2>1, <2>3, <2>4 DEF AppOK
  <1> QED BY <1>2, <1>3

\* The core and the debts of a wrapper give what the invariants say of it.
LEMMA ReStep ==
    ASSUME CallInv, XferOwed, AppOK',
           call' \in [Calls -> CallRecord], OwnerInv', StoryInv',
           events' \in Seq(Event), Len(events') <= QueueMax,
           lost' \subseteq Calls, setupTmr' \in BOOLEAN, sweep' \subseteq sweep,
           \A d \in sweep' : SameCore(call'[d], call[d]) /\ SameDebts(call'[d], call[d]),
           \A d \in Calls : \/ call'[d].bc => (call'[d].xfer_pending <=> call'[d].notifier = "owed")
                            \/ SameCore(call'[d], call[d]) /\ SameDebts(call'[d], call[d])
    PROVE  CallInv' /\ XferOwed'
  <1>1. WaitInv' /\ SyncOnLive'
    BY DEF AppOK
  <1>2. SweepInv'
    BY DEF CallInv, TypeOK, SweepInv, SameCore, SameDebts
  <1>3. TypeOK'
    BY DEF CallInv, TypeOK, AppOK
  <1>4. XferOwed'
    BY DEF XferOwed, SameCore, SameDebts
  <1> QED BY <1>1, <1>2, <1>3, <1>4 DEF CallInv

\* BEVENT_CALL_INCOMING
LEMMA IncomingStep ==
    ASSUME CallInv, XferOwed, NEW c \in Calls, Incoming(c)
    PROVE  CallInv' /\ XferOwed' /\ (SetupWatched => SetupWatched')
  <1>1. /\ sweep = {} /\ call[c] = NoCall /\ call \in [Calls -> CallRecord]
        /\ UNCHANGED <<setupTmr, sweep, lost, appVars>>
        /\ TypeOK /\ OwnerInv /\ StoryInv /\ (et = "idle" => etHold = None)
        /\ setupTmr \in BOOLEAN /\ lost \subseteq Calls
    BY DEF Incoming, ReIdle, CallInv, TypeOK, OwnerInv
  <1>0. call[c].dlg = "none" /\ call[c].refs = 0 /\ ~call[c].listed
    BY <1>1, RecordTypes DEF NoCall
  <1>2. CASE Len(events) >= QueueMax
    <2>1. call' = [call EXCEPT ![c] = Freed] /\ events' = events
      BY <1>2 DEF Incoming
    <2>2. /\ call' \in [Calls -> CallRecord] /\ call'[c] = Freed
          /\ \A d \in Calls \ {c} : call'[d] = call[d]
      BY <2>1, <1>1, RecordTypes
    <2>3. NoneQueued(c) /\ etHold # c
      <3>1. NoneQueued(c) BY <1>0, <1>1 DEF OwnerInv
      <3>2. ~EndQueued(c) BY <3>1 DEF NoneQueued, EndQueued
      <3> QED BY <3>1, <3>2, <1>0, <1>1 DEF OwnerInv, B
    <2>4. OwnerInv' /\ StoryInv'
      BY <1>0, <1>1, <2>1, <2>2, <2>3, FreedStory DEF SameCore
    <2>5. events' \in Seq(Event) /\ Len(events') <= QueueMax
      BY <2>1, <1>1 DEF TypeOK
    <2>a. AppOK' BY <1>0, <1>1, <2>2, AppFrame
    <2>6. CallInv' /\ XferOwed'
      BY <1>0, <1>1, <2>a, <2>2, <2>4, <2>5, ReStep, RecordTypes DEF SameCore, SameDebts
    <2> QED BY <1>1, <2>2, <2>6, RecordTypes DEF SetupWatched
  <1>3. CASE ~(Len(events) >= QueueMax)
    <2> DEFINE r == WrapNew("in", "RINGING")
    <2>1. call' = [call EXCEPT ![c] = r] /\ Post(c, "RINGING")
      BY <1>3 DEF Incoming
    <2>2. /\ r \in CallRecord /\ r.listed /\ r.bc /\ r.refs = 1 /\ r.dlg = "in" /\ r.state = "RINGING"
          /\ ~r.xfer_pending /\ r.notifier = "none"
      BY WrapType, FollowsSteps
    <2> HIDE DEF r
    <2>3. /\ call' \in [Calls -> CallRecord] /\ call'[c] = r
          /\ \A d \in Calls \ {c} : call'[d] = call[d]
      BY <2>1, <2>2, <1>1
    <2>4. OwnerInv' /\ StoryInv'
      <3>1. told'[c] = "none" /\ \A d \in Calls : told'[d] = told[d]
        BY <1>0, <1>1 DEF OwnerInv
      <3> QED BY <3>1, <1>1, <2>1, <2>2, <2>3, NewStory, FollowsSteps DEF SameCore
    <2>5. events' \in Seq(Event) /\ Len(events') <= QueueMax
      BY <2>1, <1>1, PostType, FollowsSteps
    <2>a. AppOK' BY <1>0, <1>1, <2>2, <2>3, AppFrame
    <2>6. CallInv' /\ XferOwed'
      BY <1>0, <1>1, <2>a, <2>2, <2>3, <2>4, <2>5, ReStep DEF SameCore, SameDebts
    <2> QED BY <1>1, <2>2, <2>3, <2>6 DEF SetupWatched
  <1> QED BY <1>2, <1>3

\* A listed call goes on: RINGING, ANSWERED, ESTABLISHED, HOLD, RESUME, and the events
\* that leave its state alone.
LEMMA GoesOn ==
    ASSUME CallInv, XferOwed, NEW c \in Calls, NEW what \in Infos \cup P!Setup \cup P!Up,
           sweep = {}, call[c].listed,
           call' \in [Calls -> CallRecord],
           call'[c].listed, call'[c].bc, call'[c].refs = call[c].refs,
           call'[c].state \in P!Setup \cup P!Up, call'[c].dlg # "none",
           call'[c].dlg = "out" => call'[c].state \in P!Setup,
           Follows(call[c].state, call'[c].state),
           what \in Infos \/ what = call'[c].state,
           call'[c].xfer_pending <=> call'[c].notifier = "owed",
           call'[c].state = "CALLING" => call[c].state = "CALLING"
                                         /\ call'[c].setup_start = call[c].setup_start,
           \A d \in Calls \ {c} : SameCore(call'[d], call[d]) /\ SameDebts(call'[d], call[d]),
           Post(c, what), UNCHANGED <<setupTmr, sweep, lost>>,
           UNCHANGED appVars \/ (Ran /\ UNCHANGED <<handle, told>>)
    PROVE  CallInv' /\ XferOwed' /\ (SetupWatched => SetupWatched')
  <1>1. /\ TypeOK /\ OwnerInv /\ StoryInv /\ (et = "idle" => etHold = None)
        /\ setupTmr \in BOOLEAN /\ lost \subseteq Calls /\ call[c].refs = 1
    BY DEF CallInv, TypeOK, OwnerInv
  <1>a. AppOK' /\ UNCHANGED <<told, etHold>> /\ (et' = "idle" => etHold = None)
    <2>1. AppOK' /\ UNCHANGED <<told, etHold>>
      BY <1>1, AppFrame DEF SameCore
    <2> QED BY <2>1 DEF AppOK
  <1>2. OwnerInv' /\ StoryInv'
    BY <1>1, <1>a, PostStory
  <1>3. events' \in Seq(Event) /\ Len(events') <= QueueMax
    BY <1>1, PostType, FollowsSteps
  <1>4. CallInv' /\ XferOwed'
    BY <1>1, <1>a, <1>2, <1>3, ReStep DEF SameCore, SameDebts
  <1>5. SetupWatched => SetupWatched'
    <2> SUFFICES ASSUME SetupWatched, NEW d \in Calls, call'[d].listed, call'[d].state = "CALLING"
                 PROVE  call'[d].setup_start # "off" /\ (setupTmr' \/ d \in sweep')
      BY DEF SetupWatched
    <2>1. call[d].listed /\ call[d].state = "CALLING" /\ call'[d].setup_start = call[d].setup_start
      BY DEF SameCore, SameDebts
    <2> QED BY <2>1 DEF SetupWatched
  <1> QED BY <1>4, <1>5

\* A call ends: baresip closes it, or the SDK hangs it up; a call made for a REFER
\* may end before it was ever seen.
LEMMA EndsStep ==
    ASSUME CallInv, XferOwed, NEW c \in Calls, NEW calls \in [Calls -> CallRecord], NEW cause,
           NEW last \in {"classified", "ENDED"}, Close(calls, c, cause, last),
           calls[c].refs = 1, call[c].listed \/ call[c] = NoCall,
           \A d \in Calls \ {c} :
              /\ SameCore(calls[d], call[d]) /\ calls[d].setup_start = call[d].setup_start
              /\ \/ calls[d].bc => (calls[d].xfer_pending <=> calls[d].notifier = "owed")
                 \/ SameDebts(calls[d], call[d]),
           sweep' = sweep \ {c}, setupTmr' = setupTmr,
           sweep = {} \/ \A d \in Calls \ {c} : SameDebts(calls[d], call[d]),
           UNCHANGED appVars \/ (Ran /\ UNCHANGED <<handle, told>>)
    PROVE  CallInv' /\ XferOwed' /\ (SetupWatched => SetupWatched')
  <1>1. /\ TypeOK /\ OwnerInv /\ StoryInv /\ SweepInv
        /\ setupTmr \in BOOLEAN /\ lost \subseteq Calls /\ sweep \subseteq Calls
    BY DEF CallInv, TypeOK
  <1>2. /\ call' \in [Calls -> CallRecord]
        /\ \A d \in Calls \ {c} : SameCore(call'[d], calls[d]) /\ SameDebts(call'[d], calls[d])
        /\ ~call'[c].listed /\ ~call'[c].bc /\ call'[c].dlg = "gone"
        /\ \/ /\ Len(events) >= QueueMax
              /\ call'[c].refs = 0 /\ lost' = lost \cup {c} /\ events' = events
           \/ /\ ~(Len(events) >= QueueMax)
              /\ call'[c].refs = 1 /\ lost' = lost
              /\ \E s \in P!Over : events' = Append(events, [call |-> c, what |-> s])
    <2>1. calls \in [Calls -> CallRecord] /\ calls[c].refs = 1 /\ Close(calls, c, cause, last)
      OBVIOUS
    <2> QED BY ONLY <2>1, CloseFacts, c \in Calls, last \in {"classified", "ENDED"}
  <1>3. \A d \in Calls \ {c} : SameCore(call'[d], call[d]) /\ call'[d].setup_start = call[d].setup_start
    BY <1>2 DEF SameCore, SameDebts
  <1>4. lost \subseteq lost' /\ lost' \subseteq Calls
        /\ \A d \in Calls : call[d].refs > 0 => call'[d].refs > 0 \/ lost' # {}
    <2>1. lost \subseteq lost' /\ lost' \subseteq Calls /\ (call'[c].refs > 0 \/ lost' # {})
      BY <1>1, <1>2
    <2> QED BY <1>3, <2>1 DEF SameCore
  <1>5. AppOK' /\ UNCHANGED <<told, etHold>> /\ (et' = "idle" => etHold = None)
    <2>1. AppOK' /\ UNCHANGED <<told, etHold>>
      BY <1>4, AppFrame
    <2> QED BY <2>1 DEF AppOK
  <1>6. OwnerInv' /\ StoryInv'
    BY <1>1, <1>2, <1>3, <1>5, CloseStory
  <1>7. events' \in Seq(Event) /\ Len(events') <= QueueMax
    BY <1>1, <1>2, CloseType
  <1>8. \A d \in sweep' : SameCore(call'[d], call[d]) /\ SameDebts(call'[d], call[d])
    BY <1>1, <1>2, <1>3 DEF SameDebts
  <1>9. \A d \in Calls : \/ call'[d].bc => (call'[d].xfer_pending <=> call'[d].notifier = "owed")
                         \/ SameCore(call'[d], call[d]) /\ SameDebts(call'[d], call[d])
    <2> SUFFICES ASSUME NEW d \in Calls
                 PROVE  \/ call'[d].bc => (call'[d].xfer_pending <=> call'[d].notifier = "owed")
                        \/ SameCore(call'[d], call[d]) /\ SameDebts(call'[d], call[d])
      OBVIOUS
    <2>1. CASE d = c BY <2>1, <1>2
    <2>2. CASE d # c /\ SameDebts(calls[d], call[d])
      BY <2>2, <1>2, <1>3 DEF SameDebts
    <2>3. CASE d # c /\ (calls[d].bc => (calls[d].xfer_pending <=> calls[d].notifier = "owed"))
      BY <2>3, <1>2 DEF SameDebts, SameCore
    <2> QED BY <2>1, <2>2, <2>3
  <1>10. CallInv' /\ XferOwed'
    BY <1>1, <1>2, <1>4, <1>5, <1>6, <1>7, <1>8, <1>9, ReStep
  <1>11. SetupWatched => SetupWatched'
    BY <1>1, <1>2, <1>3 DEF SetupWatched, SameCore
  <1> QED BY <1>10, <1>11

\* Every event of baresip.
LEMMA BeventStep == CallInv /\ XferOwed /\ Bevent
                        => CallInv' /\ XferOwed' /\ (SetupWatched => SetupWatched')
  <1> SUFFICES ASSUME CallInv, XferOwed, Bevent
               PROVE  CallInv' /\ XferOwed' /\ (SetupWatched => SetupWatched')
    OBVIOUS
  <1>0. /\ call \in [Calls -> CallRecord] /\ TypeOK
        /\ \A c \in Calls : call[c].listed =>
              /\ call[c].bc /\ call[c].refs = 1 /\ call[c].state \in P!Setup \cup P!Up
              /\ call[c].dlg = "out" => call[c].state \in P!Setup
              /\ call[c].dlg # "none"
              /\ call[c].xfer_pending <=> call[c].notifier = "owed"
    BY DEF CallInv, TypeOK, OwnerInv, XferOwed
  <1>1. ASSUME NEW c \in Calls, Ringing(c)
        PROVE  CallInv' /\ XferOwed' /\ (SetupWatched => SetupWatched')
    <2>1. /\ sweep = {} /\ call[c].listed /\ call[c].bc /\ call[c].dlg = "out"
          /\ call' = [call EXCEPT ![c].state = "RINGING"] /\ Post(c, "RINGING")
          /\ UNCHANGED <<setupTmr, sweep, lost, appVars>>
      BY <1>1 DEF Ringing, ReIdle, Found
    <2>2. /\ call' \in [Calls -> CallRecord] /\ call'[c].state = "RINGING"
          /\ call'[c].listed /\ call'[c].bc /\ call'[c].refs = call[c].refs
          /\ call'[c].dlg = call[c].dlg
          /\ call'[c].xfer_pending = call[c].xfer_pending /\ call'[c].notifier = call[c].notifier
          /\ \A d \in Calls \ {c} : call'[d] = call[d]
      BY <2>1, <1>0, FollowsSteps DEF CallRecord
    <2> QED BY <2>1, <2>2, <1>0, GoesOn, FollowsSteps DEF SameCore, SameDebts
  <1>2. ASSUME NEW c \in Calls, Answered(c)
        PROVE  CallInv' /\ XferOwed' /\ (SetupWatched => SetupWatched')
    <2>1. /\ sweep = {} /\ call[c].listed /\ call[c].bc
          /\ UNCHANGED <<setupTmr, sweep, lost, appVars>> /\ Post(c, "ESTABLISHED")
      BY <1>2 DEF Answered, ReIdle, Found
    <2>2. PICK dlg \in {"answered", "up"} : call' = Established(call, c, dlg)
      BY <1>2 DEF Answered
    <2>3. /\ call' \in [Calls -> CallRecord] /\ call'[c].state = "ESTABLISHED"
          /\ call'[c].listed /\ call'[c].bc /\ call'[c].refs = call[c].refs
          /\ call'[c].dlg = dlg
          /\ call'[c].xfer_pending = call[c].xfer_pending
          /\ call'[c].notifier = "owed" <=> call[c].notifier = "owed"
          /\ \A d \in Calls \ {c} : SameCore(call'[d], call[d]) /\ SameDebts(call'[d], call[d])
      BY <2>1, <2>2, <1>0, EstablishedFacts
    <2> QED BY <2>1, <2>3, <1>0, GoesOn, FollowsSteps
  <1>3. ASSUME NEW c \in Calls, NEW cause \in Causes, Closed(c, cause)
        PROVE  CallInv' /\ XferOwed' /\ (SetupWatched => SetupWatched')
    <2>1. /\ sweep = {} /\ call[c].listed /\ Close(call, c, cause, "classified")
          /\ UNCHANGED <<setupTmr, sweep, appVars>>
      BY <1>3 DEF Closed, ReIdle, Found
    <2> QED BY <2>1, <1>0, EndsStep DEF SameCore, SameDebts
  <1>4. ASSUME NEW c \in Rich, Incoming(c)
        PROVE  CallInv' /\ XferOwed' /\ (SetupWatched => SetupWatched')
    BY <1>4, IncomingStep
  <1>5. ASSUME NEW c \in Rich, PeerHold(c) \/ PeerResume(c)
        PROVE  CallInv' /\ XferOwed' /\ (SetupWatched => SetupWatched')
    <2>1. /\ sweep = {} /\ call[c].listed /\ call[c].bc /\ call[c].dlg = "up" /\ c \in Calls
          /\ UNCHANGED <<setupTmr, sweep, lost, appVars>>
      BY <1>5 DEF PeerHold, PeerResume, ReIdle, Found
    <2>2. PICK s \in P!Up : /\ Follows(call[c].state, s) /\ s # "CALLING"
                            /\ call' = [call EXCEPT ![c].state = s] /\ Post(c, s)
      <3>1. CASE PeerHold(c) BY <3>1, FollowsSteps DEF PeerHold
      <3>2. CASE PeerResume(c) BY <3>2, FollowsSteps DEF PeerResume
      <3> QED BY <1>5, <3>1, <3>2
    <2>3. /\ call' \in [Calls -> CallRecord] /\ call'[c].state = s
          /\ call'[c].listed /\ call'[c].bc /\ call'[c].refs = call[c].refs
          /\ call'[c].dlg = call[c].dlg
          /\ call'[c].xfer_pending = call[c].xfer_pending /\ call'[c].notifier = call[c].notifier
          /\ \A d \in Calls \ {c} : call'[d] = call[d]
      BY <2>1, <2>2, <1>0, FollowsSteps DEF CallRecord
    <2> QED BY <2>1, <2>2, <2>3, <1>0, GoesOn, FollowsSteps DEF SameCore, SameDebts
  <1>6. ASSUME NEW c \in Rich, Refer(c)
        PROVE  CallInv' /\ XferOwed' /\ (SetupWatched => SetupWatched')
    <2>1. /\ sweep = {} /\ call[c].listed /\ call[c].bc /\ c \in Calls /\ "refer" \in Infos
          /\ call' = [call EXCEPT ![c].xfer_pending = TRUE, ![c].notifier = "owed"]
          /\ UNCHANGED <<setupTmr, sweep, lost, appVars>> /\ Post(c, "refer")
      BY <1>6 DEF Refer, ReIdle, Found
    <2>2. /\ call' \in [Calls -> CallRecord] /\ SameCore(call'[c], call[c])
          /\ call'[c].setup_start = call[c].setup_start
          /\ call'[c].xfer_pending /\ call'[c].notifier = "owed"
          /\ \A d \in Calls \ {c} : call'[d] = call[d]
      <3> DEFINE f == [call EXCEPT ![c].xfer_pending = TRUE]
      <3>1. /\ f \in [Calls -> CallRecord] /\ f[c] = [call[c] EXCEPT !.xfer_pending = TRUE]
            /\ \A d \in Calls \ {c} : f[d] = call[d]
        <4>0. call[c] \in CallRecord BY <2>1, <1>0
        <4>1. [call[c] EXCEPT !.xfer_pending = TRUE] \in CallRecord
          BY ONLY <4>0 DEF CallRecord
        <4> QED BY <4>1, <2>1, <1>0, SetAt
      <3>a. call[c] \in CallRecord BY <2>1, <1>0
      <3>b. /\ SameCore(f[c], call[c])
            /\ f[c].setup_start = call[c].setup_start /\ f[c].xfer_pending
        BY <3>a, <3>1 DEF CallRecord, SameCore
      <3>2. call' = [f EXCEPT ![c].notifier = "owed"] BY <2>1
      <3> HIDE DEF f
      <3>3. /\ call' \in [Calls -> CallRecord] /\ call'[c] = [f[c] EXCEPT !.notifier = "owed"]
            /\ \A d \in Calls \ {c} : call'[d] = call[d]
        <4>0. f[c] \in CallRecord BY <2>1, <3>1
        <4>1. [f[c] EXCEPT !.notifier = "owed"] \in CallRecord
          BY ONLY <4>0 DEF CallRecord
        <4> QED BY <4>1, <2>1, <3>1, <3>2, SetAt
      <3>4. f[c] \in CallRecord BY <2>1, <3>1
      <3>5. /\ SameCore(call'[c], f[c]) /\ call'[c].setup_start = f[c].setup_start
            /\ call'[c].xfer_pending = f[c].xfer_pending /\ call'[c].notifier = "owed"
        BY <3>3, <3>4 DEF CallRecord, SameCore
      <3> QED BY <3>b, <3>3, <3>5 DEF SameCore
    <2>3. Follows(call[c].state, call'[c].state) BY <2>1, <2>2 DEF Follows, SameCore
    <2>4. /\ call'[c].listed /\ call'[c].bc /\ call'[c].refs = call[c].refs
          /\ call'[c].state = call[c].state /\ call'[c].dlg = call[c].dlg
          /\ call'[c].state \in P!Setup \cup P!Up /\ call'[c].dlg # "none"
          /\ call'[c].dlg = "out" => call'[c].state \in P!Setup
          /\ call'[c].xfer_pending <=> call'[c].notifier = "owed"
      BY <2>1, <2>2, <1>0 DEF SameCore
    <2>5. \A d \in Calls \ {c} : SameCore(call'[d], call[d]) /\ SameDebts(call'[d], call[d])
      BY <2>2 DEF SameCore, SameDebts
    <2> QED BY <2>1, <2>2, <2>3, <2>4, <2>5, GoesOn
  <1>7. ASSUME NEW c \in Rich, NEW info \in Infos \ {"sdp", "refer"}, Inform(c, info)
        PROVE  CallInv' /\ XferOwed' /\ (SetupWatched => SetupWatched')
    <2>1. /\ sweep = {} /\ call[c].listed /\ call[c].bc /\ c \in Calls /\ call' = call
          /\ UNCHANGED <<setupTmr, sweep, lost, appVars>> /\ Post(c, info)
      BY <1>7 DEF Inform, ReIdle, Found
    <2>2. Follows(call[c].state, call'[c].state) BY <2>1 DEF Follows
    <2> QED BY <2>1, <2>2, <1>0, GoesOn DEF SameCore, SameDebts
  <1>8. ASSUME NEW c \in Rich, NEW side \in {"local", "remote"}, Sdp(c, side)
        PROVE  CallInv' /\ XferOwed' /\ (SetupWatched => SetupWatched')
    <2> DEFINE l == call[c].local_sdp \/ side = "local"
               r == call[c].remote_sdp \/ side = "remote"
               f == [call EXCEPT ![c].local_sdp = l /\ ~r]
    <2>1. /\ sweep = {} /\ call[c].listed /\ call[c].bc /\ c \in Calls /\ "sdp" \in Infos
          /\ call' = [f EXCEPT ![c].remote_sdp = r /\ ~l]
          /\ IF l /\ r THEN Post(c, "sdp") ELSE UNCHANGED events
          /\ UNCHANGED <<setupTmr, sweep, lost, appVars>>
      BY <1>8 DEF Sdp, ReIdle, Found
    <2>2. /\ call' \in [Calls -> CallRecord]
          /\ \A d \in Calls : SameCore(call'[d], call[d]) /\ SameDebts(call'[d], call[d])
      <3>1. f \in [Calls -> CallRecord]
            /\ \A d \in Calls : SameCore(f[d], call[d]) /\ SameDebts(f[d], call[d])
        BY <2>1, <1>0 DEF CallRecord, SameCore, SameDebts
      <3> HIDE DEF f
      <3>2. /\ call' \in [Calls -> CallRecord] /\ call'[c] = [f[c] EXCEPT !.remote_sdp = r /\ ~l]
            /\ \A d \in Calls \ {c} : call'[d] = f[d]
        <4>1. [f[c] EXCEPT !.remote_sdp = r /\ ~l] \in CallRecord
          <5>1. f[c] \in CallRecord BY <2>1, <3>1
          <5>2. (r /\ ~l) \in BOOLEAN OBVIOUS
          <5> HIDE DEF l, r
          <5> QED BY <5>1, <5>2 DEF CallRecord
        <4>2. c \in Calls /\ call' = [f EXCEPT ![c] = [f[c] EXCEPT !.remote_sdp = r /\ ~l]]
          BY <2>1
        <4> HIDE DEF l, r
        <4> QED BY <4>1, <4>2, <3>1, SetAt
      <3>3. f[c] \in CallRecord BY <2>1, <3>1
      <3> HIDE DEF l, r
      <3>4. SameCore(call'[c], f[c]) /\ SameDebts(call'[c], f[c])
        BY <3>2, <3>3 DEF CallRecord, SameCore, SameDebts
      <3>5. ASSUME NEW d \in Calls PROVE SameCore(call'[d], call[d]) /\ SameDebts(call'[d], call[d])
        <4>1. SameCore(call'[d], f[d]) /\ SameDebts(call'[d], f[d])
          BY <3>2, <3>4 DEF SameCore, SameDebts
        <4> QED BY <3>1, <4>1 DEF SameCore, SameDebts
      <3> QED BY <3>2, <3>5
    <2>3. Follows(call[c].state, call'[c].state) BY <2>1, <2>2 DEF Follows, SameCore
    <2>4. CASE l /\ r
      <3>1. Post(c, "sdp") BY <2>1, <2>4
      <3> HIDE DEF l, r, f
      <3> QED BY <2>1, <2>2, <2>3, <3>1, <1>0, GoesOn DEF SameCore, SameDebts
    <2>5. CASE ~(l /\ r)
      <3>1. events' = events BY <2>1, <2>5
      <3> HIDE DEF l, r, f
      <3>2. OwnerInv' /\ StoryInv'
        BY <2>1, <2>2, <3>1, QuietStory DEF CallInv, OwnerInv
      <3>3. AppOK' BY <2>1, <2>2, AppFrame DEF SameCore
      <3>4. CallInv' /\ XferOwed'
        BY <2>1, <2>2, <3>1, <3>2, <3>3, ReStep DEF CallInv, TypeOK
      <3>5. SetupWatched => SetupWatched'
        BY <2>1, <2>2 DEF SetupWatched, SameCore, SameDebts
      <3> QED BY <3>4, <3>5
    <2> QED BY <2>4, <2>5
  <1> QED BY <1>1, <1>2, <1>3, <1>4, <1>5, <1>6, <1>7, <1>8 DEF Bevent

\* A step that leaves the queue and the core of every wrapper alone.
LEMMA QuietStep ==
    ASSUME CallInv, XferOwed, call' \in [Calls -> CallRecord],
           \A d \in Calls : SameCore(call'[d], call[d]) /\ call'[d].setup_start = call[d].setup_start,
           \A d \in Calls : \/ call'[d].bc => (call'[d].xfer_pending <=> call'[d].notifier = "owed")
                            \/ SameDebts(call'[d], call[d]),
           sweep = {} \/ \A d \in Calls : SameDebts(call'[d], call[d]),
           UNCHANGED <<events, lost, setupTmr, sweep>>,
           UNCHANGED appVars \/ (Ran /\ UNCHANGED <<handle, told>>)
    PROVE  CallInv' /\ XferOwed' /\ (SetupWatched => SetupWatched')
  <1>1. /\ TypeOK /\ OwnerInv /\ StoryInv /\ events \in Seq(Event) /\ Len(events) <= QueueMax
        /\ setupTmr \in BOOLEAN /\ lost \subseteq Calls /\ sweep \subseteq Calls
    BY DEF CallInv, TypeOK
  <1>2. AppOK' /\ UNCHANGED <<told, etHold>> /\ (et' = "idle" => etHold = None)
    <2>1. AppOK' /\ UNCHANGED <<told, etHold>>
      BY AppFrame DEF SameCore
    <2> QED BY <2>1 DEF AppOK
  <1>3. OwnerInv' /\ StoryInv'
    BY <1>1, <1>2, QuietStory
  <1>4. \A d \in sweep' : SameCore(call'[d], call[d]) /\ SameDebts(call'[d], call[d])
    BY <1>1
  <1>5. CallInv' /\ XferOwed'
    BY <1>1, <1>2, <1>3, <1>4, ReStep
  <1>6. SetupWatched => SetupWatched'
    BY DEF SetupWatched, SameCore
  <1> QED BY <1>5, <1>6

\* Calls fit in the watchdog's snapshot.
Fits == IsFiniteSet(Calls) /\ Cardinality(Calls) <= Snapshot

\* The deadline of a dial, the sweep of the watchdog and what the sweep does.
LEMMA WatchdogStep == CallInv /\ XferOwed /\ Watchdog
                        => CallInv' /\ XferOwed' /\ (Fits /\ SetupWatched => SetupWatched')
  <1> SUFFICES ASSUME CallInv, XferOwed, Watchdog
               PROVE  CallInv' /\ XferOwed' /\ (Fits /\ SetupWatched => SetupWatched')
    OBVIOUS
  <1>0. /\ call \in [Calls -> CallRecord] /\ TypeOK /\ OwnerInv /\ StoryInv /\ SweepInv
        /\ events \in Seq(Event) /\ Len(events) <= QueueMax
        /\ setupTmr \in BOOLEAN /\ lost \subseteq Calls /\ sweep \subseteq Calls
        /\ (et = "idle" => etHold = None)
    BY DEF CallInv, TypeOK, OwnerInv
  <1>1. ASSUME NEW c \in Calls, DeadlinePasses(c)
        PROVE  CallInv' /\ XferOwed' /\ (SetupWatched => SetupWatched')
    <2>1. /\ call[c].setup_start = "running" /\ call' = [call EXCEPT ![c].setup_start = "late"]
          /\ UNCHANGED <<setupTmr, sweep, events, lost, appVars>>
      BY <1>1 DEF DeadlinePasses
    <2>2. call[c] \in CallRecord BY <1>0
    <2>3. [call[c] EXCEPT !.setup_start = "late"] \in CallRecord
      BY ONLY <2>2 DEF CallRecord
    <2>4. /\ call' \in [Calls -> CallRecord] /\ call'[c] = [call[c] EXCEPT !.setup_start = "late"]
          /\ \A d \in Calls \ {c} : call'[d] = call[d]
      BY <2>1, <2>3, <1>0, SetAt
    <2>5. /\ SameCore(call'[c], call[c]) /\ call'[c].setup_start = "late"
          /\ call'[c].xfer_pending = call[c].xfer_pending /\ call'[c].notifier = call[c].notifier
      BY <2>2, <2>4 DEF CallRecord, SameCore
    <2>6. \A d \in Calls : SameCore(call'[d], call[d]) /\ (d # c => SameDebts(call'[d], call[d]))
      BY <2>4, <2>5 DEF SameCore, SameDebts
    <2>7. c \notin sweep BY <2>1, <1>0 DEF SweepInv
    <2>8. AppOK' BY <2>1, <2>6, AppFrame DEF SameCore
    <2>9. OwnerInv' /\ StoryInv' BY <2>1, <2>6, <1>0, QuietStory
    <2>10. call'[c].bc => (call'[c].xfer_pending <=> call'[c].notifier = "owed")
      BY <2>5 DEF XferOwed, SameCore
    <2>11. CallInv' /\ XferOwed'
      BY <1>0, <2>1, <2>4, <2>6, <2>7, <2>8, <2>9, <2>10, ReStep
    <2>12. SetupWatched => SetupWatched'
      BY <2>1, <2>5, <2>6 DEF SetupWatched, SameCore, SameDebts
    <2> QED BY <2>11, <2>12
  <1>2. ASSUME NEW c \in Calls, SetupCancel(c)
        PROVE  CallInv' /\ XferOwed' /\ (SetupWatched => SetupWatched')
    <2> DEFINE calls == [call EXCEPT ![c].setup_start = "off"]
    <2>1. /\ c \in sweep /\ sweep' = sweep \ {c} /\ UNCHANGED <<setupTmr, appVars>>
      BY <1>2 DEF SetupCancel
    <2>2. PICK cause \in {"408", "user"} : Close(calls, c, cause, "classified")
      BY <1>2 DEF SetupCancel
    <2>3. call[c] \in CallRecord /\ call[c].listed /\ call[c].refs = 1
      BY <2>1, <1>0 DEF SweepInv, OwnerInv
    <2>4. [call[c] EXCEPT !.setup_start = "off"] \in CallRecord
      BY ONLY <2>3 DEF CallRecord
    <2>5. /\ calls \in [Calls -> CallRecord] /\ calls[c] = [call[c] EXCEPT !.setup_start = "off"]
          /\ \A d \in Calls \ {c} : calls[d] = call[d]
      BY <2>4, <1>0, SetAt
    <2>6. calls[c].refs = 1 BY <2>3, <2>5 DEF CallRecord
    <2> HIDE DEF calls
    <2>7. \A d \in Calls \ {c} : SameCore(calls[d], call[d]) /\ SameDebts(calls[d], call[d])
                                 /\ calls[d].setup_start = call[d].setup_start
      BY <2>5 DEF SameCore, SameDebts
    <2> QED BY <2>1, <2>2, <2>3, <2>5, <2>6, <2>7, EndsStep
  <1>3. ASSUME SetupWatch
        PROVE  CallInv' /\ XferOwed' /\ (Fits /\ SetupWatched => SetupWatched')
    <2>1. PICK snap \in SUBSET Overdue :
             /\ Cardinality(snap) <= Snapshot /\ (snap # Overdue => Cardinality(snap) = Snapshot)
             /\ sweep' = snap
      BY <1>3 DEF SetupWatch
    <2>2. /\ sweep = {} /\ setupTmr /\ UNCHANGED <<events, lost, appVars>>
          /\ call' = [c \in Calls |-> IF c \in Visited /\ call[c].state # "CALLING"
                                      THEN [call[c] EXCEPT !.setup_start = "off"]
                                      ELSE call[c]]
          /\ setupTmr' = \E c \in Visited : /\ call[c].state = "CALLING"
                                            /\ call[c].setup_start = "running"
      BY <1>3 DEF SetupWatch, ReIdle
    <2>3. ASSUME NEW d \in Calls
          PROVE  /\ call'[d] \in CallRecord /\ SameCore(call'[d], call[d])
                 /\ call'[d].xfer_pending = call[d].xfer_pending
                 /\ call'[d].notifier = call[d].notifier
                 /\ call[d].listed /\ call[d].state = "CALLING" => call'[d] = call[d]
      <3>1. call[d] \in CallRecord BY <1>0
      <3>2. call'[d] \in {call[d], [call[d] EXCEPT !.setup_start = "off"]}
            /\ (call[d].state = "CALLING" => call'[d] = call[d])
        BY <2>2
      <3>3. [call[d] EXCEPT !.setup_start = "off"] \in CallRecord
        BY ONLY <3>1 DEF CallRecord
      <3>4. LET r == [call[d] EXCEPT !.setup_start = "off"] IN
               /\ SameCore(r, call[d]) /\ r.xfer_pending = call[d].xfer_pending
               /\ r.notifier = call[d].notifier
        BY ONLY <3>1 DEF CallRecord, SameCore
      <3> QED BY <3>1, <3>2, <3>3, <3>4 DEF SameCore
    <2>4. call' \in [Calls -> CallRecord] BY <2>2, <2>3
    <2>5. AppOK' BY <2>2, <2>3, AppFrame DEF SameCore
    <2>6. OwnerInv' /\ StoryInv' BY <2>2, <2>3, <1>0, QuietStory
    <2>7. setupTmr' \in BOOLEAN BY <2>2
    <2>8. SweepInv' /\ sweep' \subseteq Calls
      BY <2>1, <2>3 DEF SweepInv, Overdue, Visited, SameCore
    <2>9. TypeOK' BY <1>0, <2>2, <2>4, <2>5, <2>7, <2>8 DEF TypeOK, AppOK
    <2>10. CallInv' BY <2>5, <2>6, <2>8, <2>9 DEF CallInv, AppOK
    <2>11. XferOwed' BY <2>3 DEF XferOwed, SameCore
    <2>12. ASSUME Fits, SetupWatched PROVE SetupWatched'
      <3>1. snap = Overdue
        <4> SUFFICES ASSUME snap # Overdue PROVE FALSE OBVIOUS
        <4>1. PICK o \in Overdue : o \notin snap OBVIOUS
        <4>2. Calls \ {o} \in SUBSET Calls /\ snap \subseteq Calls \ {o} /\ o \in Calls
          BY <4>1 DEF Overdue, Visited
        <4>3. IsFiniteSet(Calls \ {o}) /\ Cardinality(Calls \ {o}) = Cardinality(Calls) - 1
          BY <4>2, <2>12, FS_RemoveElement DEF Fits
        <4>4. Cardinality(snap) <= Cardinality(Calls \ {o})
          BY <4>2, <4>3, FS_Subset
        <4>5. Cardinality(Calls) \in Nat BY <2>12, FS_CardinalityType DEF Fits
        <4> QED BY <2>1, <4>3, <4>4, <4>5, <2>12 DEF Fits
      <3> SUFFICES ASSUME NEW d \in Calls, call'[d].listed, call'[d].state = "CALLING"
                   PROVE  call'[d].setup_start # "off" /\ (setupTmr' \/ d \in sweep')
        BY DEF SetupWatched
      <3>2. call[d].listed /\ call[d].state = "CALLING" /\ call'[d] = call[d]
        BY <2>3 DEF SameCore
      <3>3. call[d].setup_start # "off" BY <2>12, <3>2 DEF SetupWatched
      <3>4. call[d].setup_start \in {"off", "running", "late"} BY <1>0 DEF CallRecord
      <3>5. CASE call[d].setup_start = "running"
        BY <3>2, <3>5, <2>2 DEF Visited
      <3>6. CASE call[d].setup_start = "late"
        BY <3>1, <3>2, <3>6, <2>1 DEF Overdue, Visited
      <3> QED BY <3>2, <3>3, <3>4, <3>5, <3>6
    <2> QED BY <2>10, <2>11, <2>12
  <1> QED BY <1>1, <1>2, <1>3 DEF Watchdog

\* What the functions of the dispatch queue start from.
LEMMA RunFacts ==
    ASSUME CallInv, NEW ops \in SUBSET (SyncCalls \cup AsyncCalls), Run(ops)
    PROVE  /\ Run(SyncCalls \cup AsyncCalls \cup {"invite"}) /\ sweep = {}
           /\ Item1.call \in Calls /\ Item1.op \in ops
  <1>1. work # <<>> /\ Item1.op \in ops /\ sweep = {} /\ work \in Seq(Item)
    BY DEF Run, ReIdle, CallInv, TypeOK
  <1>2. Item1 \in Item BY <1>1, WorkTail DEF Item1
  <1>3. "invite" \notin SyncCalls \cup AsyncCalls BY DEF SyncCalls, AsyncCalls
  <1>4. Item1.call \in Calls BY <1>1, <1>2, <1>3 DEF Item
  <1>5. Run(SyncCalls \cup AsyncCalls \cup {"invite"}) BY DEF Run
  <1> QED BY <1>1, <1>4, <1>5

\* The answer to a REFER.
LEMMA AnswerFacts ==
    ASSUME call \in [Calls -> CallRecord], NEW c \in Calls, NEW n \in {"none", "moved"}
    PROVE  LET f == AnswerRefer(c, n) IN
           /\ f \in [Calls -> CallRecord] /\ \A d \in Calls \ {c} : f[d] = call[d]
           /\ SameCore(f[c], call[c]) /\ f[c].setup_start = call[c].setup_start
           /\ ~f[c].xfer_pending /\ f[c].notifier = n
  <1> DEFINE r1 == [call[c] EXCEPT !.xfer_pending = FALSE]
             r2 == [r1 EXCEPT !.notifier = n]
  <1>1. call[c] \in CallRecord OBVIOUS
  <1>2. /\ r1 \in CallRecord /\ SameCore(r1, call[c]) /\ r1.setup_start = call[c].setup_start
        /\ ~r1.xfer_pending
    BY ONLY <1>1 DEF CallRecord, SameCore
  <1>3. AnswerRefer(c, n) = [call EXCEPT ![c] = r2]
    BY DEF AnswerRefer
  <1> HIDE DEF r1
  <1>4. /\ r2 \in CallRecord /\ SameCore(r2, r1) /\ r2.setup_start = r1.setup_start
        /\ r2.xfer_pending = r1.xfer_pending /\ r2.notifier = n
    BY ONLY <1>2, n \in {"none", "moved"} DEF CallRecord, SameCore
  <1> HIDE DEF r2
  <1>5. /\ AnswerRefer(c, n) \in [Calls -> CallRecord] /\ AnswerRefer(c, n)[c] = r2
        /\ \A d \in Calls \ {c} : AnswerRefer(c, n)[d] = call[d]
    BY <1>3, <1>4, SetAt
  <1> QED BY <1>2, <1>4, <1>5 DEF SameCore

\* A call is dialled, by the application or for a REFER, and its caller is handed
\* the handle.
LEMMA DialStep ==
    ASSUME CallInv, XferOwed, NEW n \in Calls, call[n] = NoCall,
           NEW calls \in [Calls -> CallRecord], NEW r \in CallRecord,
           \A d \in Calls \ {n} :
              /\ SameCore(calls[d], call[d]) /\ calls[d].setup_start = call[d].setup_start
              /\ calls[d].bc => (calls[d].xfer_pending <=> calls[d].notifier = "owed"),
           r.listed, r.bc, r.refs = 1, r.dlg = "out", r.state = "CALLING", ~r.xfer_pending,
           r.notifier = "none", r.setup_start = "running",
           call' = [calls EXCEPT ![n] = r],
           Ran, handle' = Handed(n), told' = ToldDialled(n), setupTmr' = TRUE,
           UNCHANGED <<sweep, events, lost>>
    PROVE  CallInv' /\ XferOwed' /\ (SetupWatched => SetupWatched')
  <1>1. /\ TypeOK /\ OwnerInv /\ StoryInv /\ WaitInv /\ SyncOnLive
        /\ events \in Seq(Event) /\ Len(events) <= QueueMax
        /\ lost \subseteq Calls /\ handle \in [Calls -> {"no", "pending", "yes", "over"}]
        /\ told \in [Calls -> P!CallStates \cup {"none"}] /\ wild \subseteq {"async", "sync"}
        /\ etHold \in Calls \cup {None}
    BY DEF CallInv, TypeOK
  <1>2. /\ Run(SyncCalls \cup AsyncCalls \cup {"invite"}) /\ etHold' = etHold /\ wild' = wild
        /\ sweep = {}
    BY DEF Ran, Run, ReIdle
  <1>3. /\ call' \in [Calls -> CallRecord] /\ call'[n] = r
        /\ \A d \in Calls \ {n} : call'[d] = calls[d]
    BY SetAt
  <1>4. told[n] = "none" /\ told' = [told EXCEPT ![n] = "CALLING"]
    <2>1. call[n].dlg = "none" BY RecordTypes
    <2> QED BY <1>1, <2>1 DEF OwnerInv, ToldDialled
  <1>5. /\ told' \in [Calls -> P!CallStates \cup {"none"}] /\ told'[n] = "CALLING"
        /\ \A d \in Calls \ {n} : told'[d] = told[d]
    BY <1>1, <1>4, FollowsSteps
  <1>6. Threads = {"callback"} => Item1.by = "callback"
    <2>1. work # <<>> /\ work \in Seq(Item) BY <1>1, <1>2 DEF Run, TypeOK
    <2>2. Item1 = work[1] /\ 1 \in DOMAIN work BY <2>1, WorkTail DEF Item1
    <2> QED BY <1>1, <2>2 DEF WaitInv
  <1>7. /\ handle' \in [Calls -> {"no", "pending", "yes", "over"}]
        /\ \A d \in Calls \ {n} : handle'[d] = handle[d]
        /\ Threads = {"callback"} => handle'[n] = "yes"
    BY <1>1, <1>6 DEF Handed
  <1>8. Threads = {"callback"} =>
          \A d \in Calls : /\ handle[d] = "yes" => handle'[d] = "yes"
                           /\ handle'[d] # "pending"
                           /\ lost' = {} /\ handle'[d] = "yes" => call'[d].refs > 0
    <2> SUFFICES ASSUME Threads = {"callback"}, NEW d \in Calls
                 PROVE  /\ handle[d] = "yes" => handle'[d] = "yes"
                        /\ handle'[d] # "pending"
                        /\ lost' = {} /\ handle'[d] = "yes" => call'[d].refs > 0
      OBVIOUS
    <2>1. CASE d = n BY <2>1, <1>3, <1>7
    <2>2. CASE d # n BY <2>2, <1>1, <1>3, <1>7 DEF WaitInv, SameCore
    <2> QED BY <2>1, <2>2
  <1>9. /\ WaitInv' /\ et' \in {"idle", "callback", "blocked"} /\ (et' = "idle" => etHold' = None)
        /\ work' \in Seq(Item) /\ Len(work') <= WorkMax
    BY <1>2, <1>8, RunWait
  <1>10. SyncOnLive' BY <1>1, <1>2 DEF SyncOnLive
  <1>11. AppOK' BY <1>1, <1>2, <1>5, <1>7, <1>9, <1>10 DEF AppOK
  <1>12. OwnerInv' /\ StoryInv'
    BY <1>1, <1>2, <1>3, <1>5, <1>9, NewStory, FollowsSteps
  <1>13. CallInv' /\ XferOwed'
    BY <1>1, <1>2, <1>3, <1>11, <1>12, ReStep
  <1>14. SetupWatched => SetupWatched'
    <2> SUFFICES ASSUME SetupWatched, NEW d \in Calls, call'[d].listed, call'[d].state = "CALLING"
                 PROVE  call'[d].setup_start # "off" /\ (setupTmr' \/ d \in sweep')
      BY DEF SetupWatched
    <2>1. CASE d = n BY <2>1, <1>3
    <2>2. CASE d # n
      <3>1. call[d].listed /\ call[d].state = "CALLING"
            /\ call'[d].setup_start = call[d].setup_start
        BY <2>2, <1>3 DEF SameCore
      <3> QED BY <3>1 DEF SetupWatched
    <2> QED BY <2>1, <2>2
  <1> QED BY <1>13, <1>14

\* Every function of the dispatch queue.
LEMMA DispatchedStep == CallInv /\ XferOwed /\ Dispatched
                          => CallInv' /\ XferOwed' /\ (SetupWatched => SetupWatched')
  <1> SUFFICES ASSUME CallInv, XferOwed, Dispatched
               PROVE  CallInv' /\ XferOwed' /\ (SetupWatched => SetupWatched')
    OBVIOUS
  <1> DEFINE Goal == CallInv' /\ XferOwed' /\ (SetupWatched => SetupWatched')
  <1>0. /\ call \in [Calls -> CallRecord] /\ TypeOK /\ OwnerInv /\ StoryInv /\ WaitInv
        /\ \A c \in Calls : call[c].bc =>
              /\ call[c].listed /\ call[c].refs = 1 /\ call[c].state \in P!Setup \cup P!Up
              /\ call[c].xfer_pending <=> call[c].notifier = "owed"
    BY DEF CallInv, TypeOK, OwnerInv, XferOwed
  <1>s. /\ {"answer"} \in SUBSET (SyncCalls \cup AsyncCalls)
        /\ {"hangup"} \in SUBSET (SyncCalls \cup AsyncCalls)
        /\ {"reject"} \in SUBSET (SyncCalls \cup AsyncCalls)
        /\ {"hold", "resume"} \in SUBSET (SyncCalls \cup AsyncCalls)
        /\ {"xfer_accept"} \in SUBSET (SyncCalls \cup AsyncCalls)
        /\ {"xfer_reject"} \in SUBSET (SyncCalls \cup AsyncCalls)
        /\ {"xfer_accept", "xfer_reject"} \in SUBSET (SyncCalls \cup AsyncCalls)
        /\ SyncCalls \cup AsyncCalls \in SUBSET (SyncCalls \cup AsyncCalls)
    BY DEF SyncCalls, AsyncCalls
  <1>q. ASSUME call' = call, UNCHANGED <<events, lost, setupTmr, sweep>>, Ran,
               UNCHANGED <<handle, told>>
        PROVE  Goal
    BY <1>0, <1>q, QuietStep DEF SameCore, SameDebts
  <1>1. ASSUME RunWild PROVE Goal
    <2>1. /\ Run(SyncCalls \cup AsyncCalls) /\ ~(call[Item1.call].refs > 0)
          /\ wild' = wild \cup {IF Item1.op \in AsyncCalls THEN "async" ELSE "sync"}
          /\ UNCHANGED <<call, setupTmr, sweep, events, lost, etHold, handle, told>>
      BY <1>1 DEF RunWild, OnLive
    <2>2. /\ Run(SyncCalls \cup AsyncCalls \cup {"invite"}) /\ sweep = {} /\ Item1.call \in Calls
          /\ Item1.op \in SyncCalls \cup AsyncCalls
      BY <2>1, <1>s, RunFacts
    <2>3. Threads = {"callback"} =>
            \A d \in Calls : /\ handle[d] = "yes" => handle'[d] = "yes"
                             /\ handle'[d] # "pending"
                             /\ lost' = {} /\ handle'[d] = "yes" => call'[d].refs > 0
      BY <2>1, <1>0 DEF WaitInv
    <2>4. /\ WaitInv' /\ et' \in {"idle", "callback", "blocked"} /\ (et' = "idle" => etHold' = None)
          /\ work' \in Seq(Item) /\ Len(work') <= WorkMax
          /\ Threads = {"callback"} => (Item1.op \in SyncCalls => handle[Item1.call] = "yes")
      BY <2>1, <2>2, <2>3, RunWait
    <2>5. Threads = {"callback"} /\ lost = {} => Item1.op \notin SyncCalls
      BY <2>1, <2>2, <2>4, <1>0 DEF WaitInv
    <2>6. SyncOnLive'
      BY <2>1, <2>2, <2>5 DEF SyncOnLive, CallInv
    <2>7. TypeOK' BY <1>0, <2>1, <2>4 DEF TypeOK
    <2>8. OwnerInv' /\ StoryInv'
      BY <1>0, <2>1, <2>4, QuietStory DEF SameCore
    <2>9. SweepInv' BY <2>1 DEF CallInv, SweepInv
    <2>10. XferOwed' /\ (SetupWatched => SetupWatched')
      BY <2>1 DEF XferOwed, SetupWatched
    <2> QED BY <2>4, <2>6, <2>7, <2>8, <2>9, <2>10 DEF CallInv
  <1>2. ASSUME InviteFails PROVE Goal
    <2>1. Ran /\ UNCHANGED <<call, setupTmr, sweep, events, lost, handle, told>>
      BY <1>2 DEF InviteFails, Ran, Run
    <2> QED BY <2>1, <1>q
  <1>3. ASSUME Answer PROVE Goal
    <2>1. Run({"answer"}) /\ UNCHANGED <<setupTmr, sweep, lost, etHold, handle, told, wild>>
      BY <1>3 DEF Answer
    <2>2. PICK c \in Calls : c = Item1.call /\ sweep = {} /\ Ran
      BY <2>1, <1>s, RunFacts DEF Ran
    <2>3. CASE /\ call[c].bc /\ call' = Established(call, c, "answered")
               /\ Post(c, "ESTABLISHED")
      <3>1. /\ call' \in [Calls -> CallRecord] /\ call'[c].state = "ESTABLISHED"
            /\ call'[c].listed = call[c].listed /\ call'[c].bc = call[c].bc
            /\ call'[c].refs = call[c].refs /\ call'[c].dlg = "answered"
            /\ call'[c].xfer_pending = call[c].xfer_pending
            /\ call'[c].notifier = "owed" <=> call[c].notifier = "owed"
            /\ \A d \in Calls \ {c} : SameCore(call'[d], call[d]) /\ SameDebts(call'[d], call[d])
        <4>1. PICK dlg \in {"answered", "up"} : dlg = "answered" OBVIOUS
        <4>2. call' = Established(call, c, dlg) BY <2>3, <4>1
        <4> QED BY <1>0, <4>1, <4>2, EstablishedFacts
      <3>2. call[c].listed /\ call[c].state \in P!Setup \cup P!Up
            /\ (call[c].xfer_pending <=> call[c].notifier = "owed")
        BY <2>3, <1>0
      <3> QED BY ZenonT(60), <2>1, <2>2, <2>3, <3>1, <3>2, GoesOn, FollowsSteps
    <2>4. CASE UNCHANGED <<call, events>>
      BY <2>1, <2>2, <2>4, <1>q
    <2> QED BY <1>3, <2>2, <2>3, <2>4 DEF Answer
  <1>4. ASSUME Hangup PROVE Goal
    <2>1. Run({"hangup"}) /\ UNCHANGED <<setupTmr, sweep, etHold, handle, told, wild>>
      BY <1>4 DEF Hangup
    <2>2. PICK c \in Calls : c = Item1.call /\ sweep = {} /\ Ran
      BY <2>1, <1>s, RunFacts DEF Ran
    <2>3. CASE call[c].bc
      <3>1. Close(call, c, "user", "ENDED") BY <1>4, <2>2, <2>3 DEF Hangup
      <3> QED BY <2>1, <2>2, <2>3, <3>1, <1>0, EndsStep DEF SameCore, SameDebts
    <2>4. CASE ~call[c].bc
      BY <1>4, <2>1, <2>2, <2>4, <1>q DEF Hangup
    <2> QED BY <2>3, <2>4
  <1>5. ASSUME Reject PROVE Goal
    <2>1. Run({"reject"}) /\ UNCHANGED <<setupTmr, sweep, etHold, handle, told, wild>>
      BY <1>5 DEF Reject
    <2>2. PICK c \in Calls : c = Item1.call /\ sweep = {} /\ Ran
      BY <2>1, <1>s, RunFacts DEF Ran
    <2>3. CASE call[c].bc
      <3>1. PICK cause \in {"user", "4xx"} : Close(call, c, cause, "ENDED")
        BY <1>5, <2>2, <2>3 DEF Reject
      <3> QED BY <2>1, <2>2, <2>3, <3>1, <1>0, EndsStep DEF SameCore, SameDebts
    <2>4. CASE ~call[c].bc
      <3>1. call' = [call EXCEPT ![c].state = "ENDED"] /\ UNCHANGED <<events, lost>>
        BY <1>5, <2>2, <2>4 DEF Reject
      <3>2. call[c] \in CallRecord /\ ~call[c].listed BY <1>0, <2>4 DEF OwnerInv
      <3>3. "ENDED" \in P!CallStates BY DEF P!CallStates, P!Over
      <3>4. LET r == [call[c] EXCEPT !.state = "ENDED"] IN
               r \in CallRecord /\ SameCore(r, call[c]) /\ SameDebts(r, call[c])
               /\ r.setup_start = call[c].setup_start
        BY ONLY <3>2, <3>3 DEF CallRecord, SameCore, SameDebts
      <3>5. /\ call' \in [Calls -> CallRecord] /\ call'[c] = [call[c] EXCEPT !.state = "ENDED"]
            /\ \A d \in Calls \ {c} : call'[d] = call[d]
        BY <1>0, <3>1, <3>4, SetAt
      <3>6. \A d \in Calls : SameCore(call'[d], call[d]) /\ SameDebts(call'[d], call[d])
                             /\ call'[d].setup_start = call[d].setup_start
        BY <3>4, <3>5 DEF SameCore, SameDebts
      <3> QED BY <2>1, <2>2, <3>1, <3>5, <3>6, QuietStep
    <2> QED BY <2>3, <2>4
  <1>6. ASSUME HoldResume PROVE Goal
    <2>1. /\ Run({"hold", "resume"})
          /\ UNCHANGED <<setupTmr, sweep, events, lost, etHold, handle, told, wild>>
      BY <1>6 DEF HoldResume
    <2>2. PICK c \in Calls : c = Item1.call /\ sweep = {} /\ Ran
      BY <2>1, <1>s, RunFacts DEF Ran
    <2>3. CASE call' = call BY <2>1, <2>2, <2>3, <1>q
    <2>4. ASSUME NEW b \in BOOLEAN, call' = [call EXCEPT ![c].local_hold = b] PROVE Goal
      <3>1. call[c] \in CallRecord BY <1>0
      <3>2. LET r == [call[c] EXCEPT !.local_hold = b] IN
               r \in CallRecord /\ SameCore(r, call[c]) /\ SameDebts(r, call[c])
               /\ r.setup_start = call[c].setup_start
        BY ONLY <3>1, b \in BOOLEAN DEF CallRecord, SameCore, SameDebts
      <3>3. /\ call' \in [Calls -> CallRecord] /\ call'[c] = [call[c] EXCEPT !.local_hold = b]
            /\ \A d \in Calls \ {c} : call'[d] = call[d]
        BY <1>0, <2>4, <3>2, SetAt
      <3>4. \A d \in Calls : SameCore(call'[d], call[d]) /\ SameDebts(call'[d], call[d])
                             /\ call'[d].setup_start = call[d].setup_start
        BY <3>2, <3>3 DEF SameCore, SameDebts
      <3> QED BY <2>1, <2>2, <3>3, <3>4, QuietStep
    <2> QED BY <1>6, <2>2, <2>3, <2>4 DEF HoldResume
  <1>7. ASSUME XferRefused PROVE Goal
    <2>1. /\ Run({"xfer_accept", "xfer_reject"})
          /\ UNCHANGED <<call, setupTmr, sweep, events, lost, etHold, handle, told, wild>>
      BY <1>7 DEF XferRefused
    <2>2. Ran BY <2>1, <1>s, RunFacts DEF Ran
    <2> QED BY <2>1, <2>2, <1>q
  <1>8. ASSUME XferAcceptFails \/ XferReject PROVE Goal
    <2>1. PICK op \in {"xfer_accept", "xfer_reject"} :
             /\ Run({op}) /\ Pending /\ call' = AnswerRefer(Item1.call, "none")
             /\ UNCHANGED <<setupTmr, sweep, events, lost, etHold, handle, told, wild>>
      BY <1>8 DEF XferAcceptFails, XferReject
    <2>2. {op} \in SUBSET (SyncCalls \cup AsyncCalls) BY <1>s
    <2>3. PICK c \in Calls : c = Item1.call /\ sweep = {} /\ Ran
      BY <2>1, <2>2, RunFacts DEF Ran
    <2>4. /\ call' \in [Calls -> CallRecord] /\ \A d \in Calls \ {c} : call'[d] = call[d]
          /\ SameCore(call'[c], call[c]) /\ call'[c].setup_start = call[c].setup_start
          /\ ~call'[c].xfer_pending /\ call'[c].notifier = "none"
      BY <2>1, <2>3, <1>0, AnswerFacts
    <2>5. \A d \in Calls : /\ SameCore(call'[d], call[d]) /\ call'[d].setup_start = call[d].setup_start
                           /\ \/ call'[d].bc => (call'[d].xfer_pending <=> call'[d].notifier = "owed")
                              \/ SameDebts(call'[d], call[d])
      BY <2>4 DEF SameCore, SameDebts
    <2> QED BY <2>1, <2>3, <2>4, <2>5, QuietStep
  <1>9. ASSUME NEW n \in Calls, Invite(n) PROVE Goal
    <2> DEFINE r == [Watched(WrapNew("out", "CALLING")) EXCEPT !.local_sdp = (n \in Rich)]
    <2>1. /\ Ran /\ call[n] = NoCall /\ call' = [call EXCEPT ![n] = r]
          /\ setupTmr' = TRUE /\ handle' = Handed(n) /\ told' = ToldDialled(n)
          /\ UNCHANGED <<sweep, events, lost>>
      BY <1>9 DEF Invite, Ran, Run
    <2>2. /\ r \in CallRecord /\ r.listed /\ r.bc /\ r.refs = 1 /\ r.dlg = "out"
          /\ r.state = "CALLING" /\ ~r.xfer_pending /\ r.notifier = "none"
          /\ r.setup_start = "running"
      BY DialledType
    <2> HIDE DEF r
    <2> QED BY <2>1, <2>2, <1>0, DialStep DEF SameCore
  <1>10. ASSUME NEW n \in Calls, XferAccept(n) PROVE Goal
    <2>1. /\ Run({"xfer_accept"}) /\ Pending /\ call[n] = NoCall
          /\ setupTmr' = TRUE /\ handle' = Handed(n) /\ told' = ToldDialled(n)
          /\ UNCHANGED <<sweep, events, lost, etHold, wild>>
      BY <1>10 DEF XferAccept
    <2>2. PICK c \in Calls : c = Item1.call /\ sweep = {} /\ Ran
      BY <2>1, <1>s, RunFacts DEF Ran
    <2> DEFINE r == [Watched(WrapNew("out", "CALLING"))
                        EXCEPT !.local_sdp = (n \in Rich), !.via = c]
               calls == AnswerRefer(c, "moved")
    <2>3. call' = [calls EXCEPT ![n] = r] BY <1>10, <2>2 DEF XferAccept
    <2>4. /\ r \in CallRecord /\ r.listed /\ r.bc /\ r.refs = 1 /\ r.dlg = "out"
          /\ r.state = "CALLING" /\ ~r.xfer_pending /\ r.notifier = "none"
          /\ r.setup_start = "running"
      BY ZenonT(60), DialledType
    <2>5. /\ calls \in [Calls -> CallRecord] /\ \A d \in Calls \ {c} : calls[d] = call[d]
          /\ SameCore(calls[c], call[c]) /\ calls[c].setup_start = call[c].setup_start
          /\ ~calls[c].xfer_pending /\ calls[c].notifier = "moved"
      BY <1>0, AnswerFacts
    <2> HIDE DEF r, calls
    <2>6. \A d \in Calls \ {n} :
              /\ SameCore(calls[d], call[d]) /\ calls[d].setup_start = call[d].setup_start
              /\ calls[d].bc => (calls[d].xfer_pending <=> calls[d].notifier = "owed")
      BY <2>5, <1>0 DEF SameCore
    <2> QED BY <2>1, <2>2, <2>3, <2>4, <2>5, <2>6, DialStep
  <1>11. ASSUME NEW n \in Calls, XferConnectClosed(n) PROVE Goal
    <2>1. /\ Run({"xfer_accept"}) /\ Pending /\ call[n] = NoCall
          /\ UNCHANGED <<setupTmr, sweep, etHold, handle, told, wild>>
      BY <1>11 DEF XferConnectClosed
    <2>2. PICK c \in Calls : c = Item1.call /\ sweep = {} /\ Ran
      BY <2>1, <1>s, RunFacts DEF Ran
    <2> DEFINE r == WrapNew("out", "CALLING")
               f == AnswerRefer(c, "none")
               calls == [f EXCEPT ![n] = r]
    <2>3. Close(calls, n, "user", "classified") BY <1>11, <2>2 DEF XferConnectClosed
    <2>4. r \in CallRecord /\ r.refs = 1 BY WrapType, FollowsSteps
    <2>5. /\ f \in [Calls -> CallRecord] /\ \A d \in Calls \ {c} : f[d] = call[d]
          /\ SameCore(f[c], call[c]) /\ f[c].setup_start = call[c].setup_start
          /\ ~f[c].xfer_pending /\ f[c].notifier = "none"
      BY <1>0, AnswerFacts
    <2> HIDE DEF r, f
    <2>6. /\ calls \in [Calls -> CallRecord] /\ calls[n] = r
          /\ \A d \in Calls \ {n} : calls[d] = f[d]
      BY <2>4, <2>5, SetAt
    <2> HIDE DEF calls
    <2>7. \A d \in Calls \ {n} :
              /\ SameCore(calls[d], call[d]) /\ calls[d].setup_start = call[d].setup_start
              /\ calls[d].bc => (calls[d].xfer_pending <=> calls[d].notifier = "owed")
      BY <2>5, <2>6, <1>0 DEF SameCore
    <2> QED BY <2>1, <2>2, <2>3, <2>4, <2>6, <2>7, EndsStep
  <1> QED BY <1>1, <1>2, <1>3, <1>4, <1>5, <1>6, <1>7, <1>8, <1>9, <1>10, <1>11 DEF Dispatched

\* The application and the event thread leave alone what the re thread owns.
LEMMA Elsewhere ==
    ASSUME CallInv, XferOwed, UNCHANGED <<setupTmr, sweep, lost>>,
           call' \in [Calls -> CallRecord],
           \A d \in Calls : call'[d] = call[d] \/ (~call[d].listed /\ call'[d] = Freed),
           events' \in Seq(Event), Len(events') <= QueueMax, OwnerInv', StoryInv', AppOK'
    PROVE  CallInv' /\ XferOwed' /\ (SetupWatched => SetupWatched')
  <1>1. /\ SweepInv /\ sweep \subseteq Calls /\ lost \subseteq Calls /\ setupTmr \in BOOLEAN
    BY DEF CallInv, TypeOK
  <1>2. SweepInv' BY <1>1 DEF SweepInv
  <1>3. TypeOK' BY <1>1 DEF TypeOK, AppOK
  <1>4. XferOwed' /\ (SetupWatched => SetupWatched')
    BY RecordTypes DEF XferOwed, SetupWatched
  <1> QED BY <1>2, <1>3, <1>4 DEF CallInv, AppOK

\* What a function put on the dispatch queue does to it.
LEMMA WorkAppend ==
    ASSUME NEW w \in Seq(Item), NEW item \in Item
    PROVE  /\ Append(w, item) \in Seq(Item) /\ Len(Append(w, item)) = Len(w) + 1 /\ Len(w) \in Nat
           /\ DOMAIN Append(w, item) = 1 .. Len(w) + 1 /\ DOMAIN w = 1 .. Len(w)
           /\ Append(w, item)[Len(w) + 1] = item
           /\ \A i \in DOMAIN w : Append(w, item)[i] = w[i]
  OBVIOUS

\* A function is queued; a callback that waits for it keeps the event thread.
LEMMA AskStep ==
    ASSUME CallInv, XferOwed, NEW op, NEW c, NEW by \in Threads, Ask(op, c, by),
           (op = "invite" /\ c = None) \/ (op \in ApiCalls \ {"invite"} /\ c \in Calls)
    PROVE  CallInv' /\ XferOwed' /\ (SetupWatched => SetupWatched')
  <1> DEFINE item == [op |-> op, call |-> c, by |-> by]
  <1>1. /\ TypeOK /\ OwnerInv /\ StoryInv /\ WaitInv /\ SyncOnLive
        /\ call \in [Calls -> CallRecord] /\ events \in Seq(Event) /\ Len(events) <= QueueMax
        /\ work \in Seq(Item) /\ AppOK
    BY DEF CallInv, TypeOK, AppOK, OwnerInv
  <1>2. /\ Len(work) < WorkMax /\ work' = Append(work, item)
        /\ by = "callback" => et = "callback"
        /\ op # "invite" => handle[c] = "yes"
        /\ et' = IF by = "callback" /\ op \notin AsyncCalls THEN "blocked" ELSE et
        /\ UNCHANGED <<call, setupTmr, sweep, events, lost, etHold, handle, told, wild>>
    BY DEF Ask
  <1>3. item \in Item /\ item.op = op /\ item.call = c /\ item.by = by
        /\ "invite" \notin SyncCalls \cup AsyncCalls
    BY DEF Item, SyncCalls, AsyncCalls
  <1> HIDE DEF item
  <1>4. /\ work' \in Seq(Item) /\ Len(work') = Len(work) + 1 /\ Len(work) \in Nat
        /\ DOMAIN work' = 1 .. Len(work) + 1 /\ DOMAIN work = 1 .. Len(work)
        /\ work'[Len(work) + 1] = item /\ \A i \in DOMAIN work : work'[i] = work[i]
    BY <1>1, <1>2, <1>3, WorkAppend
  <1>5. WaitInv'
    <2>1. ASSUME Threads = {"callback"}, NEW i \in DOMAIN work'
          PROVE  /\ work'[i].by = "callback"
                 /\ work'[i].op \notin AsyncCalls =>
                       /\ et' = "blocked"
                       /\ \A k \in DOMAIN work' : work'[k].op \notin AsyncCalls => k = i
                 /\ work'[i].op \in SyncCalls => handle'[work'[i].call] = "yes"
      <3>1. by = "callback" /\ et = "callback" BY <2>1, <1>2
      <3>2. \A k \in DOMAIN work : work[k].op \in AsyncCalls /\ work[k].by = "callback"
        BY <2>1, <3>1, <1>1 DEF WaitInv
      <3>3. SyncCalls \cap AsyncCalls = {} BY DEF SyncCalls, AsyncCalls
      <3>4. CASE i \in DOMAIN work
        BY <3>2, <3>3, <3>4, <1>4
      <3>5. CASE i = Len(work) + 1
        <4>1. work'[i] = item BY <3>5, <1>4
        <4>2. \A k \in DOMAIN work' : work'[k].op \notin AsyncCalls => k = i
          BY <3>2, <3>5, <1>4
        <4> QED BY <3>1, <4>1, <4>2, <1>2, <1>3
      <3> QED BY <3>4, <3>5, <1>4
    <2> QED BY <2>1, <1>1, <1>2 DEF WaitInv
  <1>6. SyncOnLive' BY <1>1, <1>2 DEF SyncOnLive
  <1>7. et' \in {"idle", "callback", "blocked"} /\ (et' = "idle" => etHold' = None)
        /\ Len(work') <= WorkMax
    <2>1. et' \in {"idle", "callback", "blocked"} /\ (et' = "idle" => etHold' = None)
      BY <1>1, <1>2 DEF AppOK
    <2> QED BY <2>1, <1>2, <1>4
  <1>8. AppOK' BY <1>1, <1>2, <1>4, <1>5, <1>6, <1>7 DEF AppOK
  <1>9. OwnerInv' /\ StoryInv' BY <1>1, <1>2, <1>7, QuietStory DEF SameCore
  <1> QED BY <1>1, <1>2, <1>8, <1>9, Elsewhere

\* The application's calls keep the invariant.
LEMMA AppStep == CallInv /\ XferOwed /\ App
                    => CallInv' /\ XferOwed' /\ (SetupWatched => SetupWatched')
  <1> SUFFICES ASSUME CallInv, XferOwed, App
               PROVE  CallInv' /\ XferOwed' /\ (SetupWatched => SetupWatched')
    OBVIOUS
  <1>1. ASSUME NEW by \in Threads, Ask("invite", None, by)
        PROVE  CallInv' /\ XferOwed' /\ (SetupWatched => SetupWatched')
    <2>1. PICK op \in {"invite"}, c \in {None} : Ask(op, c, by) BY <1>1
    <2> QED BY <2>1, AskStep
  <1>2. ASSUME NEW c \in Calls, NEW op \in ApiCalls \ {"invite"}, NEW by \in Threads, Ask(op, c, by)
        PROVE  CallInv' /\ XferOwed' /\ (SetupWatched => SetupWatched')
    BY <1>2, AskStep
  <1>3. ASSUME NEW c \in Calls, Returns(c)
        PROVE  CallInv' /\ XferOwed' /\ (SetupWatched => SetupWatched')
    <2>1. /\ TypeOK /\ OwnerInv /\ StoryInv /\ WaitInv /\ SyncOnLive
          /\ call \in [Calls -> CallRecord] /\ events \in Seq(Event) /\ Len(events) <= QueueMax
          /\ AppOK /\ handle \in [Calls -> {"no", "pending", "yes", "over"}]
      BY DEF CallInv, TypeOK, AppOK, OwnerInv
    <2>2. /\ handle[c] = "pending" /\ handle' = [handle EXCEPT ![c] = "yes"]
          /\ UNCHANGED <<call, setupTmr, sweep, events, lost, et, etHold, work, told, wild>>
      BY <1>3 DEF Returns
    <2>3. Threads # {"callback"} BY <2>1, <2>2 DEF WaitInv
    <2>4. WaitInv' BY <2>3 DEF WaitInv
    <2>5. handle' \in [Calls -> {"no", "pending", "yes", "over"}] BY <2>1, <2>2
    <2>6. SyncOnLive' BY <2>1, <2>2 DEF SyncOnLive
    <2>7. AppOK' BY <2>1, <2>2, <2>4, <2>5, <2>6 DEF AppOK
    <2>8. OwnerInv' /\ StoryInv' BY <2>1, <2>2, QuietStory DEF SameCore, OwnerInv
    <2> QED BY <2>1, <2>2, <2>7, <2>8, Elsewhere
  <1> QED BY <1>1, <1>2, <1>3 DEF App

\* The event thread: an event is delivered, the callback returns.
LEMMA ThreadStep == CallInv /\ XferOwed /\ (Deliver \/ DeliverOther \/ Delivered)
                       => CallInv' /\ XferOwed' /\ (SetupWatched => SetupWatched')
  <1> SUFFICES ASSUME CallInv, XferOwed, Deliver \/ DeliverOther \/ Delivered
               PROVE  CallInv' /\ XferOwed' /\ (SetupWatched => SetupWatched')
    OBVIOUS
  <1>0. /\ TypeOK /\ OwnerInv /\ StoryInv /\ WaitInv /\ SyncOnLive
        /\ call \in [Calls -> CallRecord] /\ events \in Seq(Event) /\ Len(events) <= QueueMax
        /\ AppOK /\ handle \in [Calls -> {"no", "pending", "yes", "over"}]
        /\ told \in [Calls -> P!CallStates \cup {"none"}] /\ etHold \in Calls \cup {None}
    BY DEF CallInv, TypeOK, AppOK, OwnerInv
  \* Outside a synchronous call only functions nobody waits for are queued.
  <1>w. ASSUME et # "blocked", et' # "blocked", work' = work, lost' = lost,
               \A d \in Calls : handle'[d] = "pending" => handle[d] = "pending",
               \A d \in Calls : lost = {} /\ handle'[d] = "yes" /\ Threads = {"callback"}
                                   => call'[d].refs > 0
        PROVE  WaitInv'
    <2>1. SyncCalls \cap AsyncCalls = {} BY DEF SyncCalls, AsyncCalls
    <2>2. Threads = {"callback"} =>
             \A i \in DOMAIN work' : work'[i].op \in AsyncCalls /\ work'[i].by = "callback"
      BY <1>w, <1>0 DEF WaitInv
    <2>3. Threads = {"callback"} =>
             /\ \A d \in Calls : handle'[d] # "pending"
             /\ \A d \in Calls : lost' = {} /\ handle'[d] = "yes" => call'[d].refs > 0
      BY <1>w, <1>0 DEF WaitInv
    <2> QED BY <2>1, <2>2, <2>3 DEF WaitInv
  <1>1. ASSUME Deliver PROVE CallInv' /\ XferOwed' /\ (SetupWatched => SetupWatched')
    <2>1. /\ OwnerInv' /\ StoryInv' /\ 1 \in DOMAIN events /\ Head(events) = events[1]
          /\ events' \in Seq(Event) /\ Len(events') <= QueueMax
      BY <1>0, <1>1, DeliverStory
    <2>2. PICK e \in Event, c \in Calls : e = events[1] /\ c = e.call
                                          /\ e.what \in P!CallStates \cup Infos
      BY <2>1, <1>0, Types
    <2>3. /\ et = "idle" /\ et' = "callback"
          /\ etHold' = IF e.what \in P!Over THEN c ELSE None
          /\ told' = IF e.what \in Infos THEN told ELSE [told EXCEPT ![c] = e.what]
          /\ \/ handle' = handle
             \/ handle' = [handle EXCEPT ![c] = "yes"]
          /\ UNCHANGED <<call, setupTmr, sweep, lost, work, wild>>
      BY <1>1, <2>1, <2>2 DEF Deliver
    <2>4. lost = {} => call[c].refs > 0
      <3>1. call[c].listed \/ c \in lost \/ EndQueued(c)
        BY <2>1, <2>2, <1>0 DEF StoryInv, EndLast, EndQueued
      <3>2. call[c].listed => call[c].refs = 1 BY <1>0 DEF OwnerInv
      <3>3. EndQueued(c) => call[c].refs > 0 BY <1>0 DEF OwnerInv, B
      <3> QED BY <3>1, <3>2, <3>3
    <2>5. WaitInv'
      <3>1. \A d \in Calls : handle'[d] = "pending" => handle[d] = "pending"
        BY <2>3, <1>0
      <3>2. \A d \in Calls : lost = {} /\ handle'[d] = "yes" /\ Threads = {"callback"}
                                => call'[d].refs > 0
        BY <2>3, <2>4, <1>0 DEF WaitInv
      <3> QED BY <3>1, <3>2, <2>3, <1>w
    <2>6. /\ handle' \in [Calls -> {"no", "pending", "yes", "over"}]
          /\ told' \in [Calls -> P!CallStates \cup {"none"}] /\ etHold' \in Calls \cup {None}
      BY <2>2, <2>3, <1>0
    <2>7. SyncOnLive' BY <2>3, <1>0 DEF SyncOnLive
    <2>8. AppOK' BY <2>3, <2>5, <2>6, <2>7, <1>0 DEF AppOK
    <2> QED BY <2>1, <2>3, <2>8, <1>0, Elsewhere
  <1>2. ASSUME DeliverOther PROVE CallInv' /\ XferOwed' /\ (SetupWatched => SetupWatched')
    <2>1. /\ et = "idle" /\ et' = "callback"
          /\ UNCHANGED <<call, setupTmr, sweep, events, lost, etHold, work, handle, told, wild>>
      BY <1>2 DEF DeliverOther
    <2>2. WaitInv' BY <2>1, <1>0, <1>w DEF WaitInv
    <2>3. AppOK' BY <2>1, <2>2, <1>0 DEF AppOK, SyncOnLive
    <2>4. OwnerInv' /\ StoryInv' BY <2>1, <1>0, QuietStory DEF SameCore
    <2> QED BY <2>1, <2>3, <2>4, <1>0, Elsewhere
  <1>3. ASSUME Delivered PROVE CallInv' /\ XferOwed' /\ (SetupWatched => SetupWatched')
    <2>1. /\ et = "callback" /\ et' = "idle" /\ etHold' = None
          /\ UNCHANGED <<setupTmr, sweep, events, lost, work, told, wild>>
      BY <1>3 DEF Delivered
    <2>2. CASE etHold = None
      <3>1. UNCHANGED <<call, handle>> BY <1>3, <2>2 DEF Delivered
      <3>2. WaitInv' BY <2>1, <3>1, <1>0, <1>w DEF WaitInv
      <3>3. AppOK' BY <2>1, <3>1, <3>2, <1>0 DEF AppOK, SyncOnLive
      <3>4. OwnerInv' /\ StoryInv' BY <2>1, <2>2, <3>1, <1>0, QuietStory DEF SameCore
      <3> QED BY <2>1, <3>1, <3>3, <3>4, <1>0, Elsewhere
    <2>3. CASE etHold # None
      <3>1. PICK h \in Calls : h = etHold BY <2>3, <1>0
      <3>2. /\ call' = [call EXCEPT ![h] = Deref(call[h])]
            /\ handle' = [handle EXCEPT ![h] = IF handle[h] = "yes" THEN "over" ELSE handle[h]]
        BY <1>3, <2>3, <3>1 DEF Delivered
      <3>3. NoneQueued(h) /\ ~EndQueued(h)
        BY <3>1, <1>0 DEF OwnerInv, NoneQueued, EndQueued
      <3>4. call[h].refs = 1 /\ ~call[h].listed
        BY <3>1, <3>3, <1>0 DEF OwnerInv, B
      <3>5. Deref(call[h]) = Freed /\ Freed \in CallRecord
        BY <3>4, <1>0, DerefLast, RecordTypes
      <3>6. /\ call' \in [Calls -> CallRecord] /\ call'[h] = Freed
            /\ \A d \in Calls \ {h} : call'[d] = call[d]
        BY <3>2, <3>5, <1>0, SetAt
      <3>7. OwnerInv' /\ StoryInv'
        BY <1>0, <2>1, <3>1, <3>3, <3>4, <3>6, FreedStory DEF SameCore
      <3>8. /\ handle' \in [Calls -> {"no", "pending", "yes", "over"}] /\ handle'[h] # "yes"
            /\ handle'[h] = "pending" => handle[h] = "pending"
            /\ \A d \in Calls \ {h} : handle'[d] = handle[d]
        BY <3>2, <1>0
      <3>9. WaitInv'
        BY <2>1, <3>6, <3>8, <1>0, <1>w DEF WaitInv
      <3>10. AppOK' BY <2>1, <3>8, <3>9, <1>0 DEF AppOK, SyncOnLive
      <3> QED BY <2>1, <3>4, <3>6, <3>7, <3>10, <1>0, Elsewhere
    <2> QED BY <2>2, <2>3
  <1> QED BY <1>1, <1>2, <1>3

\* Before the first call there is nothing to owe.
LEMMA Beginning == Init => CallInv /\ XferOwed /\ SetupWatched
  <1> SUFFICES ASSUME Init PROVE CallInv /\ XferOwed /\ SetupWatched OBVIOUS
  <1>1. /\ call \in [Calls -> CallRecord] /\ \A c \in Calls : call[c] = NoCall
    BY RecordTypes DEF Init
  <1>2. /\ NoCall.dlg = "none" /\ NoCall.refs = 0 /\ ~NoCall.listed /\ ~NoCall.bc
    BY DEF NoCall
  <1>3. /\ setupTmr = FALSE /\ sweep = {} /\ events = <<>> /\ et = "idle" /\ etHold = None
        /\ work = <<>> /\ handle = [c \in Calls |-> "no"]
        /\ told = [c \in Calls |-> "none"] /\ lost = {} /\ wild = {}
    BY DEF Init
  <1>4. TypeOK
    <2>1. events \in Seq(Event) /\ Len(events) <= QueueMax BY <1>3
    <2>2. work \in Seq(Item) /\ Len(work) <= WorkMax BY <1>3
    <2>3. /\ handle \in [Calls -> {"no", "pending", "yes", "over"}]
          /\ told \in [Calls -> P!CallStates \cup {"none"}]
      BY <1>3
    <2> QED BY <1>1, <1>3, <2>1, <2>2, <2>3 DEF TypeOK
  <1>5. \A c \in Calls : ~EndQueued(c) /\ NoneQueued(c)
    BY <1>3 DEF EndQueued, NoneQueued
  <1>6. OwnerInv BY <1>1, <1>2, <1>3, <1>5 DEF OwnerInv, B
  <1>7. StoryInv BY <1>1, <1>2, <1>3 DEF StoryInv
  <1>8. WaitInv BY <1>3 DEF WaitInv
  <1>9. SweepInv /\ SyncOnLive BY <1>3 DEF SweepInv, SyncOnLive
  <1>10. XferOwed /\ SetupWatched BY <1>1, <1>2 DEF XferOwed, SetupWatched
  <1> QED BY <1>4, <1>6, <1>7, <1>8, <1>9, <1>10 DEF CallInv

\* A step of nothing keeps the invariant.
LEMMA Stuttering == CallInv /\ XferOwed /\ UNCHANGED vars
                       => CallInv' /\ XferOwed' /\ (SetupWatched => SetupWatched')
  <1> SUFFICES ASSUME CallInv, XferOwed, UNCHANGED vars
               PROVE  CallInv' /\ XferOwed' /\ (SetupWatched => SetupWatched')
    OBVIOUS
  <1>1. call \in [Calls -> CallRecord] BY DEF CallInv, TypeOK
  <1> QED BY <1>1, QuietStep DEF SameCore, SameDebts

\* Every step.
LEMMA Steps == CallInv /\ XferOwed /\ [Next]_vars
                  => CallInv' /\ XferOwed' /\ (Fits /\ SetupWatched => SetupWatched')
  BY BeventStep, WatchdogStep, DispatchedStep, AppStep, ThreadStep, Stuttering DEF Next

-----------------------------------------------------------------------------
(* Theorems.                                                               *)

\* Who owns a wrapper, what is queued of it and what the application may still do
\* with it: the invariant of call.c, event.c and transfer.c taken together.
THEOREM CallsInvariant == Spec => [](CallInv /\ XferOwed)
  <1>1. Init => CallInv /\ XferOwed BY Beginning
  <1>2. (CallInv /\ XferOwed) /\ [Next]_vars => (CallInv /\ XferOwed)' BY Steps
  <1> QED BY <1>1, <1>2, PTL DEF Spec

\* Every variable keeps its type; in particular the event queue never grows past
\* VOXSDK_EV_QUEUE_MAX.
THEOREM CallsTyped == Spec => []TypeOK
  <1>1. CallInv => TypeOK BY DEF CallInv
  <1> QED BY <1>1, CallsInvariant, PTL

\* The wrapper of a call has one owner, however its dialog ends: no double free
\* after a failed call_connect(), no leak, no event without a reference.
THEOREM OneOwner == Spec => []OwnedOnce
  <1>1. CallInv => OwnedOnce
    <2> SUFFICES ASSUME CallInv, NEW c \in Calls
                 PROVE  /\ call[c].refs =
                              B(call[c].listed) + B(etHold = c)
                              + Cardinality({i \in DOMAIN events : /\ events[i].call = c
                                                                   /\ events[i].what \in P!Over})
                        /\ call[c].listed <=> call[c].bc
      BY DEF OwnedOnce
    <2> DEFINE S == {i \in DOMAIN events : /\ events[i].call = c /\ events[i].what \in P!Over}
    <2>1. /\ call[c].refs = B(call[c].listed) + B(etHold = c) + B(EndQueued(c))
          /\ call[c].listed <=> call[c].bc
          /\ \A i \in DOMAIN events : EndLast(i)
          /\ DOMAIN events = 1 .. Len(events) /\ Len(events) \in Nat
      BY Types DEF CallInv, OwnerInv, StoryInv
    <2>2. CASE ~EndQueued(c)
      <3>1. S = {} BY <2>2 DEF EndQueued, Ends
      <3> QED BY <2>1, <2>2, <3>1, FS_EmptySet DEF B
    <2>3. CASE EndQueued(c)
      <3>1. PICK i \in DOMAIN events : events[i].call = c /\ events[i].what \in P!Over
        BY <2>3 DEF EndQueued, Ends
      <3>2. \A k \in S : k = i
        <4> SUFFICES ASSUME NEW k \in S, k # i PROVE FALSE OBVIOUS
        <4>1. k > i \/ i > k BY <2>1
        <4> QED BY <2>1, <3>1, <4>1 DEF EndLast, Ends
      <3>3. S = {i} BY <3>1, <3>2
      <3>4. Cardinality(S) = 1 BY <3>3, FS_Singleton
      <3> QED BY <2>1, <2>3, <3>4 DEF B
    <2> QED BY <2>2, <2>3
  <1> QED BY <1>1, CallsInvariant, PTL

\* A synchronous function called from the callback never runs on a freed wrapper:
\* vox_dispatch_sync() keeps the event thread, and with it the terminal event.
THEOREM SyncOnLiveHolds == Spec => []SyncOnLive
  <1>1. CallInv => SyncOnLive BY DEF CallInv
  <1> QED BY <1>1, CallsInvariant, PTL

\* transfer.c: a REFER is pending exactly while the transferor is owed an answer,
\* for any number of calls.
THEOREM RefersOwed == Spec => []XferOwed
  BY CallsInvariant, PTL

\* A dial is watched until it is over, as long as the calls fit in the watchdog's
\* snapshot (VOX_SETUP_MAX_SNAP): a larger sweep leaves the surplus without a timer.
THEOREM DebtsAreKept == Fits => (Spec => []DebtsKept)
  <1> SUFFICES ASSUME Fits PROVE Spec => []DebtsKept OBVIOUS
  <1>1. Init => CallInv /\ XferOwed /\ SetupWatched BY Beginning
  <1>2. (CallInv /\ XferOwed /\ SetupWatched) /\ [Next]_vars
           => (CallInv /\ XferOwed /\ SetupWatched)'
    BY Steps
  <1>3. CallInv /\ XferOwed /\ SetupWatched => DebtsKept BY DEF DebtsKept
  <1> QED BY <1>1, <1>2, <1>3, PTL DEF Spec

\* What the application is told about each call is one story: the detailed
\* specification implements CallPromise.
THEOREM OneStory == Spec => KeepsPromise
  <1>1. Init => P!Init BY DEF Init, P!Init
  <1>2. CallInv /\ [Next]_vars => [P!Next]_told
    <2> SUFFICES ASSUME CallInv, [Next]_vars PROVE [P!Next]_told OBVIOUS
    <2>0. /\ TypeOK /\ OwnerInv /\ StoryInv /\ told \in [Calls -> P!CallStates \cup {"none"}]
      BY DEF CallInv, TypeOK
    <2>t. ASSUME NEW c \in Calls, NEW s, Follows(told[c], s), told' = [told EXCEPT ![c] = s]
          PROVE  [P!Next]_told
      <3>1. CASE s = told[c] BY <3>1, <2>t, <2>0
      <3>2. CASE s \in P!Later(told[c]) BY <3>2, <2>t DEF P!Next, P!Tell
      <3> QED BY <2>t, <3>1, <3>2 DEF Follows
    <2>1. ASSUME NEW c \in Calls, call[c] = NoCall, told' = ToldDialled(c) PROVE [P!Next]_told
      <3>1. CASE told[c] = "none"
        <4>1. told' = [told EXCEPT ![c] = "CALLING"] BY <2>1, <3>1 DEF ToldDialled
        <4>2. Follows(told[c], "CALLING") BY <3>1, FollowsSteps
        <4> QED BY <2>t, <4>1, <4>2
      <3>2. CASE told[c] # "none" BY <2>1, <3>2 DEF ToldDialled
      <3> QED BY <3>1, <3>2
    <2>2. ASSUME Deliver PROVE [P!Next]_told
      <3>1. 1 \in DOMAIN events /\ Head(events) = events[1] BY <2>2, <2>0, DeliverStory
      <3>2. PICK e \in Event, c \in Calls : e = events[1] /\ c = e.call
                                            /\ e.what \in P!CallStates \cup Infos
        BY <3>1, <2>0, Types
      <3>3. told' = IF e.what \in Infos THEN told ELSE [told EXCEPT ![c] = e.what]
        BY <2>2, <3>1, <3>2 DEF Deliver
      <3>4. CASE e.what \in Infos BY <3>3, <3>4
      <3>5. CASE e.what \notin Infos
        <4>1. Follows(told[c], e.what)
          BY <3>1, <3>2, <3>5, <2>0 DEF StoryInv, InOrder
        <4> QED BY <2>t, <3>3, <3>5, <4>1
      <3> QED BY <3>4, <3>5
    <2>3. CASE Bevent
      BY <2>3 DEF Bevent, Ringing, Answered, Closed, Incoming, PeerHold, PeerResume, Refer, Inform, Sdp
    <2>4. CASE Watchdog
      BY <2>4 DEF Watchdog, SetupWatch, DeadlinePasses, SetupCancel
    <2>5. CASE Dispatched
      <3>1. ASSUME NEW c \in Calls, Invite(c) \/ XferAccept(c) PROVE [P!Next]_told
        BY <3>1, <2>1 DEF Invite, XferAccept
      <3>2. ASSUME NEW c \in Calls, XferConnectClosed(c) PROVE told' = told
        BY <3>2 DEF XferConnectClosed
      <3>3. CASE RunWild \/ InviteFails \/ Answer \/ Hangup \/ Reject
        BY <3>3 DEF RunWild, InviteFails, Answer, Hangup, Reject
      <3>4. CASE HoldResume \/ XferRefused \/ XferAcceptFails \/ XferReject
        BY <3>4 DEF HoldResume, XferRefused, XferAcceptFails, XferReject
      <3> QED BY <2>5, <3>1, <3>2, <3>3, <3>4 DEF Dispatched
    <2>6. CASE App BY <2>6 DEF App, Ask, Returns
    <2>7. CASE DeliverOther \/ Delivered \/ UNCHANGED vars BY <2>7 DEF DeliverOther, Delivered
    <2> QED BY <2>2, <2>3, <2>4, <2>5, <2>6, <2>7 DEF Next
  <1> QED BY <1>1, <1>2, CallsInvariant, PTL DEF Spec, KeepsPromise, P!Spec
=============================================================================
