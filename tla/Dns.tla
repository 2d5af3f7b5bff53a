-------------------------------- MODULE Dns --------------------------------
(***************************************************************************)
(* One RFC 3263 lookup: dns.c.                                             *)
(*                                                                         *)
(* A NAPTR query, then one SRV query per usable NAPTR record (or one for    *)
(* the well-known name), answered in any order; the last answer sorts what  *)
(* was collected, calls done_h and frees the lookup.  libre's DNS client    *)
(* answers every query it took, at the latest with an error.               *)
(***************************************************************************)
EXTENDS Integers, Sequences, SequencesExt, FiniteSets

CONSTANTS
    Naptrs,         \* sequences of transports usable NAPTR records may name
    Answers,        \* sequences of SRV records [host, pri, wt] an answer may hold
    Hint,           \* transport_hint
    Domain,         \* the domain, as a host
    MaxSrv,         \* MAX_SRV
    MaxTargets      \* MAX_TARGETS

VARIABLES
    stage,          \* new, naptr, srv, done (done_h called, lookup freed), refused
    port_hint,      \* the URI had an explicit port
    pending,        \* lk->pending
    srv,            \* lk->srv: the transports to ask for
    asked,          \* SRV queries libre holds, by their place in srv
    targets,        \* lk->result.targets
    err,            \* lk->result.err
    told,           \* history: calls of done_h
    given           \* history: every target an answer or a fallback named

vars == <<stage, port_hint, pending, srv, asked, targets, err, told, given>>

Init ==
    /\ stage = "new" /\ port_hint \in BOOLEAN /\ pending = 0 /\ srv = <<>>
    /\ asked = {} /\ targets = <<>> /\ err = 0 /\ told = 0 /\ given = {}

-----------------------------------------------------------------------------
Target(t, r) == [tp |-> t, host |-> r.host, pri |-> r.pri, wt |-> r.wt]
Fallback(t) == Target(t, [host |-> Domain, pri |-> 0, wt |-> 0])

\* Mutant: one target more than the array holds.
add_result_Off(ts, new) ==
    LET room == MaxTargets + 1 - Len(ts)
    IN  ts \o SubSeq(new, 1, IF Len(new) < room THEN Len(new) ELSE room)

\* add_result() for each target of new: what does not fit is dropped.
add_result(ts, new) ==
    LET room == MaxTargets - Len(ts)
    IN  ts \o SubSeq(new, 1, IF Len(new) < room THEN Len(new) ELSE room)

\* t is tried before u.
Before(t, u) == t.pri < u.pri \/ (t.pri = u.pri /\ t.wt > u.wt)

\* Where the insertion sort stops to shift targets that t beats.
Place(ts, t) ==
    CHOOSE k \in 0 .. Len(ts) :
        /\ k > 0 => ~Before(t, ts[k])
        /\ \A j \in k + 1 .. Len(ts) : Before(t, ts[j])

\* One round of it.
Insert(ts, t) == InsertAt(ts, Place(ts, t) + 1, t)

\* Mutant: targets stay in the order their answers came.
sort_targets_None(ts) == ts

\* rounds[n]: the first n targets, sorted.
sort_targets(ts) ==
    LET rounds[n \in 0 .. Len(ts)] == IF n = 0 THEN <<>> ELSE Insert(rounds[n - 1], ts[n])
    IN  rounds[Len(ts)]

\* lookup_finish() with the targets ts.
lookup_finish(ts) ==
    /\ targets' = sort_targets(ts)
    /\ err' = IF ts = <<>> THEN "ENOENT" ELSE err
    /\ told' = told + 1 /\ stage' = "done"

-----------------------------------------------------------------------------
\* vox_dns_resolve(): an explicit port needs no query; a missing client or memory, or
\* a query that cannot be sent, is the caller's error and done_h is never called.
Resolve ==
    /\ stage = "new"
    /\ \/ /\ port_hint
          /\ targets' = <<Fallback(Hint)>> /\ given' = {Fallback(Hint)}
          /\ told' = told + 1 /\ stage' = "done" /\ UNCHANGED pending
       \/ /\ ~port_hint
          /\ pending' = pending + 1 /\ stage' = "naptr" /\ UNCHANGED <<targets, told, given>>
       \/ /\ stage' = "refused" /\ UNCHANGED <<pending, targets, told, given>>
    /\ UNCHANGED <<port_hint, srv, asked, err>>

\* Mutant: the NAPTR query's own slot is not given back.
Naptr_Leak(ts) ==
    LET slots == IF ts = <<>> THEN <<Hint>> ELSE SubSeq(ts, 1, IF Len(ts) < MaxSrv THEN Len(ts) ELSE MaxSrv) IN
    /\ stage = "naptr" /\ srv' = slots
    /\ asked' = DOMAIN slots /\ pending' = pending + Len(slots) /\ stage' = "srv"
    /\ UNCHANGED <<targets, err, told, given, port_hint>>

\* naptr_handler() and start_srv_queries(): the queries that libre takes are
\* pending; when it takes none, the domain itself is the only target.
Naptr(ts) ==
    LET slots == IF ts = <<>> THEN <<Hint>> ELSE SubSeq(ts, 1, IF Len(ts) < MaxSrv THEN Len(ts) ELSE MaxSrv) IN
    /\ stage = "naptr" /\ srv' = slots
    /\ \E q \in SUBSET DOMAIN slots :
        /\ asked' = q /\ pending' = pending - 1 + Cardinality(q)
        /\ \/ /\ q # {} /\ stage' = "srv" /\ UNCHANGED <<targets, err, told, given>>
           \/ /\ q = {} /\ given' = {Fallback(Hint)}
              /\ lookup_finish(add_result(targets, <<Fallback(Hint)>>))
    /\ UNCHANGED port_hint

\* Mutant: the first answer ends the lookup.
Srv_First(i, rs) ==
    LET new == IF rs = <<>> THEN <<Fallback(srv[i])>> ELSE [k \in DOMAIN rs |-> Target(srv[i], rs[k])] IN
    /\ stage = "srv" /\ i \in asked /\ asked' = asked \ {i}
    /\ pending' = pending - 1 /\ given' = given \cup Range(new)
    /\ lookup_finish(add_result(targets, new))
    /\ UNCHANGED <<port_hint, srv>>

\* srv_handler(): an answer without a usable record, or an error, names the
\* domain itself.
Srv(i, rs) ==
    LET new == IF rs = <<>> THEN <<Fallback(srv[i])>> ELSE [k \in DOMAIN rs |-> Target(srv[i], rs[k])]
        all == add_result(targets, new)
    IN  /\ stage = "srv" /\ i \in asked /\ asked' = asked \ {i}
        /\ pending' = pending - 1 /\ given' = given \cup Range(new)
        /\ \/ pending = 1 /\ lookup_finish(all)
           \/ pending # 1 /\ targets' = all /\ UNCHANGED <<err, told, stage>>
        /\ UNCHANGED <<port_hint, srv>>

Next ==
    \/ Resolve
    \/ \E ts \in Naptrs : Naptr(ts)
    \/ \E i \in asked, rs \in Answers : Srv(i, rs)

Spec == Init /\ [][Next]_vars

\* libre's DNS client answers a query or gives it up after its own timeout.
Answered == (\E ts \in Naptrs : Naptr(ts)) \/ (\E i \in asked, rs \in Answers : Srv(i, rs))
FairSpec == Spec /\ WF_vars(Answered)

-----------------------------------------------------------------------------
(* Properties.                                                             *)

\* Every variable has its type; the array of targets never overflows.
TypeOK ==
    /\ stage \in {"new", "naptr", "srv", "done", "refused"}
    /\ Len(srv) <= MaxSrv /\ Len(targets) <= MaxTargets
    /\ asked \subseteq DOMAIN srv /\ told \in 0 .. 1
    /\ pending \in 0 .. MaxSrv + 1

\* The lookup is freed only when libre holds no query that refers to it.
FreedUnused == stage = "done" => asked = {} /\ told = 1

\* The targets handed over do not depend on the order of the answers, up to ties:
\* whatever was named is there, in the order it must be tried, unless there was
\* more than the array holds.
OrderIndependent ==
    stage = "done" =>
        /\ \A i, j \in DOMAIN targets : i < j => ~Before(targets[j], targets[i])
        /\ Len(targets) < MaxTargets => Range(targets) = given

\* A lookup that was accepted calls its handler.
LookupEnds == stage = "naptr" ~> stage = "done"
=============================================================================
