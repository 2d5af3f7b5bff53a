----------------------------- MODULE MCNetwork -----------------------------
(***************************************************************************)
(* How a call reaches the network: the ICE layer of one call, the pinning   *)
(* of WebSockets and a server lookup.  They share no state, so a behaviour  *)
(* of all three is a behaviour of each: in one run, "part" moves and the    *)
(* others stay in their initial states.                                    *)
(***************************************************************************)
EXTENDS Naturals, Sequences, FiniteSets

CONSTANTS
    MaxGen, MaxU, MaxRemote, Polls,                 \* IceShim
    Accounts, Servers, SockAddrs, Dead, Paths, NoPath, None, MaxServers, MaxSeq,   \* WsPath
    Transports, Hosts, Priorities, Weights, MaxRecords, Hint, Domain, MaxSrv, MaxTargets \* Dns

VARIABLES
    part,
    \* IceShim
    call, nego, told, peer, rsig, raddr, secure, dtls, gen, gather, started, with, concluded,
    laddr, tmr, tmr_reoffer, left, tmr_rrestart, released, reoffered, restarting,
    await_answer, rrestarts, primed, signalled, sel, held, rufrag, early, hung, crossed, restarts,
    \* WsPath
    claim, srv, seq, overflow, pin, path, lost, dial,
    \* Dns
    stage, port_hint, pending, slots, asked, targets, err, calls, given

Ice == INSTANCE IceShim

Ws == INSTANCE WsPath

\* What a DNS answer may hold: up to n of the records.
UpTo(n, records) == UNION {[1 .. k -> records] : k \in 0 .. n}

Dns == INSTANCE Dns WITH
    Naptrs <- UpTo(MaxSrv + 1, Transports),
    Answers <- UpTo(MaxRecords, [host : Hosts, pri : Priorities, wt : Weights]),
    srv <- slots, told <- calls

\* There is a first generation, a poll and a slot of each table; nothing is named
\* like the absence of it.
ASSUME NetworkAssumption ==
    /\ MaxGen \in Nat \ {0} /\ MaxU \in Nat \ {0} /\ MaxRemote \in Nat /\ Polls \in Nat
    /\ IsFiniteSet(Accounts) /\ MaxServers \in Nat /\ MaxSeq \in Nat
    /\ None \notin Servers /\ None \notin Servers \X Paths
    /\ MaxSrv \in Nat \ {0} /\ MaxTargets \in Nat \ {0} /\ MaxRecords \in Nat
    /\ Priorities \subseteq Nat /\ Weights \subseteq Nat

iceVars == <<call, nego, told, peer, rsig, raddr, secure, dtls, gen, gather, started, with,
             concluded, laddr, tmr, tmr_reoffer, left, tmr_rrestart, released,
             reoffered, restarting, await_answer, rrestarts, primed, signalled, sel, held,
             rufrag, early, hung, crossed, restarts>>
wsVars  == <<claim, srv, seq, overflow, pin, path, lost, dial>>
dnsVars == <<stage, port_hint, pending, slots, asked, targets, err, calls, given>>
vars    == <<part, iceVars, wsVars, dnsVars>>

Init ==
    /\ part \in {"ice", "ws", "dns"} /\ Ice!Init /\ Ws!Init /\ Dns!Init
    /\ part # "ice" => call = "outgoing" /\ ~dtls /\ ~tmr
    /\ part # "dns" => ~port_hint

Next ==
    \/ part = "ice" /\ Ice!Next /\ UNCHANGED <<part, wsVars, dnsVars>>
    \/ part = "ws" /\ Ws!Next /\ UNCHANGED <<part, iceVars, dnsVars>>
    \/ part = "dns" /\ Dns!Next /\ UNCHANGED <<part, iceVars, wsVars>>

\* The timers of the shim fire; libre's DNS client answers or gives up.
Fairness ==
    /\ WF_vars(part = "ice" /\ Ice!Deadline /\ UNCHANGED <<part, wsVars, dnsVars>>)
    /\ WF_vars(part = "ice" /\ Ice!ReofferDeadline /\ UNCHANGED <<part, wsVars, dnsVars>>)
    /\ WF_vars(part = "dns" /\ Dns!Answered /\ UNCHANGED <<part, iceVars, wsVars>>)

Spec == Init /\ [][Next]_vars /\ Fairness

-----------------------------------------------------------------------------
(* The properties of the parts.                                            *)

\* ICE under restarts of both ends: an answered call sends to the selected pair, no
\* failure ends a call that is up, and, when no other exchange came between a restart
\* of ours and its answer, checks use the credentials of their generation and two ends
\* do not restart each other for ever (ice_shim.c).
IceSound ==
    /\ [](Ice!TypeOK /\ Ice!ChecksCurrent /\ Ice!SendsToPair /\ Ice!NoEcho)
    /\ Ice!FailureSparesCall

\* While no claim was lost to a full table, WebSockets are pinned exactly while all
\* live accounts share a server, and none is dialled to another account's, but one
\* whose server's name resolved to a loopback address (ws_path.c).
PinSound == Ws!TypeOK /\ Ws!PinExact /\ Ws!DialsRight

\* A lookup is freed when nothing refers to it, and its targets do not depend on the
\* order of the answers (dns.c).
LookupSound == Dns!TypeOK /\ Dns!FreedUnused /\ Dns!OrderIndependent

\* What waits for the network is let go: with a deadline the INVITE goes out unless the
\* call is hung up or its first gather fails, restarts and re-offers end, and a lookup
\* calls its handler (ice_shim.c, dns.c).
NetworkSettles ==
    /\ part = "ice" => Ice!InviteGoesOut /\ Ice!RestartEnds /\ Ice!ReofferSettles
    /\ part = "dns" => Dns!LookupEnds
=============================================================================
