------------------------------ MODULE IceShim ------------------------------
(***************************************************************************)
(* The layer ice_shim.c puts between baresip and its ice module: one call,   *)
(* one stream.                                                             *)
(*                                                                         *)
(* The shim adds a deadline to gathering, runs the connectivity checks while *)
(* the phone rings, holds the pair they find until the answer, re-applies it *)
(* after every SDP exchange, re-offers an address that was not signalled,   *)
(* restarts ICE by replacing the inner session, and answers a restart of    *)
(* the peer with one of its own.  The inner session, baresip's call and the *)
(* peer are modelled from how the shim uses them.                          *)
(*                                                                         *)
(* A generation is one inner session and its credentials.  The peer's SDP   *)
(* is [u, for]: its ufrag, and the generation of ours it was written for.    *)
(***************************************************************************)
EXTENDS Naturals

CONSTANTS
    MaxGen,         \* bound on generations of ours
    MaxU,           \* bound on ufrags of the peer
    MaxRemote,      \* VOX_ICE_MAX_REMOTE_RESTARTS
    Polls           \* polls in VOX_ICE_REOFFER_SECURE_DEADLINE_MS

NoPeer == [u |-> 0, for |-> 0]

VARIABLES
    \* baresip's call and its stream
    call,           \* outgoing, invited, arriving, ringing, up, closed
    nego,           \* generation of our offer that is on the wire, 0 for none
    told,           \* latest generation the peer has been told of
    peer,           \* what the peer's last SDP said; NoPeer before one
    rsig,           \* the media address the peer signalled
    raddr,          \* where the stream sends: none, sdp, pair
    secure,         \* the media encryption is up
    dtls,           \* the call uses a media encryption
    \* the inner session
    gen, gather, started, with, concluded,
    laddr,          \* the address in our SDP
    \* the shim
    tmr, tmr_reoffer, left, tmr_rrestart,
    released, reoffered, restarting, await_answer, rrestarts, primed,
    signalled, sel, held, rufrag,
    \* history
    early,          \* media was set up before the call was answered
    hung,           \* somebody hung up
    crossed,        \* another SDP exchange came between a restart and its answer
    restarts        \* restarts the peer decided on

callVars == <<call, nego, told, peer, rsig, raddr, secure, dtls>>
innerVars == <<gen, gather, started, with, concluded, laddr>>
shimVars == <<tmr, tmr_reoffer, left, tmr_rrestart, released, reoffered,
              restarting, await_answer, rrestarts, primed, signalled, sel, held, rufrag>>
histVars == <<early, hung, crossed, restarts>>
vars == <<callVars, innerVars, shimVars, histVars>>

Addrs == {"host", "reflexive"}

\* ice_sessh() arms tmr when cfg.ice_gathering_timeout_ms is not 0.
Init ==
    /\ call \in {"outgoing", "arriving"} /\ nego = 0 /\ told = 0
    /\ peer = IF call = "arriving" THEN [u |-> 1, for |-> 1] ELSE NoPeer
    /\ rsig = 1 /\ raddr = "none" /\ secure = FALSE /\ dtls \in BOOLEAN
    /\ gen = 1 /\ gather = "going" /\ started = FALSE /\ with = NoPeer
    /\ concluded = FALSE /\ laddr = "host"
    /\ tmr \in BOOLEAN
    /\ tmr_reoffer = FALSE /\ left = 0 /\ tmr_rrestart = FALSE
    /\ released = FALSE /\ reoffered = FALSE /\ restarting = FALSE
    /\ await_answer = FALSE /\ rrestarts = 0 /\ primed = FALSE
    /\ signalled = "host" /\ sel = 0 /\ held = FALSE /\ rufrag = 0
    /\ early = FALSE /\ hung = FALSE /\ crossed = FALSE /\ restarts = 0

-----------------------------------------------------------------------------
(* The update handler.                                                     *)

\* sess_awaiting_secure() with the peer's SDP p.
Awaiting(p) == dtls /\ p.u # 0 /\ ~secure

\* Mutant: an SDP exchange leaves the stream where the SDP sends it.
Reassert_Not(rs) ==
    /\ raddr' = "sdp" /\ held' = FALSE /\ sel' = sel

\* reassert_selected() when the peer now signals rs: a held pair is delivered, a
\* pair of an address the peer left is forgotten, any other is applied again.
Reassert(rs) ==
    \/ sel = 0 /\ raddr' = "sdp" /\ UNCHANGED <<sel, held>>
    \/ sel # 0 /\ held /\ raddr' = "pair" /\ held' = FALSE /\ UNCHANGED sel
    \/ sel \notin {0, rs} /\ ~held /\ raddr' = "sdp" /\ sel' = 0 /\ UNCHANGED held
    \/ sel = rs /\ ~held /\ raddr' = "pair" /\ UNCHANGED <<sel, held>>

\* real_updateh(): a session that has not started starts its checks with the
\* credentials in the peer's SDP; one that has only refreshes.
RealUpdate(p) ==
    /\ started' = (started \/ p.u # 0)
    /\ with' = IF started THEN with ELSE p

\* Mutant: the answer to our own restart is taken for one of the peer.
Update_NoAwait(p, rs) ==
    LET changed == rufrag # 0 /\ p.u # rufrag IN
    /\ RealUpdate(p) /\ rufrag' = p.u /\ await_answer' = FALSE
    /\ \/ /\ changed /\ Awaiting(p) /\ sel' = 0 /\ raddr' = "sdp" /\ UNCHANGED held
          /\ IF ~restarting /\ ~tmr_rrestart /\ rrestarts < MaxRemote
             THEN rrestarts' = rrestarts + 1 /\ tmr_rrestart' = TRUE
             ELSE UNCHANGED <<rrestarts, tmr_rrestart>>
       \/ /\ ~(changed /\ Awaiting(p)) /\ Reassert(rs) /\ UNCHANGED <<rrestarts, tmr_rrestart>>

\* ice_updateh() outside estab_release(), with the SDP p and the address rs.
Update(p, rs) ==
    LET changed == rufrag # 0 /\ p.u # rufrag
        ours    == changed /\ await_answer
        theirs  == changed /\ ~await_answer /\ Awaiting(p)
    IN  /\ RealUpdate(p) /\ rufrag' = p.u /\ await_answer' = FALSE
        /\ \/ /\ ours \/ theirs
              /\ sel' = 0 /\ raddr' = "sdp" /\ UNCHANGED held
           \/ ~ours /\ ~theirs /\ Reassert(rs)
        /\ IF theirs /\ ~restarting /\ ~tmr_rrestart /\ rrestarts < MaxRemote
           THEN rrestarts' = rrestarts + 1 /\ tmr_rrestart' = TRUE
           ELSE UNCHANGED <<rrestarts, tmr_rrestart>>

updated == <<started, with, rufrag, await_answer, sel, raddr, held, rrestarts, tmr_rrestart>>

\* Mutant: the update that follows our own offer is handled like any other.
OfferUpdate_Delegates == Update(peer, rsig)

\* ice_updateh() inside it: the offer of a restart only re-asserts.
OfferUpdate ==
    \/ /\ await_answer /\ Reassert(rsig)
       /\ UNCHANGED <<started, with, rufrag, await_answer, rrestarts, tmr_rrestart>>
    \/ ~await_answer /\ Update(peer, rsig)

-----------------------------------------------------------------------------
(* Reports of the inner session and the deadline.                          *)

\* estab_release() without an error: baresip sends the INVITE, delivers the
\* incoming call, or re-offers when the negotiation allows it.
EstabRelease ==
    \/ /\ call = "outgoing" /\ call' = "invited" /\ nego' = gen /\ UNCHANGED updated
    \/ /\ call = "arriving" /\ call' = "ringing" /\ UNCHANGED <<nego, updated>>
    \/ /\ call = "up" /\ nego = 0 /\ nego' = gen /\ OfferUpdate /\ UNCHANGED call
    \/ /\ call \in {"invited", "ringing"} \/ (call = "up" /\ nego # 0)
       /\ UNCHANGED <<call, nego, updated>>

\* prime_conncheck(), at the end of ice_estab(): the checks of a ringing call.
EstabPrime ==
    \/ /\ call \in {"arriving", "ringing"} /\ ~primed /\ primed' = TRUE
       /\ call' = "ringing" /\ RealUpdate(peer) /\ rufrag' = peer.u
       /\ UNCHANGED <<nego, await_answer, sel, raddr, held, rrestarts, tmr_rrestart>>
    \/ /\ call \notin {"arriving", "ringing"} \/ primed
       /\ EstabRelease /\ UNCHANGED primed

\* Mutant: a restart that could not gather is reported as it is.
Fatal_Restart == ~released

\* An error of the first gather ends the call; later ones are swallowed.
Fatal == ~released /\ ~restarting

\* ice_estab(): a gather, or checks that concluded on a new candidate, report.
IceEstab(ok, l) ==
    /\ gather = "going" \/ (concluded /\ released)
    /\ call # "closed"
    /\ gather' = IF ok \/ ~Fatal THEN "done" ELSE "failed"
    /\ laddr' = IF ok THEN l ELSE laddr
    /\ tmr' = FALSE /\ restarting' = FALSE
    /\ \/ /\ ~ok /\ Fatal
          /\ released' = TRUE /\ call' = "closed"
          /\ UNCHANGED <<signalled, nego, primed, updated>>
       \/ /\ ~ok /\ ~Fatal /\ released
          /\ UNCHANGED <<released, signalled, call, nego, primed, updated>>
       \/ /\ ok \/ (~Fatal /\ ~released)
          /\ released' = TRUE /\ signalled' = laddr' /\ EstabPrime
    /\ UNCHANGED <<told, peer, rsig, secure, dtls, gen, concluded, tmr_reoffer,
                   left, reoffered, histVars>>

\* Mutant: a gather that never reports leaves the restart outstanding.
Deadline_Restarting ==
    /\ tmr /\ tmr' = FALSE
    /\ \/ /\ ~released /\ released' = TRUE /\ EstabRelease
       \/ released /\ UNCHANGED <<released, call, nego, updated>>
    /\ UNCHANGED <<told, peer, rsig, secure, dtls, gen, gather, concluded, laddr, restarting,
                   tmr_reoffer, left, reoffered, primed, signalled, histVars>>

\* Mutant: the deadline passes and the offer is not released.
Deadline_Silent ==
    /\ tmr /\ tmr' = FALSE
    /\ released' = TRUE /\ restarting' = (restarting /\ released)
    /\ UNCHANGED <<call, nego, updated, told, peer, rsig, secure, dtls, gen, gather, concluded,
                   laddr, tmr_reoffer, left, reoffered, primed, signalled, histVars>>

\* gather_deadline().
Deadline ==
    /\ tmr /\ tmr' = FALSE
    /\ \/ /\ ~released /\ released' = TRUE /\ restarting' = FALSE /\ EstabRelease
       \/ released /\ UNCHANGED <<released, restarting, call, nego, updated>>
    /\ UNCHANGED <<told, peer, rsig, secure, dtls, gen, gather, concluded, laddr,
                   tmr_reoffer, left, reoffered, primed, signalled, histVars>>

-----------------------------------------------------------------------------
(* Connectivity checks that succeed, and the re-offer they may need.        *)

\* ice_connected() holds the pair of a call that is not answered yet.
Hold == call = "ringing"

\* ice_connected().  Checks succeed only against the credentials the peer uses.
IceConnected(l) ==
    /\ started /\ ~concluded /\ with = peer /\ with.for = gen /\ call \in {"ringing", "up"}
    /\ concluded' = TRUE /\ laddr' = l
    /\ \/ /\ Hold /\ sel' = rsig /\ held' = TRUE
          /\ UNCHANGED <<early, call, nego, reoffered, tmr_reoffer, left, raddr, started, with,
                         rufrag, await_answer, rrestarts, tmr_rrestart>>
       \/ /\ ~Hold /\ early' = (early \/ call = "ringing")
          /\ \/ /\ (l = signalled \/ reoffered)
                /\ sel' = rsig /\ raddr' = "pair"
                /\ UNCHANGED <<call, nego, reoffered, tmr_reoffer, left, started, with, rufrag,
                               await_answer, held, rrestarts, tmr_rrestart>>
             \/ /\ l # signalled /\ ~reoffered /\ reoffered' = TRUE
                /\ sel' = rsig /\ raddr' = "pair"
                /\ \/ /\ Awaiting(peer) /\ tmr_reoffer' = TRUE /\ left' = Polls
                      /\ UNCHANGED nego
                   \/ /\ ~Awaiting(peer) /\ tmr_reoffer' = FALSE   \* the update re-asserts the pair
                      /\ nego' = IF call = "up" /\ nego = 0 THEN gen ELSE nego
                      /\ UNCHANGED left
                /\ UNCHANGED <<call, started, with, rufrag, await_answer, held, rrestarts,
                               tmr_rrestart>>
    /\ UNCHANGED <<told, peer, rsig, secure, dtls, gen, gather, tmr, released,
                   restarting, primed, signalled, hung, crossed, restarts>>

\* Mutant: the poll goes on for as long as the handshake does.
ReofferDeadline_Forever ==
    /\ tmr_reoffer /\ call # "closed"
    /\ \/ Awaiting(peer) /\ UNCHANGED <<left, tmr_reoffer, call, nego, updated>>
       \/ ~Awaiting(peer) /\ tmr_reoffer' = FALSE /\ EstabRelease /\ UNCHANGED left
    /\ UNCHANGED <<told, peer, rsig, secure, dtls, gen, gather, concluded, laddr, tmr,
                   released, reoffered, restarting, primed, signalled, histVars>>

\* reoffer_deadline(): poll until the handshake is over, or give the offer up.
ReofferDeadline ==
    /\ tmr_reoffer /\ call # "closed"
    /\ \/ /\ Awaiting(peer) /\ left > 0 /\ left' = left - 1
          /\ UNCHANGED <<tmr_reoffer, call, nego, updated>>
       \/ /\ Awaiting(peer) /\ left = 0 /\ tmr_reoffer' = FALSE
          /\ UNCHANGED <<left, call, nego, updated>>
       \/ /\ ~Awaiting(peer) /\ tmr_reoffer' = FALSE /\ EstabRelease /\ UNCHANGED left
    /\ UNCHANGED <<told, peer, rsig, secure, dtls, gen, gather, concluded, laddr, tmr,
                   released, reoffered, restarting, primed, signalled, histVars>>

-----------------------------------------------------------------------------
(* Restarts.                                                               *)

\* vox_ice_restart() with the new local address l: a new inner session under the
\* same call, whose gather always has a deadline.
Restart(l) ==
    /\ gen < MaxGen /\ gen' = gen + 1
    /\ gather' = "going" /\ started' = FALSE /\ with' = NoPeer /\ concluded' = FALSE
    /\ laddr' = l /\ released' = FALSE /\ restarting' = TRUE /\ reoffered' = FALSE
    /\ await_answer' = TRUE /\ sel' = 0 /\ held' = FALSE /\ tmr' = TRUE

restarted == <<gen, gather, started, with, concluded, laddr, released, restarting, reoffered,
               await_answer, sel, held, tmr>>

\* netmon.c restarts ICE for a handover, when no negotiation is under way.
NetRestart ==
    /\ call = "up" /\ nego = 0 /\ ~restarting /\ Restart("host")
    /\ UNCHANGED <<callVars, tmr_reoffer, left, tmr_rrestart, rrestarts, primed,
                   signalled, rufrag, histVars>>

\* rrestart_handler(): EALREADY when a restart is gathering.
RRestart ==
    /\ tmr_rrestart /\ tmr_rrestart' = FALSE
    /\ \/ ~restarting /\ Restart(laddr)
       \/ (restarting \/ gen = MaxGen) /\ UNCHANGED restarted
    /\ UNCHANGED <<callVars, tmr_reoffer, left, rrestarts, primed, signalled, rufrag,
                   histVars>>

-----------------------------------------------------------------------------
(* SDP exchanges: baresip sets the stream to the address in the peer's SDP   *)
(* and calls the update handler last.                                      *)

exchanged == <<tmr, tmr_reoffer, left, released, reoffered, restarting, primed,
               signalled, gen, gather, concluded, laddr, secure, dtls, early, hung>>

\* What the peer may sign: the same credentials or new ones.
NewPeer(new, for) == [u |-> IF new THEN peer.u + 1 ELSE peer.u, for |-> for]

\* Our offer is answered, a restart with new credentials or, by a peer that ignores
\* it, with the old ones; new ones nobody asked for are a restart of the peer.
Answered(new, rs) ==
    LET p == NewPeer(new, nego) IN
    /\ nego # 0 /\ call \in {"invited", "up"} /\ p.u <= MaxU
    /\ call = "invited" => new
    /\ call' = "up" /\ nego' = 0 /\ told' = nego /\ peer' = p /\ rsig' = rs
    /\ restarts' = IF new /\ told = nego THEN restarts + 1 ELSE restarts
    /\ crossed' = (crossed \/ (await_answer /\ nego # gen))
    /\ Update(p, rs) /\ UNCHANGED exchanged

\* The peer rejects a re-INVITE, and the session stays what it was.
Rejected ==
    /\ call = "up" /\ nego # 0 /\ nego' = 0
    /\ UNCHANGED <<call, told, peer, rsig, raddr, secure, dtls, innerVars, shimVars, histVars>>

\* The peer offers, and the answer carries our SDP as it is.
PeerOffer(own, rs) ==
    LET p == NewPeer(own, told) IN
    /\ call = "up" /\ nego = 0 /\ p.u <= MaxU
    /\ peer' = p /\ rsig' = rs /\ told' = gen
    /\ restarts' = IF own THEN restarts + 1 ELSE restarts
    /\ crossed' = (crossed \/ await_answer)
    /\ Update(p, rs) /\ UNCHANGED <<exchanged, call, nego>>

\* Hold, resume or a plain re-offer: call_modify() outside estab_release().
LocalOffer ==
    /\ call = "up" /\ nego = 0 /\ nego' = gen
    /\ crossed' = (crossed \/ await_answer)
    /\ Update(peer, rsig) /\ UNCHANGED <<exchanged, call, told, peer, rsig, restarts>>

\* The application answers a ringing call.
AnswerCall ==
    /\ call = "ringing" /\ call' = "up" /\ told' = gen
    /\ Update(peer, rsig) /\ UNCHANGED <<exchanged, nego, peer, rsig, restarts, crossed>>

\* The handshake of a stream that has its pair ends.
Secured ==
    /\ call = "up" /\ dtls /\ ~secure /\ raddr = "pair" /\ secure' = TRUE
    /\ UNCHANGED <<call, nego, told, peer, rsig, raddr, dtls, innerVars, shimVars, histVars>>

\* The call ends: sess_destructor() stops the three timers.
Hangup ==
    /\ call # "closed" /\ call' = "closed" /\ hung' = TRUE
    /\ tmr' = FALSE /\ tmr_reoffer' = FALSE /\ tmr_rrestart' = FALSE
    /\ restarting' = FALSE
    /\ UNCHANGED <<nego, told, peer, rsig, raddr, secure, dtls, innerVars, left,
                   released, reoffered, await_answer, rrestarts, primed, signalled, sel, held,
                   rufrag, early, crossed, restarts>>

Next ==
    \/ \E ok \in BOOLEAN, l \in Addrs : IceEstab(ok, l)
    \/ Deadline \/ ReofferDeadline \/ NetRestart \/ RRestart
    \/ \E l \in Addrs : IceConnected(l)
    \/ \E new \in BOOLEAN, rs \in 1 .. 2 : Answered(new, rs) \/ PeerOffer(new, rs)
    \/ Rejected \/ LocalOffer \/ AnswerCall \/ Secured \/ Hangup

Spec == Init /\ [][Next]_vars
FairSpec == Spec /\ WF_vars(Deadline) /\ WF_vars(ReofferDeadline)

-----------------------------------------------------------------------------
(* Properties.                                                             *)

\* Every variable has its type.
TypeOK ==
    /\ call \in {"outgoing", "invited", "arriving", "ringing", "up", "closed"}
    /\ gen \in 1 .. MaxGen /\ nego \in 0 .. gen /\ told \in 0 .. gen
    /\ peer \in [u : 0 .. MaxU, for : 0 .. MaxGen] /\ with \in [u : 0 .. MaxU, for : 0 .. MaxGen]
    /\ raddr \in {"none", "sdp", "pair"} /\ sel \in 0 .. 2 /\ rufrag \in 0 .. MaxU
    /\ rrestarts \in 0 .. MaxRemote /\ left \in 0 .. Polls

\* The checks of a generation run against credentials the peer wrote knowing that
\* generation, never against those it replaces, when no other exchange came between
\* the restart and its answer.
ChecksCurrent == started /\ ~crossed => with.for = gen

\* However many exchanges reset the stream to the address in the peer's SDP, it
\* sends to the pair the checks found, for as long as that pair stands; and a pair
\* found while the phone rang is delivered by the answer and not before.
SendsToPair ==
    /\ call = "up" => ~held
    /\ call = "up" /\ sel # 0 => raddr = "pair" /\ concluded
    /\ ~early

\* Our restarts that answer the peer's never outnumber the restarts the peer
\* decided on, so two ends that answer each other do not go on for ever, when no
\* other exchange came between a restart of ours and its answer: such an exchange is
\* taken for the answer, and the answer then for a restart of the peer.
NoEcho == ~crossed => rrestarts <= restarts

\* Once a call is up, no report of the media-NAT ends it.
FailureSparesCall == [][call = "up" /\ call' = "closed" => hung']_vars

\* With a deadline armed, a STUN server that never answers does not keep the
\* INVITE back: it goes out, unless somebody hangs up or the first gather reports an
\* error before the deadline, which ends the call without one (ice_shim.c:536, 611).
InviteGoesOut ==
    tmr /\ call = "outgoing"
        ~> call = "invited" \/ hung \/ (call = "closed" /\ gather = "failed")

\* A restart always ends, configured deadline or not.
RestartEnds == restarting ~> ~restarting

\* So does the wait for a handshake that may never finish.
ReofferSettles == tmr_reoffer ~> ~tmr_reoffer
=============================================================================
