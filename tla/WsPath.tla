------------------------------ MODULE WsPath ------------------------------
(***************************************************************************)
(* The WebSocket servers of the live accounts and what every outbound       *)
(* WebSocket is pinned to: ws_path.c, as account.c uses it.                  *)
(*                                                                         *)
(* libre asks for a connection to the address it resolved, of an account's  *)
(* server or of whatever a dialog holds; the override sees only that        *)
(* address, never the account or its name.  It therefore keeps a table of   *)
(* the servers the accounts claimed, as they were configured, and pins      *)
(* every connection when they all name one origin.                         *)
(***************************************************************************)
EXTENDS Naturals, FiniteSets, FiniteSetsExt, Functions

CONSTANTS
    Accounts,       \* accounts that may exist at once
    Servers,        \* origins of WebSocket servers as configured, by name or address
    SockAddrs,      \* origins by address, which is all that libre connects to
    Dead,           \* the loopback ones, which a peer may advertise for itself
    Paths,          \* explicit paths; NoPath for none
    NoPath, None,
    MaxServers,     \* VOX_WS_MAX_SERVERS
    MaxSeq          \* bound on ws_srv_seq

VARIABLES
    claim,          \* claim[a]: the <<origin, path>> account a claimed, or None
    srv,            \* ws_srvv
    seq,            \* ws_srv_seq
    overflow,       \* ws_srv_overflow
    pin,            \* g_vox_ws_server, None when empty
    path,           \* g_vox_ws_path, NoPath when empty
    lost,           \* history: a claim found no slot since there was no account
    dial            \* history: the last connection asked for and made

vars == <<claim, srv, seq, overflow, pin, path, lost, dial>>

Slots == 1 .. MaxServers
Free == [origin |-> None, path |-> NoPath, refs |-> 0, seq |-> 0]
NoDial == [name |-> None, asked |-> None, origin |-> None, path |-> NoPath]

Live == {a \in Accounts : claim[a] # None}
Origins == {claim[a][1] : a \in Live}
ClaimedPaths == {claim[a][2] : a \in Live}

Init ==
    /\ claim = [a \in Accounts |-> None] /\ srv = [i \in Slots |-> Free]
    /\ seq = 0 /\ overflow = FALSE /\ pin = None /\ path = NoPath
    /\ lost = FALSE /\ dial = NoDial

-----------------------------------------------------------------------------
(* The table.                                                              *)

Used(tab) == {i \in Slots : tab[i].refs > 0}

ws_find(tab, c) == {i \in Used(tab) : <<tab[i].origin, tab[i].path>> = c}

\* Mutant: an overflow is forgotten only at exit, so pinning stays off.
ws_recompute_Latch(tab, over) ==
    LET os == {tab[i].origin : i \in Used(tab)}
        ps == {tab[i].path : i \in Used(tab)}
    IN  /\ pin' = IF Cardinality(os) = 1 /\ ~over THEN CHOOSE o \in os : TRUE ELSE None
        /\ path' = IF Cardinality(ps) = 1 THEN CHOOSE p \in ps : TRUE ELSE NoPath
        /\ overflow' = over

\* ws_recompute(): origin and path are decided apart, and an empty table is
\* trusted again.
ws_recompute(tab, over) ==
    LET os == {tab[i].origin : i \in Used(tab)}
        ps == {tab[i].path : i \in Used(tab)}
    IN  /\ pin' = IF Cardinality(os) = 1 /\ ~over THEN CHOOSE o \in os : TRUE ELSE None
        /\ path' = IF Cardinality(ps) = 1 THEN CHOOSE p \in ps : TRUE ELSE NoPath
        /\ overflow' = (over /\ os # {})

\* vox_ws_set_server(), called by account_create_fn() for a WS or WSS account.
SetServer(a, c) ==
    LET found == ws_find(srv, c)
        free  == Slots \ Used(srv)
    IN  /\ claim[a] = None /\ claim' = [claim EXCEPT ![a] = c]
        /\ \/ /\ found # {}
              /\ srv' = [srv EXCEPT ![Min(found)].refs = @ + 1]
              /\ ws_recompute(srv', overflow) /\ UNCHANGED <<seq, lost>>
           \/ /\ found = {} /\ free # {} /\ seq < MaxSeq
              /\ seq' = seq + 1
              /\ srv' = [srv EXCEPT ![Min(free)] =
                            [origin |-> c[1], path |-> c[2], refs |-> 1, seq |-> seq']]
              /\ ws_recompute(srv', overflow) /\ UNCHANGED lost
           \/ /\ found = {} /\ free = {}
              /\ ws_recompute(srv, TRUE) /\ lost' = TRUE /\ UNCHANGED <<srv, seq>>
        /\ dial' = NoDial

\* One account less: the last one frees the slot.
Released(slot) == IF slot.refs = 1 THEN Free ELSE [slot EXCEPT !.refs = @ - 1]

\* vox_ws_unset_server(), called by account_destructor().
UnsetServer(a) ==
    LET found == ws_find(srv, claim[a]) IN
    /\ claim[a] # None /\ claim' = [claim EXCEPT ![a] = None]
    /\ \/ /\ found = {} /\ UNCHANGED <<srv, pin, path, overflow>>
       \/ \E i \in found :
            /\ srv' = [srv EXCEPT ![i] = Released(@)]
            /\ ws_recompute(srv', overflow)
    /\ lost' = (lost /\ Live # {a}) /\ dial' = NoDial /\ UNCHANGED seq

-----------------------------------------------------------------------------
(* Connections.                                                            *)

\* ws_newest(): nothing after an overflow.
ws_newest == IF overflow THEN {} ELSE {i \in Used(srv) : \A j \in Used(srv) : srv[j].seq <= srv[i].seq}

\* Mutant: every loopback address is taken for one a peer advertised.
ws_uri_is_dead_Any(o) == o \in Dead

\* ws_uri_is_dead(): a loopback address no account of ours claimed.
ws_uri_is_dead(o) == o \in Dead /\ \A i \in Used(srv) : srv[i].origin # o

\* The addresses a configured origin resolves to: DNS may say anything of a name.
Resolved(n) == IF n \in SockAddrs THEN {n} ELSE SockAddrs

\* websock_connect() to the address o, which libre resolved from the server n of an
\* account, or found in a dialog (n is None).
Connect(n, o) ==
    LET rescue == IF ws_uri_is_dead(o) THEN ws_newest ELSE {}
        Dial(origin, at) == dial' = [name |-> n, asked |-> o, origin |-> origin, path |-> at]
    IN  /\ \/ pin # None /\ Dial(pin, path)
           \/ pin = None /\ \E i \in rescue : Dial(srv[i].origin, srv[i].path)
           \/ pin = None /\ rescue = {} /\ Dial(o, path)
        /\ UNCHANGED <<claim, srv, seq, overflow, pin, path, lost>>

\* sip_dialog_route(): the WebSocket route of an in-dialog request is rebuilt from
\* the pinned server before libre connects; without one it is left as it is.
InDialog(o) ==
    /\ pin # None
    /\ dial' = [name |-> None, asked |-> o, origin |-> pin, path |-> path]
    /\ UNCHANGED <<claim, srv, seq, overflow, pin, path, lost>>

Next ==
    \/ \E a \in Accounts : UnsetServer(a)
    \/ \E a \in Accounts, o \in Servers, p \in Paths : SetServer(a, <<o, p>>)
    \/ \E n \in Servers : \E o \in Resolved(n) : Connect(n, o)
    \/ \E o \in SockAddrs : Connect(None, o) \/ InDialog(o)

Spec == Init /\ [][Next]_vars

-----------------------------------------------------------------------------
(* Properties.                                                             *)

\* Every variable has its type.
TypeOK ==
    /\ \A a \in Accounts : claim[a] # None => claim[a] \in Servers \X Paths
    /\ \A i \in Slots : srv[i].refs \in 0 .. Cardinality(Accounts) /\ srv[i].seq \in 0 .. MaxSeq
    /\ pin \in Servers \cup {None} /\ path \in Paths \cup {NoPath}
    /\ {overflow, lost} \subseteq BOOLEAN

\* However accounts came and went, connections are pinned exactly while every live
\* account is at one server, and to that one, as long as the table never
\* overflowed: pinning comes back when the accounts of the other server are gone.
\* Likewise the path.
PinExact ==
    ~lost => /\ pin = IF Cardinality(Origins) = 1 THEN CHOOSE o \in Origins : TRUE ELSE None
             /\ path = IF Cardinality(ClaimedPaths) = 1 THEN CHOOSE p \in ClaimedPaths : TRUE
                       ELSE NoPath

\* A connection to a live account's server goes to the address libre resolved or to
\* that server by name, never to another account's, as long as the table never
\* overflowed and the name did not resolve to a loopback address.  Such an address is
\* taken for a peer's own unless an account claims it by number (ws_path.c:253), and
\* a connection to one nobody claims so goes to some account's server and path, which
\* may be another's (README section 4).
DialsRight ==
    ~lost /\ Live # {} /\ dial # NoDial =>
        /\ dial.name \in Origins /\ dial.asked \notin Dead \ Origins
               => dial.origin \in {dial.asked, dial.name}
        /\ dial.asked \in Dead \ Origins =>
               \E a \in Live : /\ claim[a][1] = dial.origin
                               /\ dial.path \in {NoPath, claim[a][2]}
=============================================================================
