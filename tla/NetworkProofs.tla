--------------------------- MODULE NetworkProofs ---------------------------
(***************************************************************************)
(* Proofs about the parts of MCNetwork: the pinning of WebSockets, for any  *)
(* number of accounts, servers and slots, a server lookup, for any number   *)
(* of records, and the ICE layer of a call, for any number of restarts.     *)
(***************************************************************************)
EXTENDS MCNetwork, FiniteSetTheorems, WellFoundedInduction, SequenceFacts, TLAPS

\* Every step of the network run is a step of each part or leaves the part alone.
LEMMA PartSteps ==
    ASSUME [Next]_vars
    PROVE  [Ice!Next]_iceVars /\ [Ws!Next]_wsVars /\ [Dns!Next]_dnsVars
BY DEF Next, vars, iceVars, wsVars, dnsVars

-----------------------------------------------------------------------------
(* Extremes of finite sets.                                                *)

\* The least element of a set of slots is one of them.
LEMMA MinIn ==
    ASSUME NEW S \in SUBSET (1 .. MaxServers), S # {}
    PROVE  Ws!Min(S) \in S
<1>1. IsFiniteSet(S)
  <2>1. 1 \in Int /\ MaxServers \in Int
    BY NetworkAssumption
  <2>2. IsFiniteSet(1 .. MaxServers)
    BY <2>1, FS_Interval
  <2> QED BY <2>2, FS_Subset
<1>2. \E x \in S : \A y \in S : x <= y
  <2> DEFINE f == [x \in S |-> x]
  <2>1. \A x \in S : f[x] \in Int
    OBVIOUS
  <2>2. \E x \in S : \A y \in S : f[x] <= f[y]
    <3> HIDE DEF f
    <3> QED BY <1>1, <2>1, LeastExists
  <2> QED BY <2>2
<1> QED BY <1>2 DEF Ws!Min

-----------------------------------------------------------------------------
(* The pinning of WebSockets.                                              *)

\* WsPath and Dns count as this module does.
LEMMA SameCardinality ==
    ASSUME NEW S
    PROVE  Ws!Cardinality(S) = Cardinality(S) /\ Dns!Cardinality(S) = Cardinality(S)
BY DEF Cardinality, Ws!Cardinality, Dns!Cardinality, IsFiniteSet, Ws!IsFiniteSet, Dns!IsFiniteSet

Key(tab, i) == <<tab[i].origin, tab[i].path>>
OriginsOf(tab) == {tab[i].origin : i \in Ws!Used(tab)}
PathsOf(tab) == {tab[i].path : i \in Ws!Used(tab)}
Claimants(c) == {a \in Accounts : claim[a] = c}

\* A slot of the table.
Slot == [origin : Servers \cup {None}, path : Paths \cup {NoPath}, refs : Nat, seq : 0 .. MaxSeq]

WsTypes ==
    /\ claim \in [Accounts -> (Servers \X Paths) \cup {None}]
    /\ srv \in [Ws!Slots -> Slot]
    /\ seq \in 0 .. MaxSeq /\ overflow \in BOOLEAN /\ lost \in BOOLEAN

\* A used slot is some account's claim, the only slot of it, and counts no more
\* accounts than claimed it.
SlotsBacked ==
    /\ \A i \in Ws!Used(srv) :
        /\ Key(srv, i) \in Servers \X Paths
        /\ srv[i].refs <= Cardinality(Claimants(Key(srv, i)))
    /\ \A i, j \in Ws!Used(srv) : Key(srv, i) = Key(srv, j) => i = j

\* As long as no claim was lost, it counts them all and no claim is without a slot.
ClaimsBacked ==
    ~lost =>
        /\ ~overflow
        /\ \A i \in Ws!Used(srv) : srv[i].refs = Cardinality(Claimants(Key(srv, i)))
        /\ \A a \in Ws!Live : \E i \in Ws!Used(srv) : Key(srv, i) = claim[a]

\* The pinned server and path are the table's.
PinsTable ==
    /\ overflow => Ws!Used(srv) # {}
    /\ pin = IF Cardinality(OriginsOf(srv)) = 1 /\ ~overflow
             THEN CHOOSE o \in OriginsOf(srv) : TRUE ELSE None
    /\ path = IF Cardinality(PathsOf(srv)) = 1 THEN CHOOSE p \in PathsOf(srv) : TRUE ELSE NoPath

WsInv == WsTypes /\ SlotsBacked /\ ClaimsBacked /\ PinsTable /\ Ws!DialsRight

\* What a slot in use is.
LEMMA UsedSlot ==
    ASSUME NEW tab, NEW i
    PROVE  i \in Ws!Used(tab) <=> i \in Ws!Slots /\ tab[i].refs > 0
BY DEF Ws!Used

\* The claimants of a server are finitely many, at least one if there is one.
LEMMA ClaimantsFinite ==
    ASSUME NEW c
    PROVE  /\ IsFiniteSet(Claimants(c)) /\ Cardinality(Claimants(c)) \in Nat
           /\ Cardinality(Claimants(c)) <= Cardinality(Accounts) /\ Cardinality(Accounts) \in Nat
           /\ Cardinality(Claimants(c)) = 0 <=> Claimants(c) = {}
<1>1. IsFiniteSet(Accounts) /\ Claimants(c) \in SUBSET Accounts
  BY NetworkAssumption DEF Claimants
<1>2. IsFiniteSet(Claimants(c)) /\ Cardinality(Claimants(c)) <= Cardinality(Accounts)
  BY <1>1, FS_Subset
<1> QED BY <1>1, <1>2, FS_CardinalityType, FS_EmptySet

\* While no claim was lost, the table holds the origins and the paths claimed.
LEMMA TableExact ==
    ASSUME WsTypes, SlotsBacked, ClaimsBacked, ~lost
    PROVE  /\ OriginsOf(srv) = Ws!Origins /\ PathsOf(srv) = Ws!ClaimedPaths
           /\ \A i \in Ws!Used(srv) : \E a \in Ws!Live : claim[a] = Key(srv, i)
<1>1. ASSUME NEW i \in Ws!Used(srv)
      PROVE  \E a \in Ws!Live : claim[a] = Key(srv, i)
  <2> DEFINE c == Key(srv, i)
  <2>1. c \in Servers \X Paths /\ srv[i].refs = Cardinality(Claimants(c)) /\ srv[i].refs > 0
    BY <1>1, UsedSlot DEF SlotsBacked, ClaimsBacked
  <2> HIDE DEF c
  <2>2. Claimants(c) # {}
    BY <2>1, ClaimantsFinite
  <2>3. PICK a \in Accounts : claim[a] = c
    BY <2>2 DEF Claimants
  <2>4. c # None
    BY <2>1, NetworkAssumption
  <2> QED BY <2>3, <2>4 DEF Ws!Live, c
<1>2. ASSUME NEW a \in Ws!Live
      PROVE  \E i \in Ws!Used(srv) : Key(srv, i) = claim[a]
  BY <1>2 DEF ClaimsBacked
<1>3. \A i : Key(srv, i)[1] = srv[i].origin /\ Key(srv, i)[2] = srv[i].path
  BY DEF Key
<1>4. OriginsOf(srv) = Ws!Origins
  <2>1. ASSUME NEW o \in OriginsOf(srv) PROVE o \in Ws!Origins
    BY <1>1, <1>3, <2>1 DEF OriginsOf, Ws!Origins
  <2>2. ASSUME NEW o \in Ws!Origins PROVE o \in OriginsOf(srv)
    BY <1>2, <1>3, <2>2 DEF OriginsOf, Ws!Origins
  <2> QED BY <2>1, <2>2
<1>5. PathsOf(srv) = Ws!ClaimedPaths
  <2>1. ASSUME NEW o \in PathsOf(srv) PROVE o \in Ws!ClaimedPaths
    BY <1>1, <1>3, <2>1 DEF PathsOf, Ws!ClaimedPaths
  <2>2. ASSUME NEW o \in Ws!ClaimedPaths PROVE o \in PathsOf(srv)
    BY <1>2, <1>3, <2>2 DEF PathsOf, Ws!ClaimedPaths
  <2> QED BY <2>1, <2>2
<1> QED BY <1>1, <1>4, <1>5

\* ws_recompute() pins what its table says.
LEMMA Recomputed ==
    ASSUME NEW over \in BOOLEAN, Ws!ws_recompute(srv', over)
    PROVE  /\ PinsTable' /\ overflow' \in BOOLEAN /\ (overflow' => over)
<1> DEFINE os == OriginsOf(srv')
           ps == PathsOf(srv')
<1>1. /\ pin' = IF Cardinality(os) = 1 /\ ~over THEN CHOOSE o \in os : TRUE ELSE None
      /\ path' = IF Cardinality(ps) = 1 THEN CHOOSE p \in ps : TRUE ELSE NoPath
      /\ overflow' = (over /\ os # {})
  <2>1. pin' = IF Cardinality(os) = 1 /\ ~over THEN CHOOSE o \in os : TRUE ELSE None
    <3>1. pin' = IF Ws!Cardinality(os) = 1 /\ ~over THEN CHOOSE o \in os : TRUE ELSE None
      BY Zenon DEF Ws!ws_recompute, OriginsOf
    <3>2. Ws!Cardinality(os) = Cardinality(os)
      BY SameCardinality
    <3> QED BY <3>1, <3>2
  <2>2. path' = IF Cardinality(ps) = 1 THEN CHOOSE p \in ps : TRUE ELSE NoPath
    <3>1. path' = IF Ws!Cardinality(ps) = 1 THEN CHOOSE p \in ps : TRUE ELSE NoPath
      BY Zenon DEF Ws!ws_recompute, PathsOf
    <3>2. Ws!Cardinality(ps) = Cardinality(ps)
      BY SameCardinality
    <3> QED BY <3>1, <3>2
  <2>3. overflow' = (over /\ os # {})
    BY Zenon DEF Ws!ws_recompute, OriginsOf
  <2> QED BY <2>1, <2>2, <2>3
<1>2. os = {} <=> Ws!Used(srv') = {}
  BY DEF OriginsOf
<1>3. Cardinality(os) = 1 => os # {}
  BY FS_EmptySet
<1>4. pin' = IF Cardinality(os) = 1 /\ ~overflow' THEN CHOOSE o \in os : TRUE ELSE None
  BY <1>1, <1>3
<1> QED BY <1>1, <1>2, <1>4 DEF PinsTable

\* The table is empty when nobody is left, so that it is trusted again.
LEMMA NobodyLeft ==
    ASSUME WsTypes, SlotsBacked, PinsTable, Ws!Live = {}
    PROVE  ClaimsBacked
<1>1. Ws!Used(srv) = {}
  <2> SUFFICES ASSUME NEW i \in Ws!Used(srv) PROVE FALSE
    OBVIOUS
  <2> DEFINE c == Key(srv, i)
  <2>1. c \in Servers \X Paths /\ srv[i].refs <= Cardinality(Claimants(c)) /\ srv[i].refs > 0
    BY UsedSlot DEF SlotsBacked
  <2>2. srv[i].refs \in Nat
    BY UsedSlot DEF WsTypes, Slot
  <2> HIDE DEF c
  <2>3. Claimants(c) # {}
    BY <2>1, <2>2, ClaimantsFinite
  <2> QED BY <2>1, <2>3, NetworkAssumption DEF Claimants, Ws!Live
<1> QED BY <1>1 DEF ClaimsBacked, PinsTable, WsTypes

\* The same of the next state.
LEMMA NobodyLeftNext ==
    (WsTypes /\ SlotsBacked /\ PinsTable /\ Ws!Live = {} => ClaimsBacked)'
<1>1. WsTypes /\ SlotsBacked /\ PinsTable /\ Ws!Live = {} => ClaimsBacked
  BY NobodyLeft
<1> QED BY <1>1, PTL

\* An account more among the claimants of c.
LEMMA ClaimGains ==
    ASSUME WsTypes, NEW a \in Accounts, NEW c \in Servers \X Paths, claim[a] = None,
           claim' = [claim EXCEPT ![a] = c]
    PROVE  /\ claim' \in [Accounts -> (Servers \X Paths) \cup {None}]
           /\ Cardinality(Claimants(c)') = Cardinality(Claimants(c)) + 1
           /\ \A d \in Servers \X Paths : d # c => Claimants(d)' = Claimants(d)
           /\ Ws!Live' = Ws!Live \cup {a}
           /\ \A b \in Ws!Live : claim'[b] = claim[b]
           /\ claim'[a] = c
<1>1. c # None /\ claim \in [Accounts -> (Servers \X Paths) \cup {None}]
  BY NetworkAssumption DEF WsTypes
<1>2. \A b \in Accounts : claim'[b] = IF b = a THEN c ELSE claim[b]
  BY <1>1
<1>3. Claimants(c)' = Claimants(c) \cup {a} /\ a \notin Claimants(c)
  BY <1>1, <1>2 DEF Claimants
<1>4. Cardinality(Claimants(c)') = Cardinality(Claimants(c)) + 1
  BY <1>3, ClaimantsFinite, FS_AddElement
<1>5. ASSUME NEW d \in Servers \X Paths, d # c PROVE Claimants(d)' = Claimants(d)
  <2>1. d # None
    BY NetworkAssumption
  <2> QED BY <1>2, <1>5, <2>1 DEF Claimants
<1>6. Ws!Live' = Ws!Live \cup {a} /\ a \notin Ws!Live
  BY <1>1, <1>2 DEF Ws!Live
<1> QED BY <1>1, <1>2, <1>4, <1>5, <1>6 DEF Ws!Live

\* One account less.
LEMMA ClaimLoses ==
    ASSUME WsTypes, NEW a \in Accounts, claim[a] # None, claim' = [claim EXCEPT ![a] = None]
    PROVE  /\ claim' \in [Accounts -> (Servers \X Paths) \cup {None}]
           /\ claim[a] \in Servers \X Paths
           /\ Cardinality(Claimants(claim[a])) \in Nat \ {0}
           /\ \A c : c = claim[a] => Cardinality(Claimants(c)') = Cardinality(Claimants(c)) - 1
           /\ \A d \in Servers \X Paths : d # claim[a] => Claimants(d)' = Claimants(d)
           /\ Ws!Live' = Ws!Live \ {a}
           /\ \A b \in Ws!Live' : claim'[b] = claim[b]
<1>1. claim \in [Accounts -> (Servers \X Paths) \cup {None}]
  BY DEF WsTypes
<1>2. \A b \in Accounts : claim'[b] = IF b = a THEN None ELSE claim[b]
  BY <1>1
<1>3. ASSUME NEW c, c = claim[a]
      PROVE  Claimants(c)' = Claimants(c) \ {a} /\ a \in Claimants(c)
  BY <1>2, <1>3 DEF Claimants
<1>4. ASSUME NEW c, c = claim[a]
      PROVE  Cardinality(Claimants(c)') = Cardinality(Claimants(c)) - 1
  BY <1>3, <1>4, ClaimantsFinite, FS_RemoveElement
<1>5. ASSUME NEW d \in Servers \X Paths, d # claim[a] PROVE Claimants(d)' = Claimants(d)
  <2>1. d # None
    BY NetworkAssumption
  <2> QED BY <1>2, <1>5, <2>1 DEF Claimants
<1>6. Ws!Live' = Ws!Live \ {a}
  BY <1>2 DEF Ws!Live
<1>7. Cardinality(Claimants(claim[a])) \in Nat \ {0}
  BY <1>3, ClaimantsFinite
<1>8. \A b \in Ws!Live' : claim'[b] = claim[b]
  BY <1>2 DEF Ws!Live
<1>9. claim' \in [Accounts -> (Servers \X Paths) \cup {None}]
  BY <1>1
<1>10. claim[a] \in Servers \X Paths
  BY <1>1
<1> QED BY <1>4, <1>5, <1>6, <1>7, <1>8, <1>9, <1>10

\* A claim leaves a sound table, whether it finds a slot, takes one or finds none.
LEMMA SetKeeps ==
    ASSUME WsInv, NEW a \in Accounts, NEW c \in Servers \X Paths, Ws!SetServer(a, c)
    PROVE  WsInv'
<1> USE DEF Ws!Slots
<1> DEFINE found == Ws!ws_find(srv, c)
           free  == Ws!Slots \ Ws!Used(srv)
<1>t. /\ claim \in [Accounts -> (Servers \X Paths) \cup {None}]
      /\ srv \in [Ws!Slots -> Slot] /\ seq \in 0 .. MaxSeq /\ overflow \in BOOLEAN /\ lost \in BOOLEAN
      /\ \A i \in Ws!Slots : srv[i] \in Slot /\ srv[i].refs \in Nat
  BY DEF WsInv, WsTypes, Slot
<1>0. MaxServers \in Nat /\ MaxSeq \in Nat
  BY NetworkAssumption
<1>1. claim[a] = None /\ claim' = [claim EXCEPT ![a] = c] /\ dial' = Ws!NoDial
  BY DEF Ws!SetServer
<1>2. /\ claim' \in [Accounts -> (Servers \X Paths) \cup {None}]
      /\ Cardinality(Claimants(c)') = Cardinality(Claimants(c)) + 1
      /\ \A d \in Servers \X Paths : d # c => Claimants(d)' = Claimants(d)
      /\ Ws!Live' = Ws!Live \cup {a} /\ (\A b \in Ws!Live : claim'[b] = claim[b]) /\ claim'[a] = c
  BY <1>1, ClaimGains DEF WsInv
<1>3. Ws!DialsRight'
  BY <1>1 DEF Ws!DialsRight, Ws!NoDial
<1>4. ASSUME NEW d PROVE Cardinality(Claimants(d)) \in Nat
  BY ClaimantsFinite
<1>b. /\ \A i \in Ws!Used(srv) : /\ Key(srv, i) \in Servers \X Paths
                                 /\ srv[i].refs <= Cardinality(Claimants(Key(srv, i)))
      /\ \A i, j \in Ws!Used(srv) : Key(srv, i) = Key(srv, j) => i = j
  BY DEF WsInv, SlotsBacked
<1>u. \A i : i \in Ws!Used(srv) <=> i \in Ws!Slots /\ srv[i].refs > 0
  BY UsedSlot
<1>v. \A i : i \in Ws!Used(srv)' <=> i \in Ws!Slots /\ srv'[i].refs > 0
  BY DEF Ws!Used
<1>5. CASE found # {} /\ srv' = [srv EXCEPT ![Ws!Min(found)].refs = @ + 1]
           /\ Ws!ws_recompute(srv', overflow) /\ UNCHANGED <<seq, lost>>
  <2> DEFINE k == Ws!Min(found)
  <2>1. k \in Ws!Used(srv) /\ Key(srv, k) = c
    <3>1. found \in SUBSET (1 .. MaxServers) /\ found # {}
      BY <1>5, <1>u DEF Ws!ws_find
    <3>2. k \in found
      BY <3>1, MinIn
    <3> QED BY <3>2 DEF Ws!ws_find, Key
  <2> HIDE DEF k, found
  <2>2. srv' = [srv EXCEPT ![k].refs = @ + 1]
    BY <1>5 DEF k
  <2>3. k \in Ws!Slots /\ srv[k] \in Slot /\ srv[k].refs \in Nat
    BY <1>t, <1>u, <2>1
  <2>4. /\ srv' \in [Ws!Slots -> Slot]
        /\ srv'[k].refs = srv[k].refs + 1 /\ Key(srv', k) = c
        /\ \A i \in Ws!Slots : i # k => srv'[i] = srv[i]
    <3>1. [srv[k] EXCEPT !.refs = @ + 1] \in Slot
      BY <2>3 DEF Slot
    <3>2. srv' = [srv EXCEPT ![k] = [srv[k] EXCEPT !.refs = @ + 1]]
      BY <2>2
    <3>3. srv'[k] = [srv[k] EXCEPT !.refs = @ + 1]
      BY <1>t, <2>3, <3>2
    <3>4. srv'[k].refs = srv[k].refs + 1 /\ Key(srv', k) = Key(srv, k)
      BY <2>3, <3>3 DEF Slot, Key
    <3> QED BY <1>t, <2>1, <2>3, <3>1, <3>2, <3>4
  <2>5. \A i : i \in Ws!Used(srv)' <=> i \in Ws!Used(srv)
    BY <1>t, <1>u, <1>v, <2>1, <2>3, <2>4
  <2>6. \A i \in Ws!Used(srv) : Key(srv, i)' = Key(srv, i)
    BY <1>u, <2>1, <2>4 DEF Key
  <2>7. \A i \in Ws!Used(srv) : i # k => Key(srv, i) # c /\ srv'[i] = srv[i]
    BY <1>b, <1>u, <2>1, <2>4
  <2>8. SlotsBacked'
    <3>1. ASSUME NEW i \in Ws!Used(srv)
          PROVE  /\ Key(srv, i)' \in Servers \X Paths
                 /\ srv'[i].refs <= Cardinality(Claimants(Key(srv, i))')
      <4>1. CASE i = k
        BY <1>2, <1>4, <1>b, <2>1, <2>3, <2>4, <2>6, <4>1
      <4>2. CASE i # k
        BY <1>2, <1>b, <2>6, <2>7, <4>2
      <4> QED BY <4>1, <4>2
    <3> QED BY <1>b, <2>5, <2>6, <3>1 DEF SlotsBacked
  <2>9. PinsTable' /\ overflow' \in BOOLEAN /\ (overflow' => overflow)
    BY <1>5, <1>t, Recomputed
  <2>10. ClaimsBacked'
    <3> SUFFICES ASSUME ~lost' PROVE
                 /\ ~overflow'
                 /\ \A i \in Ws!Used(srv)' : srv'[i].refs = Cardinality(Claimants(Key(srv, i))')
                 /\ \A b \in Ws!Live' : \E i \in Ws!Used(srv)' : Key(srv, i)' = claim'[b]
      BY DEF ClaimsBacked
    <3>1. /\ ~overflow
          /\ \A i \in Ws!Used(srv) : srv[i].refs = Cardinality(Claimants(Key(srv, i)))
          /\ \A b \in Ws!Live : \E i \in Ws!Used(srv) : Key(srv, i) = claim[b]
      BY <1>5 DEF WsInv, ClaimsBacked
    <3>2. ASSUME NEW i \in Ws!Used(srv) PROVE srv'[i].refs = Cardinality(Claimants(Key(srv, i))')
      <4>1. CASE i = k
        BY <1>2, <2>1, <2>4, <2>6, <3>1, <4>1
      <4>2. CASE i # k
        BY <1>2, <1>b, <2>6, <2>7, <3>1, <4>2
      <4> QED BY <4>1, <4>2
    <3>3. ASSUME NEW b \in Ws!Live' PROVE \E i \in Ws!Used(srv)' : Key(srv, i)' = claim'[b]
      BY <1>2, <2>1, <2>5, <2>6, <3>1, <3>3
    <3> QED BY <2>5, <2>9, <3>1, <3>2, <3>3
  <2> QED BY <1>2, <1>3, <1>5, <1>t, <2>4, <2>8, <2>9, <2>10 DEF WsInv, WsTypes
<1>6. CASE found = {} /\ free # {} /\ seq < MaxSeq /\ seq' = seq + 1
           /\ srv' = [srv EXCEPT ![Ws!Min(free)] =
                        [origin |-> c[1], path |-> c[2], refs |-> 1, seq |-> seq']]
           /\ Ws!ws_recompute(srv', overflow) /\ UNCHANGED lost
  <2> DEFINE r == [origin |-> c[1], path |-> c[2], refs |-> 1, seq |-> seq + 1]
  <2>1. PICK k \in Ws!Slots : k = Ws!Min(free) /\ k \notin Ws!Used(srv)
    <3>1. free \in SUBSET (1 .. MaxServers) /\ free # {}
      BY <1>6
    <3>2. Ws!Min(free) \in free
      BY <3>1, MinIn
    <3> QED BY <3>2
  <2>2. srv' = [srv EXCEPT ![k] = r] /\ seq' \in 0 .. MaxSeq /\ seq + 1 \in 0 .. MaxSeq
    BY <1>0, <1>6, <1>t, <2>1
  <2>3. r \in Slot /\ r.refs = 1 /\ <<r.origin, r.path>> = c
    BY <2>2 DEF Slot
  <2> HIDE DEF r
  <2>4. /\ srv' \in [Ws!Slots -> Slot] /\ srv'[k] = r
        /\ srv'[k].refs = 1 /\ Key(srv', k) = c
        /\ \A i \in Ws!Slots : i # k => srv'[i] = srv[i]
    BY <1>t, <2>1, <2>2, <2>3 DEF Key
  <2>5. Ws!Used(srv)' = Ws!Used(srv) \cup {k}
    BY <1>u, <1>v, <2>1, <2>4
  <2>6. \A i \in Ws!Used(srv) : Key(srv, i)' = Key(srv, i) /\ srv'[i] = srv[i]
    BY <1>u, <2>1, <2>4 DEF Key
  <2>7. \A i \in Ws!Used(srv) : Key(srv, i) # c
    BY <1>6 DEF Ws!ws_find, Key
  <2>k. Key(srv, k)' = c
    BY <2>4 DEF Key
  <2>8. SlotsBacked'
    <3>1. ASSUME NEW i \in Ws!Used(srv)'
          PROVE  /\ Key(srv, i)' \in Servers \X Paths
                 /\ srv'[i].refs <= Cardinality(Claimants(Key(srv, i))')
      <4>1. CASE i = k
        BY <1>2, <1>4, <2>4, <2>k, <4>1
      <4>2. CASE i # k
        BY <1>2, <1>b, <2>5, <2>6, <2>7, <3>1, <4>2
      <4> QED BY <4>1, <4>2
    <3>2. ASSUME NEW i \in Ws!Used(srv)', NEW j \in Ws!Used(srv)', Key(srv, i)' = Key(srv, j)'
          PROVE  i = j
      BY <1>b, <2>5, <2>6, <2>7, <2>k, <3>2
    <3> QED BY <3>1, <3>2 DEF SlotsBacked
  <2>9. PinsTable' /\ overflow' \in BOOLEAN /\ (overflow' => overflow)
    BY <1>6, <1>t, Recomputed
  <2>10. ClaimsBacked'
    <3> SUFFICES ASSUME ~lost' PROVE
                 /\ ~overflow'
                 /\ \A i \in Ws!Used(srv)' : srv'[i].refs = Cardinality(Claimants(Key(srv, i))')
                 /\ \A b \in Ws!Live' : \E i \in Ws!Used(srv)' : Key(srv, i)' = claim'[b]
      BY DEF ClaimsBacked
    <3>1. /\ ~overflow
          /\ \A i \in Ws!Used(srv) : srv[i].refs = Cardinality(Claimants(Key(srv, i)))
          /\ \A b \in Ws!Live : \E i \in Ws!Used(srv) : Key(srv, i) = claim[b]
      BY <1>6 DEF WsInv, ClaimsBacked
    <3>2. Cardinality(Claimants(c)) = 0
      <4>1. c # None
        BY NetworkAssumption
      <4>2. Claimants(c) = {}
        BY <2>7, <3>1, <4>1 DEF Claimants, Ws!Live
      <4> QED BY <4>2, ClaimantsFinite
    <3>3. ASSUME NEW i \in Ws!Used(srv)' PROVE srv'[i].refs = Cardinality(Claimants(Key(srv, i))')
      <4>1. CASE i = k
        BY <1>2, <2>4, <2>k, <3>2, <4>1
      <4>2. CASE i # k
        BY <1>2, <1>b, <2>5, <2>6, <2>7, <3>1, <3>3, <4>2
      <4> QED BY <4>1, <4>2
    <3>4. ASSUME NEW b \in Ws!Live' PROVE \E i \in Ws!Used(srv)' : Key(srv, i)' = claim'[b]
      BY <1>2, <2>5, <2>6, <2>k, <3>1, <3>4
    <3> QED BY <2>9, <3>1, <3>3, <3>4
  <2> QED BY <1>2, <1>3, <1>6, <1>t, <2>2, <2>4, <2>8, <2>9, <2>10 DEF WsInv, WsTypes
<1>7. CASE found = {} /\ free = {} /\ Ws!ws_recompute(srv, TRUE) /\ lost' = TRUE
           /\ UNCHANGED <<srv, seq>>
  <2>1. Ws!Used(srv)' = Ws!Used(srv) /\ \A i : Key(srv, i)' = Key(srv, i)
    BY <1>7 DEF Ws!Used, Key
  <2>2. Ws!ws_recompute(srv', TRUE)
    BY <1>7 DEF Ws!ws_recompute
  <2>3. PinsTable' /\ overflow' \in BOOLEAN
    BY <2>2, Recomputed
  <2>4. \A i \in Ws!Used(srv) : Key(srv, i) # c
    BY <1>7 DEF Ws!ws_find, Key
  <2>5. SlotsBacked'
    BY <1>2, <1>7, <1>b, <2>1, <2>4 DEF SlotsBacked
  <2>6. ClaimsBacked'
    BY <1>7 DEF ClaimsBacked
  <2> QED BY <1>2, <1>3, <1>7, <1>t, <2>3, <2>5, <2>6 DEF WsInv, WsTypes
<1> QED BY <1>5, <1>6, <1>7 DEF Ws!SetServer

\* So does an account that goes, with a slot or without.
LEMMA UnsetKeeps ==
    ASSUME WsInv, NEW a \in Accounts, Ws!UnsetServer(a)
    PROVE  WsInv'
<1> USE DEF Ws!Slots
<1>t. /\ claim \in [Accounts -> (Servers \X Paths) \cup {None}]
      /\ srv \in [Ws!Slots -> Slot] /\ seq \in 0 .. MaxSeq /\ overflow \in BOOLEAN /\ lost \in BOOLEAN
      /\ \A i \in Ws!Slots : srv[i] \in Slot /\ srv[i].refs \in Nat
  BY DEF WsInv, WsTypes, Slot
<1>1. /\ claim[a] # None /\ claim' = [claim EXCEPT ![a] = None] /\ dial' = Ws!NoDial
      /\ lost' = (lost /\ Ws!Live # {a}) /\ UNCHANGED seq
  BY DEF Ws!UnsetServer
<1>c. PICK c \in Servers \X Paths : c = claim[a]
  BY <1>1, <1>t
<1>2. /\ claim' \in [Accounts -> (Servers \X Paths) \cup {None}]
      /\ Cardinality(Claimants(c)) \in Nat \ {0}
      /\ Cardinality(Claimants(c)') = Cardinality(Claimants(c)) - 1
      /\ \A d \in Servers \X Paths : d # c => Claimants(d)' = Claimants(d)
      /\ Ws!Live' = Ws!Live \ {a} /\ \A b \in Ws!Live' : claim'[b] = claim[b]
  BY <1>1, <1>c, ClaimLoses DEF WsInv
<1>3. Ws!DialsRight'
  BY <1>1 DEF Ws!DialsRight, Ws!NoDial
<1>b. /\ \A i \in Ws!Used(srv) : /\ Key(srv, i) \in Servers \X Paths
                                 /\ srv[i].refs <= Cardinality(Claimants(Key(srv, i)))
      /\ \A i, j \in Ws!Used(srv) : Key(srv, i) = Key(srv, j) => i = j
  BY DEF WsInv, SlotsBacked
<1>u. \A i : i \in Ws!Used(srv) <=> i \in Ws!Slots /\ srv[i].refs > 0
  BY UsedSlot
<1>v. \A i : i \in Ws!Used(srv)' <=> i \in Ws!Slots /\ srv'[i].refs > 0
  BY DEF Ws!Used
<1>4. a \in Ws!Live
  BY <1>1 DEF Ws!Live
\* Either no claim had been lost, or the table starts over.
<1>i. ASSUME srv' \in [Ws!Slots -> Slot], overflow' \in BOOLEAN, SlotsBacked', PinsTable',
             ~lost => ClaimsBacked'
      PROVE  WsInv'
  <2>1. WsTypes'
    BY <1>1, <1>2, <1>i, <1>t DEF WsTypes
  <2>2. CASE ~lost
    BY <1>3, <1>i, <2>1, <2>2 DEF WsInv
  <2>3. CASE lost /\ Ws!Live # {a}
    BY <1>1, <1>3, <1>i, <2>1, <2>3 DEF WsInv, ClaimsBacked
  <2>4. CASE lost /\ Ws!Live = {a}
    <3>1. Ws!Live' = {}
      BY <1>2, <2>4
    <3>2. WsTypes' /\ SlotsBacked' /\ PinsTable' /\ Ws!Live' = {} => ClaimsBacked'
      BY NobodyLeftNext
    <3> QED BY <1>3, <1>i, <2>1, <3>1, <3>2 DEF WsInv
  <2> QED BY <2>2, <2>3, <2>4, <1>t
<1>5. CASE Ws!ws_find(srv, claim[a]) = {} /\ UNCHANGED <<srv, pin, path, overflow>>
  <2>1. \A i \in Ws!Used(srv) : Key(srv, i) # c
    BY <1>5, <1>c DEF Ws!ws_find, Key
  <2>2. Ws!Used(srv)' = Ws!Used(srv) /\ (\A i : Key(srv, i)' = Key(srv, i))
        /\ OriginsOf(srv)' = OriginsOf(srv) /\ PathsOf(srv)' = PathsOf(srv)
    BY <1>5 DEF Ws!Used, Key, OriginsOf, PathsOf
  <2>3. SlotsBacked'
    BY <1>2, <1>5, <1>b, <2>1, <2>2 DEF SlotsBacked
  <2>4. PinsTable'
    <3>1. PinsTable
      BY DEF WsInv
    <3> QED BY <1>5, <2>2, <3>1 DEF PinsTable
  <2>5. lost
    BY <1>4, <1>c, <2>1 DEF WsInv, ClaimsBacked
  <2> QED BY <1>5, <1>i, <1>t, <2>3, <2>4, <2>5
<1>6. ASSUME NEW k \in Ws!ws_find(srv, claim[a]),
             srv' = [srv EXCEPT ![k] = Ws!Released(@)],
             Ws!ws_recompute(srv', overflow)
      PROVE  WsInv'
  <2>1. k \in Ws!Used(srv) /\ Key(srv, k) = c
    BY <1>c, <1>6 DEF Ws!ws_find, Key
  <2> DEFINE r == Ws!Released(srv[k])
  <2>3. k \in Ws!Slots /\ srv[k] \in Slot /\ srv[k].refs \in Nat \ {0}
    BY <1>t, <1>u, <2>1
  <2>4. r \in Slot /\ r.refs = srv[k].refs - 1
        /\ (srv[k].refs # 1 => r.origin = srv[k].origin /\ r.path = srv[k].path)
    <3>1. CASE srv[k].refs = 1
      <4>1. 0 \in 0 .. MaxSeq
        BY NetworkAssumption
      <4> QED BY <2>3, <3>1, <4>1 DEF Ws!Released, Ws!Free, Slot
    <3>2. CASE srv[k].refs # 1
      BY <2>3, <3>2 DEF Ws!Released, Slot
    <3> QED BY <3>1, <3>2
  <2>5. srv' = [srv EXCEPT ![k] = r]
    BY <1>6, Zenon
  <2> HIDE DEF r
  <2>6. srv' \in [Ws!Slots -> Slot] /\ srv'[k] = r /\ \A i \in Ws!Slots : i # k => srv'[i] = srv[i]
    BY <1>t, <2>3, <2>4, <2>5
  <2>7. /\ \A i \in Ws!Used(srv)' : i \in Ws!Used(srv) /\ Key(srv, i)' = Key(srv, i)
        /\ \A i \in Ws!Used(srv) : i # k => i \in Ws!Used(srv)' /\ srv'[i] = srv[i]
        /\ k \in Ws!Used(srv)' <=> srv[k].refs # 1
    BY <1>u, <1>v, <2>3, <2>4, <2>6 DEF Key
  <2>8. \A i \in Ws!Used(srv) : i # k => Key(srv, i) # c
    BY <1>b, <2>1
  <2>9. SlotsBacked'
    <3>1. ASSUME NEW i \in Ws!Used(srv)'
          PROVE  /\ Key(srv, i)' \in Servers \X Paths
                 /\ srv'[i].refs <= Cardinality(Claimants(Key(srv, i))')
      <4>1. CASE i = k
        BY <1>2, <1>b, <2>1, <2>3, <2>4, <2>6, <2>7, <3>1, <4>1
      <4>2. CASE i # k
        BY <1>2, <1>b, <2>7, <2>8, <3>1, <4>2
      <4> QED BY <4>1, <4>2
    <3> QED BY <1>b, <2>7, <3>1 DEF SlotsBacked
  <2>10. PinsTable' /\ overflow' \in BOOLEAN /\ (overflow' => overflow)
    BY <1>6, <1>t, Recomputed
  <2>11. ASSUME ~lost PROVE ClaimsBacked'
    <3>1. /\ ~overflow
          /\ \A i \in Ws!Used(srv) : srv[i].refs = Cardinality(Claimants(Key(srv, i)))
          /\ \A b \in Ws!Live : \E i \in Ws!Used(srv) : Key(srv, i) = claim[b]
      BY <2>11 DEF WsInv, ClaimsBacked
    <3>2. ASSUME NEW i \in Ws!Used(srv)' PROVE srv'[i].refs = Cardinality(Claimants(Key(srv, i))')
      <4>1. CASE i = k
        BY <1>2, <2>1, <2>4, <2>6, <2>7, <3>1, <3>2, <4>1
      <4>2. CASE i # k
        BY <1>2, <1>b, <2>7, <2>8, <3>1, <3>2, <4>2
      <4> QED BY <4>1, <4>2
    <3>3. ASSUME NEW b \in Ws!Live' PROVE \E i \in Ws!Used(srv)' : Key(srv, i)' = claim'[b]
      <4>1. b \in Ws!Live /\ claim'[b] = claim[b]
        BY <1>2, <3>3
      <4>2. PICK i \in Ws!Used(srv) : Key(srv, i) = claim[b]
        BY <3>1, <4>1
      <4>3. i \in Ws!Used(srv)'
        <5>1. CASE i # k
          BY <2>7, <5>1
        <5>2. CASE i = k
          <6>1. claim'[b] = c /\ b \in Accounts
            BY <2>1, <4>1, <4>2, <5>2 DEF Ws!Live
          <6>2. Claimants(c)' # {}
            BY <6>1 DEF Claimants
          <6>3. Cardinality(Claimants(c)') # 0
            <7>1. \A S : S \in SUBSET Accounts /\ S # {} => Cardinality(S) # 0
              BY NetworkAssumption, FS_Subset, FS_EmptySet
            <7>2. Claimants(c)' \in SUBSET Accounts
              BY DEF Claimants
            <7> QED BY <6>2, <7>1, <7>2
          <6> QED BY <1>2, <2>1, <2>7, <3>1, <5>2, <6>3
        <5> QED BY <5>1, <5>2
      <4> QED BY <2>7, <4>1, <4>2, <4>3
    <3> QED BY <2>10, <3>1, <3>2, <3>3 DEF ClaimsBacked
  <2> QED BY <1>i, <2>6, <2>9, <2>10, <2>11
<1> QED BY <1>5, <1>6 DEF Ws!UnsetServer

\* A set of origins or paths that counts 1 is what CHOOSE picks from it.
LEMMA OnlyOne ==
    ASSUME NEW f, NEW T, T = {f[i] : i \in Ws!Used(srv)}, Cardinality(T) = 1
    PROVE  T = {CHOOSE t \in T : TRUE}
<1>1. IsFiniteSet(Ws!Used(srv))
  <2>1. 1 \in Int /\ MaxServers \in Int
    BY NetworkAssumption
  <2>2. IsFiniteSet(Ws!Slots) /\ Ws!Used(srv) \in SUBSET Ws!Slots
    BY <2>1, FS_Interval DEF Ws!Slots, Ws!Used
  <2> QED BY <2>2, FS_Subset
<1> DEFINE g == [i \in Ws!Used(srv) |-> f[i]]
<1>2. g \in Surjection(Ws!Used(srv), T)
  BY DEF Surjection
<1>3. IsFiniteSet(T)
  BY <1>1, <1>2, FS_Surjection
<1>4. PICK x : T = {x}
  BY <1>3, FS_Singleton
<1> QED BY <1>4

\* A step that leaves the table alone leaves what is known of it.
LEMMA TableFrame ==
    ASSUME WsInv, UNCHANGED <<claim, srv, seq, overflow, pin, path, lost>>
    PROVE  WsTypes' /\ SlotsBacked' /\ ClaimsBacked' /\ PinsTable'
<1>1. /\ Ws!Used(srv)' = Ws!Used(srv) /\ (\A i : Key(srv, i)' = Key(srv, i))
      /\ OriginsOf(srv)' = OriginsOf(srv) /\ PathsOf(srv)' = PathsOf(srv)
      /\ \A d : Claimants(d)' = Claimants(d)
      /\ Ws!Live' = Ws!Live
  BY DEF Ws!Used, Key, OriginsOf, PathsOf, Claimants, Ws!Live
<1>2. WsTypes /\ SlotsBacked /\ ClaimsBacked /\ PinsTable
  BY DEF WsInv
<1>3. WsTypes'
  BY <1>2 DEF WsTypes
<1>4. SlotsBacked'
  BY <1>1, <1>2 DEF SlotsBacked
<1>5. ClaimsBacked'
  BY <1>1, <1>2 DEF ClaimsBacked
<1>6. PinsTable'
  BY <1>1, <1>2 DEF PinsTable
<1> QED BY <1>3, <1>4, <1>5, <1>6

\* A connection goes where DialsRight says.
LEMMA DialKeeps ==
    ASSUME WsInv, NEW n, NEW o, Ws!Connect(n, o) \/ (n = None /\ Ws!InDialog(o))
    PROVE  WsInv'
<1>1. UNCHANGED <<claim, srv, seq, overflow, pin, path, lost>>
  BY DEF Ws!Connect, Ws!InDialog
<1>2. WsTypes' /\ SlotsBacked' /\ ClaimsBacked' /\ PinsTable'
  BY <1>1, TableFrame
<1>3. Ws!DialsRight'
  <2> SUFFICES ASSUME ~lost, Ws!Live # {}
               PROVE  /\ dial'.name \in Ws!Origins /\ dial'.asked \notin Dead \ Ws!Origins
                           => dial'.origin \in {dial'.asked, dial'.name}
                      /\ dial'.asked \in Dead \ Ws!Origins =>
                           \E a \in Ws!Live : /\ claim[a][1] = dial'.origin
                                              /\ dial'.path \in {NoPath, claim[a][2]}
    BY <1>1 DEF Ws!DialsRight, Ws!Live, Ws!Origins
  <2>1. /\ OriginsOf(srv) = Ws!Origins /\ PathsOf(srv) = Ws!ClaimedPaths
        /\ \A i \in Ws!Used(srv) : \E a \in Ws!Live : claim[a] = Key(srv, i)
    BY TableExact DEF WsInv
  <2>2. path = NoPath \/ \A a \in Ws!Live : path = claim[a][2]
    <3>1. CASE Cardinality(PathsOf(srv)) = 1
      <4> DEFINE f == [i \in Ws!Used(srv) |-> srv[i].path]
      <4>1. PathsOf(srv) = {f[i] : i \in Ws!Used(srv)}
        BY DEF PathsOf
      <4>2. PathsOf(srv) = {CHOOSE p \in PathsOf(srv) : TRUE}
        <5> HIDE DEF f
        <5> QED BY <3>1, <4>1, OnlyOne
      <4>3. path = CHOOSE p \in PathsOf(srv) : TRUE
        BY <3>1 DEF WsInv, PinsTable
      <4>4. \A a \in Ws!Live : claim[a][2] \in PathsOf(srv)
        BY <2>1 DEF Ws!ClaimedPaths
      <4> QED BY <4>2, <4>3, <4>4
    <3>2. CASE Cardinality(PathsOf(srv)) # 1
      BY <3>2 DEF WsInv, PinsTable
    <3> QED BY <3>1, <3>2
  <2>3. CASE pin # None /\ dial' = [name |-> n, asked |-> o, origin |-> pin, path |-> path]
    <3>1. Cardinality(OriginsOf(srv)) = 1 /\ pin = CHOOSE x \in OriginsOf(srv) : TRUE
      BY <2>3 DEF WsInv, PinsTable
    <3> DEFINE f == [i \in Ws!Used(srv) |-> srv[i].origin]
    <3>2. OriginsOf(srv) = {f[i] : i \in Ws!Used(srv)}
      BY DEF OriginsOf
    <3>3. Ws!Origins = {pin}
      <4> HIDE DEF f
      <4> QED BY <2>1, <3>1, <3>2, OnlyOne
    <3>4. PICK a \in Ws!Live : claim[a][1] = pin
      BY <3>3 DEF Ws!Origins
    <3> QED BY <2>2, <2>3, <3>3, <3>4
  <2>4. ASSUME Ws!ws_uri_is_dead(o), NEW i \in Ws!ws_newest,
               dial' = [name |-> n, asked |-> o, origin |-> srv[i].origin, path |-> srv[i].path]
        PROVE  /\ dial'.name \in Ws!Origins /\ dial'.asked \notin Dead \ Ws!Origins
                    => dial'.origin \in {dial'.asked, dial'.name}
               /\ dial'.asked \in Dead \ Ws!Origins =>
                    \E a \in Ws!Live : /\ claim[a][1] = dial'.origin
                                       /\ dial'.path \in {NoPath, claim[a][2]}
    <3>1. i \in Ws!Used(srv)
      BY <2>4 DEF Ws!ws_newest
    <3>2. o \in Dead \ Ws!Origins
      BY <2>1, <2>4 DEF Ws!ws_uri_is_dead, OriginsOf
    <3>3. PICK a \in Ws!Live : claim[a] = Key(srv, i)
      BY <2>1, <3>1
    <3>4. claim[a][1] = srv[i].origin /\ claim[a][2] = srv[i].path
      BY <3>3 DEF Key
    <3> QED BY <2>4, <3>2, <3>4
  <2>5. CASE (Ws!ws_uri_is_dead(o) => Ws!ws_newest = {})
             /\ dial' = [name |-> n, asked |-> o, origin |-> o, path |-> path]
    <3>1. ASSUME o \in Dead \ Ws!Origins PROVE FALSE
      <4>1. Ws!ws_uri_is_dead(o)
        BY <2>1, <3>1 DEF Ws!ws_uri_is_dead, OriginsOf
      <4>2. Ws!Used(srv) # {} /\ ~overflow
        BY DEF WsInv, ClaimsBacked
      <4> DEFINE f == [i \in Ws!Used(srv) |-> -srv[i].seq]
      <4>3. \A i \in Ws!Used(srv) : srv[i].seq \in Nat
        BY NetworkAssumption, UsedSlot DEF WsInv, WsTypes, Slot
      <4>4. \A i \in Ws!Used(srv) : f[i] \in Int
        BY <4>3
      <4>5. IsFiniteSet(Ws!Used(srv))
        <5>1. 1 \in Int /\ MaxServers \in Int
          BY NetworkAssumption
        <5>2. IsFiniteSet(Ws!Slots) /\ Ws!Used(srv) \in SUBSET Ws!Slots
          BY <5>1, FS_Interval DEF Ws!Slots, Ws!Used
        <5> QED BY <5>2, FS_Subset
      <4>6. \E i \in Ws!Used(srv) : \A j \in Ws!Used(srv) : f[i] <= f[j]
        <5> HIDE DEF f
        <5> QED BY <4>2, <4>4, <4>5, LeastExists
      <4>7. PICK i \in Ws!Used(srv) : \A j \in Ws!Used(srv) : srv[j].seq <= srv[i].seq
        BY <4>3, <4>6
      <4>8. i \in Ws!ws_newest
        BY <4>2, <4>7 DEF Ws!ws_newest
      <4> QED BY <2>5, <4>1, <4>8
    <3> QED BY <2>5, <3>1
  <2> QED BY <2>3, <2>4, <2>5 DEF Ws!Connect, Ws!InDialog
<1> QED BY <1>2, <1>3 DEF WsInv

\* Nobody is there at the start.
LEMMA WsBegins == Ws!Init => WsInv
<1> SUFFICES ASSUME Ws!Init PROVE WsInv
  OBVIOUS
<1>1. /\ claim = [a \in Accounts |-> None] /\ srv = [i \in Ws!Slots |-> Ws!Free]
      /\ seq = 0 /\ overflow = FALSE /\ pin = None /\ path = NoPath /\ lost = FALSE
      /\ dial = Ws!NoDial
  BY DEF Ws!Init
<1>2. 0 \in 0 .. MaxSeq
  BY NetworkAssumption
<1>3. Ws!Free \in Slot /\ Ws!Free.refs = 0
  BY <1>2 DEF Ws!Free, Slot
<1>4. WsTypes
  BY <1>1, <1>2, <1>3 DEF WsTypes
<1>5. Ws!Used(srv) = {} /\ Ws!Live = {}
  BY <1>1, <1>3 DEF Ws!Used, Ws!Live
<1>6. SlotsBacked /\ ClaimsBacked
  BY <1>1, <1>5 DEF SlotsBacked, ClaimsBacked
<1>7. OriginsOf(srv) = {} /\ PathsOf(srv) = {}
  BY <1>5 DEF OriginsOf, PathsOf
<1>8. PinsTable
  BY <1>1, <1>7, FS_EmptySet DEF PinsTable
<1>9. Ws!DialsRight
  BY <1>1 DEF Ws!DialsRight
<1> QED BY <1>4, <1>6, <1>8, <1>9 DEF WsInv

\* Every step of ws_path.c keeps the invariant.
LEMMA WsSteps ==
    ASSUME WsInv, [Ws!Next]_wsVars
    PROVE  WsInv'
<1>1. ASSUME NEW a \in Accounts, NEW o \in Servers, NEW p \in Paths, Ws!SetServer(a, <<o, p>>)
      PROVE  WsInv'
  <2>1. <<o, p>> \in Servers \X Paths
    OBVIOUS
  <2> QED BY <1>1, <2>1, SetKeeps
<1>2. CASE UNCHANGED wsVars
  <2>1. UNCHANGED <<claim, srv, seq, overflow, pin, path, lost>> /\ dial' = dial
    BY <1>2 DEF wsVars
  <2>2. Ws!Live' = Ws!Live /\ Ws!Origins' = Ws!Origins
    BY <2>1 DEF Ws!Live, Ws!Origins
  <2>3. Ws!DialsRight
    BY DEF WsInv
  <2>4. Ws!DialsRight'
    BY <2>1, <2>2, <2>3 DEF Ws!DialsRight
  <2> QED BY <2>1, <2>4, TableFrame DEF WsInv
<1>3. ASSUME NEW n \in Servers, NEW o \in Ws!Resolved(n), Ws!Connect(n, o) PROVE WsInv'
  BY <1>3, DialKeeps
<1>4. ASSUME NEW o \in SockAddrs, Ws!Connect(None, o) \/ Ws!InDialog(o) PROVE WsInv'
  BY <1>4, DialKeeps
<1>5. ASSUME NEW a \in Accounts, Ws!UnsetServer(a) PROVE WsInv'
  BY <1>5, UnsetKeeps
<1> QED BY <1>1, <1>2, <1>3, <1>4, <1>5 DEF Ws!Next

\* The table's invariant is what the properties say of the accounts.
LEMMA WsSound == WsInv => PinSound
<1> SUFFICES ASSUME WsInv PROVE PinSound
  OBVIOUS
<1>t. /\ claim \in [Accounts -> (Servers \X Paths) \cup {None}]
      /\ srv \in [Ws!Slots -> Slot] /\ overflow \in BOOLEAN /\ lost \in BOOLEAN
      /\ \A i \in Ws!Slots : srv[i].refs \in Nat /\ srv[i].seq \in 0 .. MaxSeq
  BY DEF WsInv, WsTypes, Slot
<1>1. \A i \in Ws!Slots : srv[i].refs \in 0 .. Cardinality(Accounts)
  <2> SUFFICES ASSUME NEW i \in Ws!Slots PROVE srv[i].refs \in 0 .. Cardinality(Accounts)
    OBVIOUS
  <2>1. CASE srv[i].refs > 0
    <3> DEFINE c == Key(srv, i)
    <3>1. srv[i].refs <= Cardinality(Claimants(c))
      BY <2>1, UsedSlot DEF WsInv, SlotsBacked
    <3> HIDE DEF c
    <3> QED BY <1>t, <3>1, ClaimantsFinite
  <2>2. CASE ~(srv[i].refs > 0)
    <3>1. Cardinality(Accounts) \in Nat
      BY NetworkAssumption, FS_CardinalityType
    <3> QED BY <1>t, <2>2, <3>1
  <2> QED BY <2>1, <2>2
<1>2. pin \in Servers \cup {None}
  <2>1. OriginsOf(srv) \subseteq Servers
    BY DEF WsInv, SlotsBacked, OriginsOf, Key
  <2>2. Cardinality(OriginsOf(srv)) = 1 => OriginsOf(srv) # {}
    BY FS_EmptySet
  <2> QED BY <2>1, <2>2 DEF WsInv, PinsTable
<1>3. path \in Paths \cup {NoPath}
  <2>1. PathsOf(srv) \subseteq Paths
    BY DEF WsInv, SlotsBacked, PathsOf, Key
  <2>2. Cardinality(PathsOf(srv)) = 1 => PathsOf(srv) # {}
    BY FS_EmptySet
  <2> QED BY <2>1, <2>2 DEF WsInv, PinsTable
<1>4. Ws!TypeOK
  <2>1. \A i \in Ws!Slots : srv[i].refs \in 0 .. Ws!Cardinality(Accounts)
    BY <1>1, SameCardinality
  <2> QED BY <1>t, <1>2, <1>3, <2>1 DEF Ws!TypeOK
<1>5. Ws!PinExact
  <2> SUFFICES ASSUME ~lost
               PROVE  /\ pin = IF Ws!Cardinality(Ws!Origins) = 1
                               THEN CHOOSE o \in Ws!Origins : TRUE ELSE None
                      /\ path = IF Ws!Cardinality(Ws!ClaimedPaths) = 1
                                THEN CHOOSE p \in Ws!ClaimedPaths : TRUE ELSE NoPath
    BY DEF Ws!PinExact
  <2>1. OriginsOf(srv) = Ws!Origins /\ PathsOf(srv) = Ws!ClaimedPaths /\ ~overflow
    BY TableExact DEF WsInv, ClaimsBacked
  <2>2. /\ Ws!Cardinality(Ws!Origins) = Cardinality(Ws!Origins)
        /\ Ws!Cardinality(Ws!ClaimedPaths) = Cardinality(Ws!ClaimedPaths)
    BY SameCardinality
  <2>3. /\ pin = IF Cardinality(OriginsOf(srv)) = 1
                 THEN CHOOSE o \in OriginsOf(srv) : TRUE ELSE None
        /\ path = IF Cardinality(PathsOf(srv)) = 1
                  THEN CHOOSE p \in PathsOf(srv) : TRUE ELSE NoPath
    BY <2>1 DEF WsInv, PinsTable
  <2> QED BY <2>1, <2>2, <2>3
<1> QED BY <1>4, <1>5 DEF PinSound, WsInv

\* For any number of accounts and slots, and while no claim was lost to a full table,
\* ws_path.c pins every connection exactly while all live accounts share a server, and
\* dials a server only by its resolved address or its own name, but one whose name
\* resolved to a loopback address nobody claims by number.
THEOREM PinIsSound == Spec => []PinSound
<1>1. Init => WsInv
  BY WsBegins DEF Init
<1>2. WsInv /\ [Next]_vars => WsInv'
  BY PartSteps, WsSteps
<1> QED BY <1>1, <1>2, WsSound, PTL DEF Spec

-----------------------------------------------------------------------------
(* A server lookup.                                                        *)

\* What a lookup collects.
Tgt == [tp : Transports \cup {Hint}, host : Hosts \cup {Domain}, pri : Nat, wt : Nat]

\* No target comes after one it must be tried before.
Sorted(s) == \A i, j \in DOMAIN s : i < j => ~Dns!Before(s[j], s[i])

\* What a sequence holds.
Members(s) == {s[i] : i \in DOMAIN s}

\* Lower priority first, then the heavier: a strict order, and its ties are ties.
LEMMA BeforeOrder ==
    ASSUME NEW a \in Tgt, NEW b \in Tgt
    PROVE  /\ Dns!Before(a, b) => ~Dns!Before(b, a)
           /\ \A c \in Tgt : ~Dns!Before(a, b) /\ ~Dns!Before(b, c) => ~Dns!Before(a, c)
BY DEF Dns!Before, Tgt

\* The insertion sort stops somewhere: behind the last target that t does not beat.
LEMMA PlaceFx ==
    ASSUME NEW s \in Seq(Tgt), NEW t \in Tgt
    PROVE  LET k == Dns!Place(s, t) IN
           /\ k \in 0 .. Len(s) /\ (k > 0 => ~Dns!Before(t, s[k]))
           /\ \A j \in k + 1 .. Len(s) : Dns!Before(t, s[j])
<1> DEFINE T == {k \in 0 .. Len(s) : \A j \in k + 1 .. Len(s) : Dns!Before(t, s[j])}
<1>0. Len(s) \in Nat
  OBVIOUS
<1>1. Len(s) \in T
  BY <1>0
<1>2. PICK k \in T : \A y \in T : k <= y
  <2>1. T \in SUBSET (0 .. Len(s)) /\ T # {}
    BY <1>1
  <2> HIDE DEF T
  <2> QED BY <1>0, <2>1, LeastNumber
<1>3. k > 0 => ~Dns!Before(t, s[k])
  <2> SUFFICES ASSUME k > 0, Dns!Before(t, s[k]) PROVE FALSE
    OBVIOUS
  <2>1. k - 1 \in 0 .. Len(s) /\ ~(k <= k - 1) /\ \A j \in (k - 1) + 1 .. Len(s) : j = k \/ j \in k + 1 .. Len(s)
    BY <1>0, <1>2
  <2>2. k - 1 \in T
    BY <1>2, <2>1
  <2> QED BY <1>2, <2>1, <2>2
<1>4. \E x \in 0 .. Len(s) : (x > 0 => ~Dns!Before(t, s[x])) /\ \A j \in x + 1 .. Len(s) : Dns!Before(t, s[j])
  BY <1>2, <1>3
<1> HIDE DEF T
<1> QED BY <1>4 DEF Dns!Place

\* One round puts its target in, wherever it stops.
LEMMA InsertAny ==
    ASSUME NEW s \in Seq(Tgt), NEW t \in Tgt
    PROVE  LET r == Dns!Insert(s, t)
               k == Dns!Place(s, t)
           IN  /\ r \in Seq(Tgt) /\ Len(r) = Len(s) + 1 /\ r[k + 1] = t
               /\ \A i \in 1 .. k : r[i] = s[i]
               /\ \A i \in k + 2 .. Len(s) + 1 : r[i] = s[i - 1]
<1>1. PICK k : k = Dns!Place(s, t)
  OBVIOUS
<1>2. k \in 0 .. Len(s) /\ (k + 1) - 1 = k
  BY <1>1, PlaceFx
<1>3. Dns!Insert(s, t) = Put(s, k, t)
  BY <1>1, <1>2 DEF Dns!Insert, Dns!InsertAt, Put
<1>4. PICK r : r = Put(s, k, t)
  OBVIOUS
<1>5. /\ r \in Seq(Tgt) /\ Len(r) = Len(s) + 1 /\ r[k + 1] = t
      /\ \A i \in 1 .. k : r[i] = s[i]
      /\ \A i \in k + 2 .. Len(s) + 1 : r[i] = s[i - 1]
  <2>1. Has(r, Tgt, s, k, t)
    BY <1>2, <1>4, Inserted
  <2> QED BY ONLY <2>1 DEF Has
<1> QED BY <1>1, <1>3, <1>4, <1>5, Zenon

\* One round keeps a sorted sequence sorted and adds its target.
LEMMA InsertFx ==
    ASSUME NEW s \in Seq(Tgt), NEW t \in Tgt, Sorted(s)
    PROVE  LET r == Dns!Insert(s, t) IN
           Sorted(r) /\ Members(r) = Members(s) \cup {t}
<1>1. PICK k, r : k = Dns!Place(s, t) /\ r = Dns!Insert(s, t)
  OBVIOUS
<1>2. /\ k \in 0 .. Len(s) /\ (k > 0 => ~Dns!Before(t, s[k]))
      /\ \A j \in k + 1 .. Len(s) : Dns!Before(t, s[j])
  BY <1>1, PlaceFx
<1>3. /\ r \in Seq(Tgt) /\ Len(r) = Len(s) + 1 /\ r[k + 1] = t
      /\ \A i \in 1 .. k : r[i] = s[i]
      /\ \A i \in k + 2 .. Len(s) + 1 : r[i] = s[i - 1]
  BY <1>1, InsertAny
<1>4. /\ DOMAIN s = 1 .. Len(s) /\ Len(s) \in Nat /\ k \in Nat /\ DOMAIN r = 1 .. Len(s) + 1
      /\ \A i \in 1 .. Len(s) : s[i] \in Tgt
  BY <1>2, <1>3
<1>5. ASSUME NEW i \in DOMAIN r, NEW j \in DOMAIN r, i < j PROVE ~Dns!Before(r[j], r[i])
  <2> DEFINE from(x) == IF x <= k THEN x ELSE x - 1
  <2>1. CASE i # k + 1 /\ j # k + 1
    <3>1. ASSUME NEW x \in DOMAIN r, x # k + 1
          PROVE  from(x) \in DOMAIN s /\ r[x] = s[from(x)]
      <4>1. CASE x <= k
        <5>1. x \in 1 .. k /\ x \in DOMAIN s
          BY <1>2, <1>4, <3>1, <4>1
        <5> QED BY <1>3, <4>1, <5>1
      <4>2. CASE ~(x <= k)
        <5>1. x \in k + 2 .. Len(s) + 1 /\ x - 1 \in DOMAIN s
          BY <1>2, <1>4, <3>1, <4>2
        <5> QED BY <1>3, <4>2, <5>1
      <4> QED BY <4>1, <4>2
    <3>2. from(i) < from(j)
      BY <1>4, <1>5, <2>1
    <3>3. /\ from(i) \in DOMAIN s /\ r[i] = s[from(i)]
          /\ from(j) \in DOMAIN s /\ r[j] = s[from(j)]
      BY <2>1, <3>1
    <3> HIDE DEF from
    <3> QED BY <3>2, <3>3 DEF Sorted
  <2>2. CASE i = k + 1
    <3>1. j \in k + 2 .. Len(s) + 1 /\ j - 1 \in k + 1 .. Len(s) /\ j - 1 \in 1 .. Len(s)
      BY <1>4, <1>5, <2>2
    <3>2. r[i] = t /\ r[j] = s[j - 1] /\ Dns!Before(t, s[j - 1]) /\ s[j - 1] \in Tgt
      BY <1>2, <1>3, <1>4, <2>2, <3>1
    <3> QED BY <3>2, BeforeOrder
  <2>3. CASE j = k + 1
    <3>1. i \in 1 .. k /\ k > 0 /\ k \in 1 .. Len(s) /\ i \in 1 .. Len(s)
      BY <1>2, <1>4, <1>5, <2>3
    <3>2. r[j] = t /\ r[i] = s[i] /\ ~Dns!Before(t, s[k]) /\ s[i] \in Tgt /\ s[k] \in Tgt
      BY <1>2, <1>3, <1>4, <2>3, <3>1
    <3>3. CASE i = k
      BY <3>2, <3>3
    <3>4. CASE i # k
      <4>1. ~Dns!Before(s[k], s[i])
        BY <1>4, <3>1, <3>4 DEF Sorted
      <4> QED BY <3>2, <4>1, BeforeOrder
    <3> QED BY <3>3, <3>4
  <2> QED BY <2>1, <2>2, <2>3
<1>6. ASSUME NEW x \in Members(r) PROVE x \in Members(s) \cup {t}
  <2>1. PICK i \in DOMAIN r : x = r[i]
    BY <1>6 DEF Members
  <2>2. CASE i \in 1 .. k
    BY <1>2, <1>3, <1>4, <2>1, <2>2 DEF Members
  <2>3. CASE i = k + 1
    BY <1>3, <2>1, <2>3
  <2>4. CASE i \in k + 2 .. Len(s) + 1
    <3>1. i - 1 \in DOMAIN s /\ x = s[i - 1]
      BY <1>3, <1>4, <2>1, <2>4
    <3> QED BY <3>1 DEF Members
  <2> QED BY <1>4, <2>1, <2>2, <2>3, <2>4
<1>7. ASSUME NEW x \in Members(s) \cup {t} PROVE x \in Members(r)
  <2>1. CASE x = t
    <3>1. k + 1 \in DOMAIN r
      BY <1>2, <1>4
    <3> QED BY <1>3, <2>1, <3>1 DEF Members
  <2>2. CASE x \in Members(s)
    <3>1. PICK i \in DOMAIN s : x = s[i]
      BY <2>2 DEF Members
    <3>2. CASE i <= k
      <4>1. i \in DOMAIN r /\ r[i] = x
        BY <1>3, <1>4, <3>1, <3>2
      <4> QED BY <4>1 DEF Members
    <3>3. CASE ~(i <= k)
      <4>1. i + 1 \in DOMAIN r /\ i + 1 \in k + 2 .. Len(s) + 1 /\ (i + 1) - 1 = i
        BY <1>4, <3>1, <3>3
      <4>2. r[i + 1] = x
        BY <1>3, <3>1, <4>1
      <4> QED BY <4>1, <4>2 DEF Members
    <3> QED BY <3>2, <3>3
  <2> QED BY <1>7, <2>1, <2>2
<1>8. Sorted(r)
  BY <1>5 DEF Sorted
<1> QED BY <1>1, <1>6, <1>7, <1>8

\* The rounds of the sort over the first n targets.
Run(g, ts, n) ==
    /\ g \in [0 .. n -> Seq(Tgt)] /\ g[0] = <<>>
    /\ \A m \in 1 .. n : g[m] = Dns!Insert(g[m - 1], ts[m])

\* The sort runs to its end.
LEMMA RunExists ==
    ASSUME NEW ts \in Seq(Tgt)
    PROVE  \A n \in 0 .. Len(ts) : \E g : Run(g, ts, n)
<1>0. Len(ts) \in Nat /\ \A i \in 1 .. Len(ts) : ts[i] \in Tgt
  OBVIOUS
<1> DEFINE T == {n \in 0 .. Len(ts) : ~\E g : Run(g, ts, n)}
<1> SUFFICES ASSUME T # {} PROVE FALSE
  OBVIOUS
<1>1. PICK n \in T : \A y \in T : n <= y
  <2>1. T \in SUBSET (0 .. Len(ts))
    OBVIOUS
  <2> HIDE DEF T
  <2> QED BY <1>0, <2>1, LeastNumber
<1>2. n \in 0 .. Len(ts) /\ ~\E g : Run(g, ts, n)
  BY <1>1
<1>3. CASE n = 0
  <2> DEFINE g == [m \in 0 .. 0 |-> <<>>]
  <2>1. <<>> \in Seq(Tgt)
    OBVIOUS
  <2>2. g \in [0 .. 0 -> Seq(Tgt)] /\ g[0] = <<>>
    BY <2>1
  <2>3. \A m \in 1 .. 0 : g[m] = Dns!Insert(g[m - 1], ts[m])
    OBVIOUS
  <2> HIDE DEF g
  <2> QED BY <1>2, <1>3, <2>2, <2>3 DEF Run
<1>4. CASE n # 0
  <2>1. n - 1 \in 0 .. Len(ts) /\ ~(n <= n - 1) /\ n \in 1 .. Len(ts)
    BY <1>0, <1>2, <1>4
  <2>2. PICK g : Run(g, ts, n - 1)
    BY <1>1, <2>1
  <2>3. /\ g \in [0 .. n - 1 -> Seq(Tgt)] /\ g[0] = <<>>
        /\ \A m \in 1 .. n - 1 : g[m] = Dns!Insert(g[m - 1], ts[m])
    BY <2>2 DEF Run
  <2>4. PICK last : last = Dns!Insert(g[n - 1], ts[n])
    OBVIOUS
  <2>5. last \in Seq(Tgt)
    <3>1. g[n - 1] \in Seq(Tgt) /\ ts[n] \in Tgt
      BY <1>0, <2>1, <2>3
    <3> QED BY <2>4, <3>1, InsertAny
  <2> DEFINE h == [m \in 0 .. n |-> IF m = n THEN last ELSE g[m]]
  <2>6. h \in [0 .. n -> Seq(Tgt)] /\ h[0] = <<>> /\ h[n] = last /\ \A m \in 0 .. n - 1 : h[m] = g[m]
    BY <1>4, <2>1, <2>3, <2>5
  <2> HIDE DEF h
  <2>7. ASSUME NEW m \in 1 .. n PROVE h[m] = Dns!Insert(h[m - 1], ts[m])
    <3>1. m - 1 \in 0 .. n - 1 /\ h[m - 1] = g[m - 1]
      BY <2>1, <2>6
    <3>2. CASE m = n
      BY <2>4, <2>6, <3>1, <3>2
    <3>3. CASE m # n
      <4>1. m \in 1 .. n - 1 /\ m \in 0 .. n - 1
        BY <2>1, <3>3
      <4> QED BY <2>3, <2>6, <3>1, <4>1
    <3> QED BY <3>2, <3>3
  <2> QED BY <1>2, <2>6, <2>7 DEF Run
<1> QED BY <1>3, <1>4

\* Every round of it holds the targets so far, sorted.
LEMMA RunSorts ==
    ASSUME NEW ts \in Seq(Tgt), NEW g, Run(g, ts, Len(ts))
    PROVE  \A n \in 0 .. Len(ts) :
              /\ g[n] \in Seq(Tgt) /\ Len(g[n]) = n /\ Sorted(g[n])
              /\ Members(g[n]) = {ts[i] : i \in 1 .. n}
<1>0. Len(ts) \in Nat /\ \A i \in 1 .. Len(ts) : ts[i] \in Tgt
  OBVIOUS
<1> DEFINE Good(n) == /\ g[n] \in Seq(Tgt) /\ Len(g[n]) = n /\ Sorted(g[n])
                      /\ Members(g[n]) = {ts[i] : i \in 1 .. n}
           T == {n \in 0 .. Len(ts) : ~Good(n)}
<1>r. /\ g[0] = <<>> /\ \A m \in 1 .. Len(ts) : g[m] = Dns!Insert(g[m - 1], ts[m])
  BY DEF Run
<1> SUFFICES ASSUME T # {} PROVE FALSE
  OBVIOUS
<1>1. PICK n \in T : \A y \in T : n <= y
  <2>1. T \in SUBSET (0 .. Len(ts))
    OBVIOUS
  <2> HIDE DEF T
  <2> QED BY <1>0, <2>1, LeastNumber
<1>2. n \in 0 .. Len(ts) /\ ~Good(n)
  BY <1>1
<1>3. CASE n = 0
  <2>1. <<>> \in Seq(Tgt) /\ Len(<<>>) = 0 /\ Sorted(<<>>) /\ Members(<<>>) = {}
    BY DEF Sorted, Members
  <2>2. {ts[i] : i \in 1 .. 0} = {}
    OBVIOUS
  <2> QED BY <1>2, <1>3, <1>r, <2>1, <2>2
<1>4. CASE n # 0
  <2>1. n - 1 \in 0 .. Len(ts) /\ ~(n <= n - 1) /\ n \in 1 .. Len(ts) /\ n \in Nat
    BY <1>0, <1>2, <1>4
  <2>2. Good(n - 1)
    BY <1>1, <2>1
  <2>3. PICK s, t : s = g[n - 1] /\ t = ts[n]
    OBVIOUS
  <2>4. s \in Seq(Tgt) /\ Len(s) = n - 1 /\ Sorted(s) /\ Members(s) = {ts[i] : i \in 1 .. n - 1}
        /\ t \in Tgt /\ g[n] = Dns!Insert(s, t)
    BY <1>0, <1>r, <2>1, <2>2, <2>3
  <2>5. g[n] \in Seq(Tgt) /\ Len(g[n]) = n
    <3>1. g[n] \in Seq(Tgt) /\ Len(g[n]) = Len(s) + 1
      BY <2>4, InsertAny
    <3> QED BY <2>1, <2>4, <3>1
  <2>6. Sorted(g[n]) /\ Members(g[n]) = Members(s) \cup {t}
    BY <2>4, InsertFx
  <2>7. {ts[i] : i \in 1 .. n} = {ts[i] : i \in 1 .. n - 1} \cup {ts[n]}
    <3>1. 1 .. n = (1 .. n - 1) \cup {n}
      BY <2>1
    <3> QED BY <3>1
  <2> QED BY <1>2, <2>3, <2>4, <2>5, <2>6, <2>7
<1> QED BY <1>3, <1>4

\* sort_targets() sorts: it loses nothing and adds nothing.
LEMMA SortFx ==
    ASSUME NEW ts \in Seq(Tgt)
    PROVE  LET r == Dns!sort_targets(ts) IN
           r \in Seq(Tgt) /\ Len(r) = Len(ts) /\ Sorted(r) /\ Members(r) = Members(ts)
<1>0. Len(ts) \in Nat /\ DOMAIN ts = 1 .. Len(ts) /\ Len(ts) \in 0 .. Len(ts)
  OBVIOUS
<1> DEFINE Rounds(g) ==
             g = [n \in 0 .. Len(ts) |-> IF n = 0 THEN <<>> ELSE Dns!Insert(g[n - 1], ts[n])]
<1>1. \E g : Rounds(g)
  <2>1. PICK g : Run(g, ts, Len(ts))
    BY <1>0, RunExists
  <2>2. /\ g \in [0 .. Len(ts) -> Seq(Tgt)] /\ g[0] = <<>>
        /\ \A m \in 1 .. Len(ts) : g[m] = Dns!Insert(g[m - 1], ts[m])
    BY <2>1 DEF Run
  <2>3. ASSUME NEW n \in 0 .. Len(ts)
        PROVE  g[n] = IF n = 0 THEN <<>> ELSE Dns!Insert(g[n - 1], ts[n])
    <3>1. n = 0 \/ n \in 1 .. Len(ts)
      BY <1>0
    <3> QED BY <2>2, <3>1
  <2>4. g = [n \in 0 .. Len(ts) |-> g[n]]
    BY <2>2
  <2> QED BY <2>3, <2>4
<1>2. PICK g : g = CHOOSE f : Rounds(f)
  OBVIOUS
<1>3. Rounds(g)
  BY <1>1, <1>2
<1>4. Dns!sort_targets(ts) = g[Len(ts)]
  BY <1>2 DEF Dns!sort_targets
<1> QED BY <1>0, <1>3, <1>4

\* pending counts the queries libre holds, and nothing is held before the first
\* query or after the last answer.
DnsInv ==
    /\ stage \in {"new", "naptr", "srv", "done", "refused"}
    /\ slots \in Seq(Transports \cup {Hint}) /\ Len(slots) <= MaxSrv
    /\ asked \subseteq DOMAIN slots
    /\ pending = IF stage = "naptr" THEN 1 ELSE Cardinality(asked)
    /\ stage # "srv" => asked = {}
    /\ calls = IF stage = "done" THEN 1 ELSE 0

\* The transports asked for are no more than there are slots.
LEMMA SlotsFit ==
    ASSUME NEW ts \in UpTo(MaxSrv + 1, Transports)
    PROVE  LET s == IF ts = <<>> THEN <<Hint>>
                    ELSE SubSeq(ts, 1, IF Len(ts) < MaxSrv THEN Len(ts) ELSE MaxSrv)
           IN  s \in Seq(Transports \cup {Hint}) /\ Len(s) <= MaxSrv
<1>0. MaxSrv \in Nat \ {0}
  BY NetworkAssumption
<1>1. ts \in Seq(Transports)
  BY <1>0 DEF UpTo
<1>2. CASE ts = <<>>
  BY <1>0, <1>2
<1>3. CASE ts # <<>>
  <2> DEFINE n == IF Len(ts) < MaxSrv THEN Len(ts) ELSE MaxSrv
  <2>1. n \in 1 .. Len(ts) /\ n <= MaxSrv
    BY <1>0, <1>1, <1>3
  <2> HIDE DEF n
  <2>2. SubSeq(ts, 1, n) \in Seq(Transports) /\ Len(SubSeq(ts, 1, n)) = n
    BY <1>1, <2>1
  <2>3. SubSeq(ts, 1, n) \in Seq(Transports \cup {Hint})
    BY <2>2
  <2> QED BY <1>3, <2>1, <2>2, <2>3 DEF n
<1> QED BY <1>2, <1>3

\* Queries are finitely many.
LEMMA AskedFinite ==
    ASSUME NEW s \in Seq(Transports \cup {Hint}), NEW q \in SUBSET DOMAIN s
    PROVE  IsFiniteSet(q) /\ Cardinality(q) \in Nat /\ Cardinality(q) <= Len(s)
           /\ (Cardinality(q) = 0 <=> q = {})
<1>1. 1 \in Int /\ Len(s) \in Int /\ Len(s) \in Nat /\ DOMAIN s = 1 .. Len(s)
  OBVIOUS
<1>2. IsFiniteSet(1 .. Len(s)) /\ Cardinality(1 .. Len(s)) = IF 1 > Len(s) THEN 0 ELSE Len(s) - 1 + 1
  BY <1>1, FS_Interval
<1>3. IsFiniteSet(q) /\ Cardinality(q) <= Cardinality(1 .. Len(s))
  BY <1>1, <1>2, FS_Subset
<1>4. Cardinality(q) \in Nat
  BY <1>3, FS_CardinalityType
<1> QED BY <1>1, <1>2, <1>3, <1>4, FS_EmptySet

\* Every step of dns.c keeps the count.
LEMMA DnsSteps ==
    ASSUME DnsInv, [Dns!Next]_dnsVars
    PROVE  DnsInv'
<1>t. /\ stage \in {"new", "naptr", "srv", "done", "refused"}
      /\ slots \in Seq(Transports \cup {Hint}) /\ Len(slots) <= MaxSrv
      /\ asked \subseteq DOMAIN slots
      /\ pending = IF stage = "naptr" THEN 1 ELSE Cardinality(asked)
      /\ stage # "srv" => asked = {}
      /\ calls = IF stage = "done" THEN 1 ELSE 0
  BY DEF DnsInv
<1>0. Cardinality({}) = 0
  BY FS_EmptySet
<1>1. CASE Dns!Resolve
  <2>1. stage = "new" /\ UNCHANGED <<slots, asked>>
        /\ \/ calls' = calls + 1 /\ stage' = "done" /\ pending' = pending
           \/ pending' = pending + 1 /\ stage' = "naptr" /\ calls' = calls
           \/ stage' = "refused" /\ pending' = pending /\ calls' = calls
    BY <1>1 DEF Dns!Resolve
  <2>2. asked' = {} /\ asked' \subseteq DOMAIN slots' /\ pending = 0 /\ calls = 0
    BY <1>0, <1>t, <2>1
  <2>3. slots' \in Seq(Transports \cup {Hint}) /\ Len(slots') <= MaxSrv
    BY <1>t, <2>1
  <2>4. /\ stage' \in {"done", "naptr", "refused"} /\ calls' = IF stage' = "done" THEN 1 ELSE 0
        /\ pending' = IF stage' = "naptr" THEN 1 ELSE 0
    BY <2>1, <2>2
  <2>5. pending' = IF stage' = "naptr" THEN 1 ELSE Cardinality(asked')
    BY <1>0, <2>2, <2>4
  <2> QED BY <2>2, <2>3, <2>4, <2>5 DEF DnsInv
<1>2. ASSUME NEW ts \in UpTo(MaxSrv + 1, Transports), Dns!Naptr(ts) PROVE DnsInv'
  <2> DEFINE s == IF ts = <<>> THEN <<Hint>>
                  ELSE SubSeq(ts, 1, IF Len(ts) < MaxSrv THEN Len(ts) ELSE MaxSrv)
  <2>1. s \in Seq(Transports \cup {Hint}) /\ Len(s) <= MaxSrv
    BY <1>2, SlotsFit
  <2>2. stage = "naptr" /\ slots' = s /\ asked' \in SUBSET DOMAIN s
        /\ pending' = pending - 1 + Dns!Cardinality(asked')
        /\ \/ stage' = "srv" /\ calls' = calls
           \/ asked' = {} /\ stage' = "done" /\ calls' = calls + 1
    BY <1>2 DEF Dns!Naptr, Dns!lookup_finish
  <2> HIDE DEF s
  <2>3. Cardinality(asked') \in Nat
    BY <2>1, <2>2, AskedFinite
  <2>4. pending' = Cardinality(asked')
    BY <1>t, <2>2, <2>3, SameCardinality
  <2> QED BY <1>t, <2>1, <2>2, <2>4 DEF DnsInv
<1>3. ASSUME NEW i \in asked, NEW rs, Dns!Srv(i, rs) PROVE DnsInv'
  <2>1. stage = "srv" /\ asked' = asked \ {i} /\ pending' = pending - 1 /\ slots' = slots
        /\ \/ pending = 1 /\ stage' = "done" /\ calls' = calls + 1
           \/ pending # 1 /\ stage' = stage /\ calls' = calls
    BY <1>3 DEF Dns!Srv, Dns!lookup_finish
  <2>2. IsFiniteSet(asked) /\ Cardinality(asked) \in Nat
    BY <1>t, AskedFinite
  <2>3. Cardinality(asked') = Cardinality(asked) - 1 /\ IsFiniteSet(asked')
    BY <1>3, <2>1, <2>2, FS_RemoveElement
  <2>4. pending = 1 => asked' = {}
    BY <1>t, <2>1, <2>2, <2>3, FS_EmptySet
  <2> QED BY <1>t, <2>1, <2>2, <2>3, <2>4 DEF DnsInv
<1>4. CASE UNCHANGED dnsVars
  BY <1>4, <1>t DEF dnsVars, DnsInv
<1> QED BY <1>1, <1>2, <1>3, <1>4 DEF Dns!Next

\* add_result() drops only what does not fit.
LEMMA AddFx ==
    ASSUME NEW ts \in Seq(Tgt), NEW new \in Seq(Tgt), Len(ts) <= MaxTargets
    PROVE  LET r == Dns!add_result(ts, new) IN
           /\ r \in Seq(Tgt) /\ Len(ts) <= Len(r) /\ Len(r) <= MaxTargets
           /\ Len(r) < MaxTargets => Members(r) = Members(ts) \cup Members(new)
<1>0. MaxTargets \in Nat /\ Len(ts) \in Nat /\ Len(new) \in Nat
  BY NetworkAssumption
<1>1. PICK n : n = IF Len(new) < MaxTargets - Len(ts) THEN Len(new) ELSE MaxTargets - Len(ts)
  OBVIOUS
<1>2. n \in Nat /\ n <= Len(new) /\ Len(ts) + n <= MaxTargets
      /\ (Len(ts) + n < MaxTargets => n = Len(new)) /\ n - 1 + 1 = n /\ 1 <= n + 1
  BY <1>0, <1>1
<1>3. PICK some : some = SubSeq(new, 1, n)
  OBVIOUS
<1>4. /\ some \in Seq(Tgt) /\ Len(some) = n
      /\ \A i \in 1 .. n : some[i] = new[i]
  <2>1. 1 \in Nat /\ 1 <= 1
    OBVIOUS
  <2>2. /\ some \in Seq(Tgt) /\ Len(some) = n - 1 + 1
        /\ \A i \in 1 .. n - 1 + 1 : some[i] = new[1 + i - 1]
    BY <1>2, <1>3, <2>1, Slice
  <2>3. \A i \in 1 .. n : 1 + i - 1 = i
    BY <1>2
  <2> QED BY ONLY <1>2, <2>2, <2>3
<1>5. PICK r : r = ts \o some
  OBVIOUS
<1>6. Dns!add_result(ts, new) = r
  BY <1>1, <1>3, <1>5 DEF Dns!add_result
<1>7. /\ r \in Seq(Tgt) /\ Len(r) = Len(ts) + n /\ DOMAIN r = 1 .. Len(ts) + n
      /\ \A i \in 1 .. Len(ts) + n : r[i] = IF i <= Len(ts) THEN ts[i] ELSE some[i - Len(ts)]
  BY <1>4, <1>5, Joined
<1>8. /\ DOMAIN ts = 1 .. Len(ts) /\ DOMAIN new = 1 .. Len(new)
  OBVIOUS
<1>9. ASSUME n = Len(new) PROVE Members(r) = Members(ts) \cup Members(new)
  <2>1. ASSUME NEW x \in Members(r) PROVE x \in Members(ts) \cup Members(new)
    <3>1. PICK i \in 1 .. Len(ts) + n : x = r[i]
      BY <1>7, <2>1 DEF Members
    <3>2. CASE i <= Len(ts)
      <4>1. i \in DOMAIN ts /\ x = ts[i]
        BY <1>0, <1>7, <1>8, <3>1, <3>2
      <4> QED BY <4>1 DEF Members
    <3>3. CASE ~(i <= Len(ts))
      <4>1. i - Len(ts) \in 1 .. n
        BY <1>0, <1>2, <3>1, <3>3
      <4>2. i - Len(ts) \in DOMAIN new /\ x = new[i - Len(ts)]
        BY <1>4, <1>7, <1>8, <1>9, <3>1, <3>3, <4>1
      <4> QED BY <4>2 DEF Members
    <3> QED BY <3>2, <3>3
  <2>2. ASSUME NEW x \in Members(ts) \cup Members(new) PROVE x \in Members(r)
    <3>1. CASE x \in Members(ts)
      <4>1. PICK i \in 1 .. Len(ts) : x = ts[i]
        BY <1>8, <3>1 DEF Members
      <4>2. i \in DOMAIN r /\ x = r[i]
        BY <1>0, <1>2, <1>7, <4>1
      <4> QED BY <4>2 DEF Members
    <3>2. CASE x \in Members(new)
      <4>1. PICK i \in 1 .. n : x = new[i]
        BY <1>8, <1>9, <3>2 DEF Members
      <4>2. i + Len(ts) \in 1 .. Len(ts) + n /\ ~(i + Len(ts) <= Len(ts)) /\ (i + Len(ts)) - Len(ts) = i
        BY <1>0, <1>2, <4>1
      <4>3. i + Len(ts) \in DOMAIN r /\ x = r[i + Len(ts)]
        BY <1>4, <1>7, <4>1, <4>2
      <4> QED BY <4>3 DEF Members
    <3> QED BY <2>2, <3>1, <3>2
  <2> QED BY <2>1, <2>2
<1> QED BY <1>0, <1>2, <1>6, <1>7, <1>9

\* The domain itself, as one target.
LEMMA FallbackFx ==
    ASSUME NEW t \in Transports \cup {Hint}, NEW s, s = <<Dns!Fallback(t)>>
    PROVE  /\ s \in Seq(Tgt) /\ Len(s) = 1 /\ Sorted(s)
           /\ Members(s) = {Dns!Fallback(t)}
<1>1. PICK f : f = Dns!Fallback(t)
  OBVIOUS
<1>2. f \in Tgt
  BY <1>1 DEF Dns!Fallback, Dns!Target, Tgt
<1>3. s = <<f>> /\ DOMAIN s = {1} /\ s[1] = f /\ Len(s) = 1 /\ s \in Seq(Tgt)
  BY <1>1, <1>2
<1>4. Sorted(s)
  BY <1>3 DEF Sorted
<1>5. Members(s) = {f}
  BY <1>3 DEF Members
<1> QED BY <1>1, <1>3, <1>4, <1>5

\* What an answer names.
LEMMA NewFx ==
    ASSUME NEW t \in Transports \cup {Hint},
           NEW rs \in UpTo(MaxRecords, [host : Hosts, pri : Priorities, wt : Weights]),
           NEW new, new = IF rs = <<>> THEN <<Dns!Fallback(t)>>
                          ELSE [k \in DOMAIN rs |-> Dns!Target(t, rs[k])]
    PROVE  new \in Seq(Tgt)
<1>1. CASE rs = <<>>
  BY <1>1, FallbackFx
<1>2. CASE rs # <<>>
  <2>1. PICK n \in 0 .. MaxRecords : rs \in [1 .. n -> [host : Hosts, pri : Priorities, wt : Weights]]
    BY DEF UpTo
  <2>2. ASSUME NEW k \in 1 .. n PROVE Dns!Target(t, rs[k]) \in Tgt
    <3>1. rs[k] \in [host : Hosts, pri : Priorities, wt : Weights]
      BY <2>1
    <3>2. rs[k].host \in Hosts /\ rs[k].pri \in Nat /\ rs[k].wt \in Nat
      BY <3>1, NetworkAssumption
    <3> QED BY <3>2 DEF Dns!Target, Tgt
  <2>3. n \in Nat /\ new = [k \in 1 .. n |-> Dns!Target(t, rs[k])]
    BY <1>2, <2>1, NetworkAssumption
  <2>4. new \in [1 .. n -> Tgt]
    BY <2>2, <2>3
  <2> QED BY <2>3, <2>4
<1> QED BY <1>1, <1>2

\* The targets so far are what the answers named, unless the array is full, and
\* they are in order once the lookup is done.
TargetsInv ==
    /\ targets \in Seq(Tgt) /\ Len(targets) <= MaxTargets
    /\ Len(targets) < MaxTargets => Members(targets) = given
    /\ stage \in {"new", "naptr"} => targets = <<>> /\ given = {}
    /\ stage = "done" => Sorted(targets)

\* Every step of dns.c keeps them.
LEMMA TargetsSteps ==
    ASSUME DnsInv, TargetsInv, [Dns!Next]_dnsVars
    PROVE  TargetsInv'
<1>t. /\ targets \in Seq(Tgt) /\ Len(targets) <= MaxTargets
      /\ Len(targets) < MaxTargets => Members(targets) = given
      /\ stage \in {"new", "naptr"} => targets = <<>> /\ given = {}
      /\ stage = "done" => Sorted(targets)
  BY DEF TargetsInv
<1>m. MaxTargets \in Nat \ {0} /\ Len(targets) \in Nat
  BY <1>t, NetworkAssumption
<1>f. ASSUME NEW new \in Seq(Tgt), NEW all, all = Dns!add_result(targets, new),
             Dns!lookup_finish(all), given' = given \cup Members(new)
      PROVE  TargetsInv'
  <2>1. /\ all \in Seq(Tgt) /\ Len(targets) <= Len(all) /\ Len(all) <= MaxTargets
        /\ Len(all) < MaxTargets => Members(all) = Members(targets) \cup Members(new)
    BY <1>f, <1>t, AddFx
  <2>2. targets' = Dns!sort_targets(all) /\ stage' = "done"
    BY <1>f DEF Dns!lookup_finish
  <2>3. targets' \in Seq(Tgt) /\ Len(targets') = Len(all) /\ Sorted(targets')
        /\ Members(targets') = Members(all)
    BY <2>1, <2>2, SortFx
  <2>4. Len(all) < MaxTargets => Members(all) = given'
    BY <1>f, <1>m, <1>t, <2>1
  <2> QED BY <2>1, <2>2, <2>3, <2>4 DEF TargetsInv
<1>1. CASE Dns!Resolve
  <2>1. CASE targets' = <<Dns!Fallback(Hint)>> /\ given' = {Dns!Fallback(Hint)} /\ stage' = "done"
    <3>1. targets' \in Seq(Tgt) /\ Len(targets') = 1 /\ Sorted(targets') /\ Members(targets') = given'
      BY <2>1, FallbackFx
    <3> QED BY <1>m, <2>1, <3>1 DEF TargetsInv
  <2>2. CASE UNCHANGED <<targets, given>> /\ stage = "new" /\ stage' \in {"naptr", "refused"}
    BY <1>t, <2>2 DEF TargetsInv, Members
  <2> QED BY <1>1, <2>1, <2>2 DEF Dns!Resolve
<1>2. ASSUME NEW ts \in UpTo(MaxSrv + 1, Transports), Dns!Naptr(ts) PROVE TargetsInv'
  <2>1. CASE stage = "naptr" /\ stage' = "srv" /\ UNCHANGED <<targets, given>>
    BY <1>t, <2>1 DEF TargetsInv, Members
  <2>2. CASE /\ stage = "naptr" /\ given' = {Dns!Fallback(Hint)}
             /\ Dns!lookup_finish(Dns!add_result(targets, <<Dns!Fallback(Hint)>>))
    <3>1. PICK new : new = <<Dns!Fallback(Hint)>>
      OBVIOUS
    <3>2. new \in Seq(Tgt) /\ Members(new) = given'
      BY <2>2, <3>1, FallbackFx
    <3>3. given' = given \cup Members(new)
      BY <1>t, <2>2, <3>2
    <3> QED BY <1>f, <2>2, <3>1, <3>2, <3>3
  <2> QED BY <1>2, <2>1, <2>2 DEF Dns!Naptr
<1>3. ASSUME NEW i \in asked,
             NEW rs \in UpTo(MaxRecords, [host : Hosts, pri : Priorities, wt : Weights]), Dns!Srv(i, rs)
      PROVE  TargetsInv'
  <2>1. PICK new : new = IF rs = <<>> THEN <<Dns!Fallback(slots[i])>>
                         ELSE [k \in DOMAIN rs |-> Dns!Target(slots[i], rs[k])]
    OBVIOUS
  <2>2. PICK all : all = Dns!add_result(targets, new)
    OBVIOUS
  <2>3. slots[i] \in Transports \cup {Hint}
    BY DEF DnsInv
  <2>4. new \in Seq(Tgt)
    BY <2>1, <2>3, NewFx
  <2>5. given' = given \cup Members(new)
    BY <1>3, <2>1 DEF Dns!Srv, Dns!Range, Members
  <2>6. \/ Dns!lookup_finish(all)
        \/ targets' = all /\ stage' = "srv"
    BY <1>3, <2>1, <2>2 DEF Dns!Srv
  <2>7. CASE Dns!lookup_finish(all)
    BY <1>f, <2>2, <2>4, <2>5, <2>7
  <2>8. CASE targets' = all /\ stage' = "srv"
    <3>1. /\ all \in Seq(Tgt) /\ Len(targets) <= Len(all) /\ Len(all) <= MaxTargets
          /\ Len(all) < MaxTargets => Members(all) = Members(targets) \cup Members(new)
      BY <1>t, <2>2, <2>4, AddFx
    <3>2. Len(all) < MaxTargets => Members(all) = given'
      BY <1>m, <1>t, <2>5, <3>1
    <3> QED BY <2>8, <3>1, <3>2 DEF TargetsInv
  <2> QED BY <2>6, <2>7, <2>8
<1>4. CASE UNCHANGED dnsVars
  BY <1>4, <1>t DEF dnsVars, TargetsInv, Members, Sorted, Dns!Before
<1> QED BY <1>1, <1>2, <1>3, <1>4 DEF Dns!Next

\* In whatever order libre answers, dns.c counts what is pending right, calls its
\* handler once, with the last answer, frees the lookup when no query refers to it,
\* and hands over all that was named, up to the array's size, in the order of
\* priority and weight: for any number of records, targets and slots.
THEOREM LookupIsSound == Spec => []LookupSound
<1>1. Init => DnsInv /\ TargetsInv
  <2> SUFFICES ASSUME Dns!Init PROVE DnsInv /\ TargetsInv
    BY DEF Init
  <2>1. /\ stage = "new" /\ pending = 0 /\ slots = <<>> /\ asked = {} /\ calls = 0
        /\ targets = <<>> /\ given = {}
    BY DEF Dns!Init
  <2>2. <<>> \in Seq(Transports \cup {Hint}) /\ Len(<<>>) = 0 /\ <<>> \in Seq(Tgt)
    OBVIOUS
  <2>3. DnsInv
    BY <2>1, <2>2, FS_EmptySet, NetworkAssumption DEF DnsInv
  <2>4. Members(<<>>) = {}
    BY DEF Members
  <2>5. TargetsInv
    BY <2>1, <2>2, <2>4, NetworkAssumption DEF TargetsInv
  <2> QED BY <2>3, <2>5
<1>2. DnsInv /\ TargetsInv /\ [Next]_vars => (DnsInv /\ TargetsInv)'
  BY PartSteps, DnsSteps, TargetsSteps
<1>3. DnsInv /\ TargetsInv => LookupSound
  <2> SUFFICES ASSUME DnsInv, TargetsInv PROVE LookupSound
    OBVIOUS
  <2>0. MaxSrv \in Nat \ {0}
    BY NetworkAssumption
  <2>1. Cardinality(asked) \in Nat /\ Cardinality(asked) <= Len(slots) /\ Len(slots) \in Nat
    BY AskedFinite DEF DnsInv
  <2>2. pending \in 0 .. MaxSrv + 1
    BY <2>0, <2>1 DEF DnsInv
  <2>3. Dns!TypeOK
    BY <2>2 DEF DnsInv, TargetsInv, Dns!TypeOK
  <2>4. Dns!FreedUnused
    BY DEF DnsInv, Dns!FreedUnused
  <2>5. Dns!Range(targets) = Members(targets)
    BY DEF Dns!Range, Members
  <2>6. Dns!OrderIndependent
    BY <2>5 DEF TargetsInv, Sorted, Dns!OrderIndependent
  <2> QED BY <2>3, <2>4, <2>6 DEF LookupSound
<1> QED BY <1>1, <1>2, <1>3, PTL DEF Spec

-----------------------------------------------------------------------------
(* ICE under restarts of both ends.                                        *)

\* An SDP of the peer.
Sdp == [u : 0 .. MaxU, for : 0 .. MaxGen]

IceTypes ==
    /\ call \in {"outgoing", "invited", "arriving", "ringing", "up", "closed"}
    /\ gen \in 1 .. MaxGen /\ nego \in 0 .. gen /\ told \in 0 .. gen
    /\ peer \in Sdp /\ with \in Sdp /\ rsig \in 1 .. 2
    /\ raddr \in {"none", "sdp", "pair"} /\ sel \in 0 .. 2 /\ rufrag \in 0 .. MaxU
    /\ rrestarts \in 0 .. MaxRemote /\ left \in 0 .. Polls /\ restarts \in Nat
    /\ started \in BOOLEAN /\ concluded \in BOOLEAN /\ released \in BOOLEAN
    /\ restarting \in BOOLEAN /\ await_answer \in BOOLEAN /\ tmr_rrestart \in BOOLEAN
    /\ held \in BOOLEAN /\ crossed \in BOOLEAN /\ early = FALSE /\ tmr_reoffer \in BOOLEAN

\* Before the answer there is one generation, and one SDP of the caller's.
Unanswered ==
    /\ call \in {"outgoing", "invited", "arriving", "ringing"} =>
        gen = 1 /\ ~await_answer /\ ~tmr_rrestart
    /\ call \in {"outgoing", "invited"} => peer.u = 0 /\ ~started
    /\ call \in {"arriving", "ringing"} => peer.u = 1 /\ peer.for = 1 /\ nego = 0
    /\ call = "outgoing" => nego = 0 /\ told = 0
    /\ call = "invited" => nego = gen /\ told = 0

\* A call that is up has been told of, has released its gather or is restarting it,
\* and runs its checks unless it waits for the answer to a restart of its own; then
\* alone, or after crossed exchanges, may the peer not know of the generation.
AnsweredCall ==
    /\ call \in {"invited", "ringing", "up"} => released \/ restarting
    /\ tmr_reoffer => call \in {"up", "closed"}
    /\ call = "up" =>
        /\ peer.u # 0 /\ (started \/ await_answer)
        /\ ~crossed /\ ~await_answer => told = gen /\ nego \in {0, gen}

\* A pair is of the present generation, held only until the answer, and is where an
\* answered call sends; the ufrag remembered is the peer's.
PairKept ==
    /\ rufrag \in {0, peer.u}
    /\ held => call \in {"ringing", "closed"} /\ sel # 0
    /\ sel # 0 => concluded
    /\ call = "up" /\ sel # 0 => raddr = "pair"

IceInv ==
    /\ IceTypes /\ Unanswered /\ AnsweredCall /\ PairKept
    /\ Ice!ChecksCurrent /\ Ice!NoEcho

\* What an update with the peer's SDP p does, on a call that is up or just answered.
LEMMA UpdateFx ==
    ASSUME IceInv, NEW p \in Sdp, p.u # 0, NEW rs \in 1 .. 2, Ice!Update(p, rs),
           ~held \/ rufrag \in {0, p.u}
    PROVE  /\ started' = TRUE /\ with' = (IF started THEN with ELSE p) /\ rufrag' = p.u
           /\ await_answer' = FALSE /\ held' = FALSE /\ raddr' \in {"sdp", "pair"}
           /\ sel' \in 0 .. 2 /\ (sel' # 0 => sel # 0 /\ raddr' = "pair")
           /\ tmr_rrestart' \in BOOLEAN
           /\ \/ rrestarts' = rrestarts /\ tmr_rrestart' = tmr_rrestart
              \/ /\ rrestarts' = rrestarts + 1 /\ rrestarts < MaxRemote
                 /\ rufrag # 0 /\ p.u # rufrag /\ ~await_answer
<1>t. /\ started \in BOOLEAN /\ await_answer \in BOOLEAN /\ held \in BOOLEAN
      /\ tmr_rrestart \in BOOLEAN /\ sel \in 0 .. 2 /\ (held => sel # 0)
  BY DEF IceInv, IceTypes, PairKept
<1>1. started' = TRUE /\ with' = (IF started THEN with ELSE p) /\ rufrag' = p.u
      /\ await_answer' = FALSE
  BY <1>t DEF Ice!Update, Ice!RealUpdate
<1> DEFINE ours   == rufrag # 0 /\ p.u # rufrag /\ await_answer
           theirs == rufrag # 0 /\ p.u # rufrag /\ ~await_answer /\ Ice!Awaiting(p)
<1>2. \/ /\ ours \/ theirs
         /\ sel' = 0 /\ raddr' = "sdp" /\ held' = held
      \/ ~ours /\ ~theirs /\ Ice!Reassert(rs)
  BY DEF Ice!Update
<1>3. held' = FALSE /\ raddr' \in {"sdp", "pair"} /\ sel' \in 0 .. 2
      /\ (sel' # 0 => sel # 0 /\ raddr' = "pair")
  <2>1. CASE (ours \/ theirs) /\ sel' = 0 /\ raddr' = "sdp" /\ held' = held
    BY <1>t, <2>1
  <2>2. CASE Ice!Reassert(rs)
    BY <1>t, <2>2 DEF Ice!Reassert
  <2> QED BY <1>2, <2>1, <2>2
<1>4. /\ tmr_rrestart' \in BOOLEAN
      /\ \/ rrestarts' = rrestarts /\ tmr_rrestart' = tmr_rrestart
         \/ /\ rrestarts' = rrestarts + 1 /\ rrestarts < MaxRemote
            /\ rufrag # 0 /\ p.u # rufrag /\ ~await_answer
  BY <1>t DEF Ice!Update
<1> QED BY <1>1, <1>3, <1>4

\* The update that follows our own offer on a call that is up: the answer to a restart
\* is still awaited.
LEMMA OfferFx ==
    ASSUME IceInv, call = "up", Ice!OfferUpdate
    PROVE  /\ await_answer' = await_answer /\ rufrag' \in {0, peer.u} /\ held' = FALSE
           /\ (started' <=> started) /\ started' \in BOOLEAN /\ with' = with
           /\ raddr' \in {"sdp", "pair"} /\ sel' \in 0 .. 2
           /\ (sel' # 0 => sel # 0 /\ raddr' = "pair")
           /\ rrestarts' = rrestarts /\ tmr_rrestart' = tmr_rrestart
<1>t. /\ started \in BOOLEAN /\ await_answer \in BOOLEAN /\ held = FALSE
      /\ tmr_rrestart \in BOOLEAN /\ sel \in 0 .. 2 /\ rsig \in 1 .. 2
      /\ rufrag \in {0, peer.u} /\ peer \in Sdp /\ peer.u # 0 /\ (started \/ await_answer)
  BY DEF IceInv, IceTypes, PairKept, AnsweredCall
<1>1. CASE await_answer /\ Ice!Reassert(rsig)
           /\ UNCHANGED <<started, with, rufrag, await_answer, rrestarts, tmr_rrestart>>
  BY <1>1, <1>t DEF Ice!Reassert
<1>2. CASE ~await_answer /\ Ice!Update(peer, rsig)
  <2>1. started
    BY <1>2, <1>t
  <2> QED BY <1>2, <1>t, <2>1, UpdateFx
<1> QED BY <1>1, <1>2 DEF Ice!OfferUpdate

\* What estab_release() does keeps the invariant, when the gather is released.
LEMMA EstabKeeps ==
    ASSUME IceInv, Ice!EstabRelease,
           UNCHANGED <<told, peer, rsig, gen, concluded, left, early, crossed, restarts>>,
           released' \in BOOLEAN, restarting' \in BOOLEAN, tmr_reoffer' \in BOOLEAN,
           released' \/ restarting', tmr_reoffer' => tmr_reoffer
    PROVE  IceInv' /\ (call = "up" => call' = "up")
<1>t. IceTypes /\ Unanswered /\ AnsweredCall /\ PairKept /\ Ice!ChecksCurrent /\ Ice!NoEcho
  BY DEF IceInv
<1>g. gen \in Nat /\ gen # 0 /\ MaxGen \in Nat /\ gen \in 0 .. gen
  BY <1>t, NetworkAssumption DEF IceTypes
<1>1. CASE /\ call \in {"outgoing", "arriving"}
           /\ call' = (IF call = "outgoing" THEN "invited" ELSE "ringing")
           /\ nego' = (IF call = "outgoing" THEN gen ELSE nego) /\ UNCHANGED Ice!updated
  <2>1. /\ started' = started /\ with' = with /\ rufrag' = rufrag /\ await_answer' = await_answer
        /\ sel' = sel /\ raddr' = raddr /\ held' = held /\ rrestarts' = rrestarts
        /\ tmr_rrestart' = tmr_rrestart
    BY <1>1 DEF Ice!updated
  <2>2. IceTypes'
    BY <1>1, <1>g, <1>t, <2>1 DEF IceTypes
  <2>3. Unanswered' /\ AnsweredCall'
    BY <1>1, <1>t, <2>1 DEF Unanswered, AnsweredCall, IceTypes
  <2>4. PairKept' /\ Ice!ChecksCurrent' /\ Ice!NoEcho'
    BY <1>1, <1>t, <2>1 DEF PairKept, Ice!ChecksCurrent, Ice!NoEcho
  <2> QED BY <1>1, <2>2, <2>3, <2>4 DEF IceInv
<1>2. CASE call = "up" /\ nego = 0 /\ nego' = gen /\ Ice!OfferUpdate /\ call' = call
  <2>1. /\ await_answer' = await_answer /\ rufrag' \in {0, peer.u} /\ held' = FALSE
        /\ (started' <=> started) /\ started' \in BOOLEAN /\ with' = with
        /\ raddr' \in {"sdp", "pair"} /\ sel' \in 0 .. 2
        /\ (sel' # 0 => sel # 0 /\ raddr' = "pair")
        /\ rrestarts' = rrestarts /\ tmr_rrestart' = tmr_rrestart
    BY <1>2, OfferFx
  <2>2. rufrag' \in 0 .. MaxU
    BY <1>t, <2>1, NetworkAssumption DEF IceTypes, Sdp
  <2>3. IceTypes'
    BY <1>2, <1>g, <1>t, <2>1, <2>2 DEF IceTypes
  <2>4. Unanswered' /\ AnsweredCall'
    BY <1>2, <1>t, <2>1 DEF Unanswered, AnsweredCall, IceTypes
  <2>5. PairKept' /\ Ice!ChecksCurrent' /\ Ice!NoEcho'
    BY <1>2, <1>t, <2>1 DEF PairKept, Ice!ChecksCurrent, Ice!NoEcho
  <2> QED BY <1>2, <2>3, <2>4, <2>5 DEF IceInv
<1>3. CASE call \in {"invited", "ringing", "up"} /\ call' = call /\ nego' = nego
           /\ UNCHANGED Ice!updated
  <2>1. /\ started' = started /\ with' = with /\ rufrag' = rufrag /\ await_answer' = await_answer
        /\ sel' = sel /\ raddr' = raddr /\ held' = held /\ rrestarts' = rrestarts
        /\ tmr_rrestart' = tmr_rrestart
    BY <1>3 DEF Ice!updated
  <2>2. IceTypes'
    BY <1>3, <1>t, <2>1 DEF IceTypes
  <2>3. Unanswered' /\ AnsweredCall'
    BY <1>3, <1>t, <2>1 DEF Unanswered, AnsweredCall
  <2>4. PairKept' /\ Ice!ChecksCurrent' /\ Ice!NoEcho'
    BY <1>3, <1>t, <2>1 DEF PairKept, Ice!ChecksCurrent, Ice!NoEcho
  <2> QED BY <1>3, <2>2, <2>3, <2>4 DEF IceInv
<1> QED BY <1>1, <1>2, <1>3 DEF Ice!EstabRelease

\* Steps of the gather: its report and its deadline.
LEMMA GatherKeeps ==
    ASSUME IceInv, (\E ok \in BOOLEAN, l \in Ice!Addrs : Ice!IceEstab(ok, l)) \/ Ice!Deadline
                   \/ Ice!ReofferDeadline
    PROVE  IceInv' /\ (call = "up" => call' = "up")
<1>t. IceTypes /\ Unanswered /\ AnsweredCall /\ PairKept /\ Ice!ChecksCurrent /\ Ice!NoEcho
  BY DEF IceInv
<1>s. ASSUME UNCHANGED <<told, peer, rsig, gen, concluded, early, crossed, restarts,
                         call, nego, Ice!updated>>,
             left' \in 0 .. Polls, tmr_reoffer' \in BOOLEAN, tmr_reoffer' => tmr_reoffer,
             released' \in BOOLEAN, restarting' \in BOOLEAN,
             released' \/ restarting' \/ (released' = released /\ restarting' = restarting)
      PROVE  IceInv'
  <2>1. /\ started' = started /\ with' = with /\ rufrag' = rufrag /\ await_answer' = await_answer
        /\ sel' = sel /\ raddr' = raddr /\ held' = held /\ rrestarts' = rrestarts
        /\ tmr_rrestart' = tmr_rrestart
    BY <1>s DEF Ice!updated
  <2>2. IceTypes'
    BY <1>s, <1>t, <2>1 DEF IceTypes
  <2>3. Unanswered' /\ AnsweredCall'
    BY <1>s, <1>t, <2>1 DEF Unanswered, AnsweredCall
  <2>4. PairKept' /\ Ice!ChecksCurrent' /\ Ice!NoEcho'
    BY <1>s, <1>t, <2>1 DEF PairKept, Ice!ChecksCurrent, Ice!NoEcho
  <2> QED BY <2>2, <2>3, <2>4 DEF IceInv
<1>1. ASSUME NEW ok \in BOOLEAN, NEW l, Ice!IceEstab(ok, l)
      PROVE  IceInv' /\ (call = "up" => call' = "up")
  <2>1. /\ UNCHANGED <<told, peer, rsig, gen, concluded, left, early, crossed, restarts>>
        /\ tmr_reoffer' = tmr_reoffer /\ restarting' = FALSE
    BY <1>1 DEF Ice!IceEstab, Ice!histVars
  <2>2. CASE ~ok /\ ~released /\ ~restarting /\ released' = TRUE /\ call' = "closed"
             /\ UNCHANGED <<nego, Ice!updated>>
    <3>1. /\ started' = started /\ with' = with /\ rufrag' = rufrag /\ await_answer' = await_answer
          /\ sel' = sel /\ raddr' = raddr /\ held' = held /\ rrestarts' = rrestarts
          /\ tmr_rrestart' = tmr_rrestart
      BY <2>2 DEF Ice!updated
    <3>2. IceTypes'
      BY <1>t, <2>1, <2>2, <3>1 DEF IceTypes
    <3>3. Unanswered' /\ AnsweredCall' /\ call # "up"
      BY <1>t, <2>1, <2>2, <3>1 DEF Unanswered, AnsweredCall
    <3>4. PairKept' /\ Ice!ChecksCurrent' /\ Ice!NoEcho'
      BY <1>t, <2>1, <2>2, <3>1 DEF PairKept, Ice!ChecksCurrent, Ice!NoEcho
    <3> QED BY <3>2, <3>3, <3>4 DEF IceInv
  <2>3. CASE released /\ released' = released /\ UNCHANGED <<call, nego, Ice!updated>>
    <3>1. left' \in 0 .. Polls /\ tmr_reoffer' \in BOOLEAN /\ released' \in BOOLEAN /\ released'
      BY <1>t, <2>1, <2>3 DEF IceTypes
    <3> QED BY <1>s, <2>1, <2>3, <3>1
  <2>4. CASE released' = TRUE /\ Ice!EstabPrime
    <3>1. CASE Ice!EstabRelease
      BY <1>t, <2>1, <2>4, <3>1, EstabKeeps DEF IceTypes
    <3>2. CASE /\ call \in {"arriving", "ringing"} /\ call' = "ringing"
               /\ Ice!RealUpdate(peer) /\ rufrag' = peer.u
               /\ UNCHANGED <<nego, await_answer, sel, raddr, held, rrestarts, tmr_rrestart>>
      <4>1. peer.u = 1 /\ peer.for = 1 /\ gen = 1 /\ peer \in Sdp
        BY <1>t, <3>2 DEF Unanswered, IceTypes
      <4>2. started' = TRUE /\ with' = (IF started THEN with ELSE peer)
        <5>1. started \in BOOLEAN /\ peer.u # 0
          BY <1>t, <4>1 DEF IceTypes
        <5> QED BY <3>2, <5>1 DEF Ice!RealUpdate
      <4>3. rufrag' \in 0 .. MaxU /\ with' \in Sdp
        BY <1>t, <3>2, <4>1, <4>2, NetworkAssumption DEF IceTypes
      <4>4. IceTypes'
        BY <1>t, <2>1, <2>4, <3>2, <4>2, <4>3 DEF IceTypes
      <4>5. Unanswered' /\ AnsweredCall'
        BY <1>t, <2>1, <2>4, <3>2, <4>2 DEF Unanswered, AnsweredCall
      <4>6. PairKept' /\ Ice!NoEcho'
        BY <1>t, <2>1, <3>2 DEF PairKept, Ice!NoEcho
      <4>7. Ice!ChecksCurrent'
        BY <1>t, <2>1, <4>1, <4>2 DEF Ice!ChecksCurrent
      <4> QED BY <3>2, <4>4, <4>5, <4>6, <4>7 DEF IceInv
    <3> QED BY <2>4, <3>1, <3>2 DEF Ice!EstabPrime
  <2> QED BY <1>1, <2>2, <2>3, <2>4 DEF Ice!IceEstab, Ice!Fatal
<1>2. CASE Ice!Deadline
  <2>1. /\ UNCHANGED <<told, peer, rsig, gen, concluded, left, early, crossed, restarts>>
        /\ tmr_reoffer' = tmr_reoffer
        /\ \/ released' = TRUE /\ restarting' = FALSE /\ Ice!EstabRelease
           \/ UNCHANGED <<released, restarting, call, nego, Ice!updated>>
    BY <1>2 DEF Ice!Deadline, Ice!histVars
  <2>2. CASE released' = TRUE /\ restarting' = FALSE /\ Ice!EstabRelease
    BY <1>t, <2>1, <2>2, EstabKeeps DEF IceTypes
  <2>3. CASE UNCHANGED <<released, restarting, call, nego, Ice!updated>>
    <3>1. /\ left' \in 0 .. Polls /\ tmr_reoffer' \in BOOLEAN /\ released' \in BOOLEAN
          /\ restarting' \in BOOLEAN
      BY <1>t, <2>1, <2>3 DEF IceTypes
    <3> QED BY <1>s, <2>1, <2>3, <3>1
  <2> QED BY <2>1, <2>2, <2>3
<1>3. CASE Ice!ReofferDeadline
  <2>1. /\ UNCHANGED <<told, peer, rsig, gen, concluded, early, crossed, restarts,
                       released, restarting>>
        /\ tmr_reoffer /\ call # "closed" /\ tmr_reoffer' \in {FALSE, tmr_reoffer}
        /\ \/ left' = left /\ Ice!EstabRelease
           \/ left > 0 /\ left' = left - 1 /\ UNCHANGED <<call, nego, Ice!updated>>
           \/ left' = left /\ UNCHANGED <<call, nego, Ice!updated>>
    BY <1>3 DEF Ice!ReofferDeadline, Ice!histVars
  <2>2. /\ call = "up" /\ released \in BOOLEAN /\ restarting \in BOOLEAN /\ (released \/ restarting)
        /\ tmr_reoffer' \in BOOLEAN
    BY <1>t, <2>1 DEF AnsweredCall, IceTypes
  <2>3. CASE left' = left /\ Ice!EstabRelease
    BY <2>1, <2>2, <2>3, EstabKeeps
  <2>4. CASE left' \in {left - 1, left} /\ (left' = left \/ left > 0)
             /\ UNCHANGED <<call, nego, Ice!updated>>
    <3>1. left' \in 0 .. Polls
      BY <1>t, <2>4, NetworkAssumption DEF IceTypes
    <3> QED BY <1>s, <2>1, <2>2, <2>4, <3>1
  <2> QED BY <2>1, <2>3, <2>4
<1> QED BY <1>1, <1>2, <1>3

\* A new generation, on either side's account: its checks wait for the answer.
LEMMA RestartKeeps ==
    ASSUME IceInv, Ice!NetRestart \/ Ice!RRestart
    PROVE  IceInv' /\ call' = call
<1>t. IceTypes /\ Unanswered /\ AnsweredCall /\ PairKept /\ Ice!ChecksCurrent /\ Ice!NoEcho
  BY DEF IceInv
<1>1. /\ UNCHANGED <<call, nego, told, peer, rsig, raddr, left, tmr_reoffer, rrestarts, rufrag>>
      /\ UNCHANGED <<early, crossed, restarts>>
      /\ call \in {"up", "closed"} /\ tmr_rrestart' \in BOOLEAN
      /\ (tmr_rrestart' => tmr_rrestart)
  <2>1. CASE Ice!NetRestart
    BY <1>t, <2>1 DEF Ice!NetRestart, Ice!callVars, Ice!histVars, IceTypes
  <2>2. CASE Ice!RRestart
    BY <1>t, <2>2 DEF Ice!RRestart, Ice!callVars, Ice!histVars, IceTypes, Unanswered
  <2> QED BY <2>1, <2>2
<1>2. ASSUME NEW l, Ice!Restart(l) PROVE IceInv'
  <2>1. /\ gen < MaxGen /\ gen' = gen + 1 /\ started' = FALSE /\ with' = Ice!NoPeer
        /\ concluded' = FALSE /\ released' = FALSE /\ restarting' = TRUE
        /\ await_answer' = TRUE /\ sel' = 0 /\ held' = FALSE
    BY <1>2 DEF Ice!Restart
  <2>2. /\ gen' \in 1 .. MaxGen /\ nego' \in 0 .. gen' /\ told' \in 0 .. gen'
    BY <1>t, <1>1, <2>1, NetworkAssumption DEF IceTypes
  <2>3. with' \in Sdp
    BY <2>1, NetworkAssumption DEF Ice!NoPeer, Sdp
  <2>4. IceTypes'
    <3>1. /\ started' \in BOOLEAN /\ concluded' \in BOOLEAN /\ released' \in BOOLEAN
          /\ restarting' \in BOOLEAN /\ await_answer' \in BOOLEAN /\ held' \in BOOLEAN
      BY <2>1
    <3>2. sel' \in 0 .. 2
      <4>1. sel' = 0
        BY <2>1
      <4> QED BY ONLY <4>1, SMT
    <3> QED BY <1>t, <1>1, <2>2, <2>3, <3>1, <3>2 DEF IceTypes
  <2>5. Unanswered' /\ AnsweredCall'
    BY <1>t, <1>1, <2>1 DEF Unanswered, AnsweredCall
  <2>6. PairKept' /\ Ice!ChecksCurrent' /\ Ice!NoEcho'
    BY <1>t, <1>1, <2>1 DEF PairKept, Ice!ChecksCurrent, Ice!NoEcho
  <2> QED BY <2>4, <2>5, <2>6 DEF IceInv
<1>3. CASE UNCHANGED Ice!restarted
  <2>1. /\ gen' = gen /\ started' = started /\ with' = with /\ concluded' = concluded
        /\ released' = released /\ restarting' = restarting /\ await_answer' = await_answer
        /\ sel' = sel /\ held' = held
    BY <1>3 DEF Ice!restarted
  <2>4. IceTypes'
    BY <1>t, <1>1, <2>1 DEF IceTypes
  <2>5. Unanswered' /\ AnsweredCall'
    BY <1>t, <1>1, <2>1 DEF Unanswered, AnsweredCall
  <2>6. PairKept' /\ Ice!ChecksCurrent' /\ Ice!NoEcho'
    BY <1>t, <1>1, <2>1 DEF PairKept, Ice!ChecksCurrent, Ice!NoEcho
  <2> QED BY <1>1, <2>4, <2>5, <2>6 DEF IceInv
<1> QED BY <1>1, <1>2, <1>3 DEF Ice!NetRestart, Ice!RRestart

\* Checks that succeed: a pair is held while the phone rings, and used after.
LEMMA ConnectedKeeps ==
    ASSUME IceInv, NEW l \in Ice!Addrs, Ice!IceConnected(l)
    PROVE  IceInv' /\ call' = call
<1>t. IceTypes /\ Unanswered /\ AnsweredCall /\ PairKept /\ Ice!ChecksCurrent /\ Ice!NoEcho
  BY DEF IceInv
<1>1. /\ UNCHANGED <<call, told, peer, rsig, gen, started, with, rufrag, await_answer>>
      /\ UNCHANGED <<rrestarts, tmr_rrestart, released, restarting, crossed, restarts>>
      /\ call \in {"ringing", "up"} /\ concluded' = TRUE /\ sel' = rsig
      /\ nego' \in {nego, gen} /\ (call # "up" => nego' = nego)
      /\ (nego' = nego \/ nego = 0)
      /\ left' \in {left, Polls}
      /\ tmr_reoffer' \in {tmr_reoffer, TRUE, FALSE}
      /\ \/ /\ call = "ringing" /\ held' = TRUE /\ early' = early /\ raddr' = raddr
            /\ tmr_reoffer' = tmr_reoffer
         \/ /\ call = "up" /\ held' = held /\ early' = (early \/ call = "ringing")
            /\ raddr' = "pair"
  BY DEF Ice!IceConnected, Ice!Hold
<1>2. /\ nego' \in 0 .. gen' /\ left' \in 0 .. Polls /\ sel' \in 0 .. 2 /\ sel' # 0
      /\ early' = FALSE
  <2>0. /\ gen \in 1 .. MaxGen /\ nego \in 0 .. gen /\ left \in 0 .. Polls /\ Polls \in Nat
        /\ rsig \in 1 .. 2 /\ early = FALSE /\ MaxGen \in Nat
    BY <1>t, NetworkAssumption DEF IceTypes
  <2>1. nego' \in 0 .. gen' /\ left' \in 0 .. Polls
    <3>1. gen' = gen /\ nego' \in {nego, gen} /\ left' \in {left, Polls}
      BY <1>1
    <3> QED BY ONLY <2>0, <3>1
  <2>2. sel' \in 0 .. 2 /\ sel' # 0
    BY <1>1, <2>0
  <2>3. early' = FALSE
    BY <1>1, <2>0
  <2> QED BY <2>1, <2>2, <2>3
<1>3. IceTypes'
  BY ZenonT(60), <1>t, <1>1, <1>2 DEF IceTypes
<1>4. Unanswered' /\ AnsweredCall'
  BY <1>t, <1>1 DEF Unanswered, AnsweredCall
<1>5. PairKept' /\ Ice!ChecksCurrent' /\ Ice!NoEcho'
  BY <1>t, <1>1, <1>2 DEF PairKept, Ice!ChecksCurrent, Ice!NoEcho
<1> QED BY <1>1, <1>3, <1>4, <1>5 DEF IceInv

\* The SDP exchanges: the answer to our offer, an offer of the peer's, one of ours, and
\* the answer of the application.
LEMMA ExchangeKeeps ==
    ASSUME IceInv,
           \/ \E own \in BOOLEAN, rs \in 1 .. 2 : Ice!Answered(own, rs) \/ Ice!PeerOffer(own, rs)
           \/ Ice!LocalOffer \/ Ice!AnswerCall
    PROVE  IceInv' /\ call' = "up"
<1>t. IceTypes /\ Unanswered /\ AnsweredCall /\ PairKept /\ Ice!ChecksCurrent /\ Ice!NoEcho
  BY DEF IceInv
<1>n. /\ gen \in Nat /\ gen # 0 /\ gen <= MaxGen /\ MaxGen \in Nat /\ MaxU \in Nat
      /\ peer.u \in 0 .. MaxU /\ restarts \in Nat /\ rrestarts \in Nat /\ MaxRemote \in Nat
      /\ nego \in Nat /\ told \in Nat /\ nego <= gen /\ told <= gen
  BY <1>t, NetworkAssumption DEF IceTypes, Sdp
\* What an exchange with the SDP p has in common.
<1>i. ASSUME NEW p \in Sdp, p.u # 0, NEW rs \in 1 .. 2, Ice!Update(p, rs),
             ~held \/ rufrag \in {0, p.u}, UNCHANGED Ice!exchanged,
             call' = "up", peer' = p, rsig' = rs, nego' \in 0 .. gen, told' \in 0 .. gen,
             restarts' \in Nat, crossed' \in BOOLEAN,
             \* exchanges that do not cross leave the peer knowing of the generation
             ~crossed' => ~crossed /\ told' = gen /\ nego' \in {0, gen},
             ~crossed' /\ ~started => p.for = gen,
             \* a new ufrag is the answer to our restart or a restart of the peer's
             restarts' >= restarts,
             ~crossed' /\ ~await_answer /\ rufrag # 0 /\ p.u # rufrag => restarts' >= restarts + 1,
             released \/ restarting
      PROVE  IceInv'
  <2>1. /\ started' = TRUE /\ with' = (IF started THEN with ELSE p) /\ rufrag' = p.u
        /\ await_answer' = FALSE /\ held' = FALSE /\ raddr' \in {"sdp", "pair"}
        /\ sel' \in 0 .. 2 /\ (sel' # 0 => sel # 0 /\ raddr' = "pair")
        /\ tmr_rrestart' \in BOOLEAN
        /\ \/ rrestarts' = rrestarts /\ tmr_rrestart' = tmr_rrestart
           \/ /\ rrestarts' = rrestarts + 1 /\ rrestarts < MaxRemote
              /\ rufrag # 0 /\ p.u # rufrag /\ ~await_answer
    BY <1>i, UpdateFx
  <2>2. /\ tmr_reoffer' = tmr_reoffer /\ left' = left /\ released' = released
        /\ restarting' = restarting /\ gen' = gen /\ concluded' = concluded /\ early' = early
    BY <1>i DEF Ice!exchanged
  <2>3. rufrag' \in 0 .. MaxU /\ with' \in Sdp /\ rrestarts' \in 0 .. MaxRemote
    BY <1>i, <1>n, <1>t, <2>1 DEF IceTypes, Sdp
  <2>4. IceTypes'
    BY <1>i, <1>t, <2>1, <2>2, <2>3 DEF IceTypes
  <2>5. Unanswered' /\ AnsweredCall'
    BY <1>i, <1>t, <2>1, <2>2 DEF Unanswered, AnsweredCall
  <2>6. PairKept'
    BY <1>i, <1>t, <2>1, <2>2 DEF PairKept
  <2>7. Ice!ChecksCurrent'
    BY <1>i, <1>t, <2>1, <2>2 DEF Ice!ChecksCurrent
  <2>8. Ice!NoEcho'
    BY <1>i, <1>n, <1>t, <2>1 DEF Ice!NoEcho
  <2> QED BY <2>4, <2>5, <2>6, <2>7, <2>8 DEF IceInv
<1>1. ASSUME NEW new \in BOOLEAN, NEW rs \in 1 .. 2, Ice!Answered(new, rs)
      PROVE  IceInv' /\ call' = "up"
  <2> DEFINE p == Ice!NewPeer(new, nego)
  <2>1. /\ nego # 0 /\ call \in {"invited", "up"} /\ p.u <= MaxU
        /\ (call = "invited" => new)
        /\ call' = "up" /\ nego' = 0 /\ told' = nego /\ peer' = p /\ rsig' = rs
        /\ restarts' = (IF new /\ told = nego THEN restarts + 1 ELSE restarts)
        /\ crossed' = (crossed \/ (await_answer /\ nego # gen))
        /\ Ice!Update(p, rs) /\ UNCHANGED Ice!exchanged
    BY <1>1 DEF Ice!Answered
  <2>2. p.u = (IF new THEN peer.u + 1 ELSE peer.u) /\ p.for = nego
        /\ p = [u |-> p.u, for |-> p.for]
    BY DEF Ice!NewPeer
  <2>3. p \in Sdp
    BY <1>n, <2>1, <2>2 DEF Sdp
  <2> HIDE DEF p
  <2>4. p.u # 0
    BY <1>n, <1>t, <2>1, <2>2 DEF Unanswered, AnsweredCall
  <2>5. ~held /\ (released \/ restarting)
    BY <1>t, <2>1 DEF PairKept, AnsweredCall
  <2>6. ASSUME ~crossed' PROVE ~crossed /\ nego = gen
    BY <1>t, <2>1, <2>6 DEF IceTypes, Unanswered, AnsweredCall
  <2>7. ASSUME ~crossed', ~await_answer, rufrag # 0, p.u # rufrag
        PROVE  new /\ told = nego
    <3>1. call = "up" /\ told = gen
      BY <1>t, <2>1, <2>6, <2>7 DEF Unanswered, AnsweredCall, PairKept
    <3>2. told = nego /\ rufrag = peer.u
      BY <1>t, <2>6, <2>7, <3>1 DEF PairKept
    <3> QED BY <2>2, <2>7, <3>2
  <2>8. nego' \in 0 .. gen /\ told' \in 0 .. gen /\ restarts' \in Nat /\ restarts' >= restarts
        /\ crossed' \in BOOLEAN /\ (new /\ told = nego => restarts' >= restarts + 1)
    BY <1>n, <1>t, <2>1 DEF IceTypes
  <2>9. ~crossed' => ~crossed /\ told' = gen /\ nego' \in {0, gen} /\ p.for = gen
    BY <2>1, <2>2, <2>6
  <2> QED BY <1>i, <2>1, <2>3, <2>4, <2>5, <2>7, <2>8, <2>9
<1>2. ASSUME NEW own \in BOOLEAN, NEW rs \in 1 .. 2, Ice!PeerOffer(own, rs)
      PROVE  IceInv' /\ call' = "up"
  <2> DEFINE p == Ice!NewPeer(own, told)
  <2>1. /\ call = "up" /\ nego = 0 /\ p.u <= MaxU
        /\ peer' = p /\ rsig' = rs /\ told' = gen /\ call' = call /\ nego' = nego
        /\ restarts' = (IF own THEN restarts + 1 ELSE restarts)
        /\ crossed' = (crossed \/ await_answer)
        /\ Ice!Update(p, rs) /\ UNCHANGED Ice!exchanged
    BY <1>2 DEF Ice!PeerOffer
  <2>2. p.u = (IF own THEN peer.u + 1 ELSE peer.u) /\ p.for = told
        /\ p = [u |-> p.u, for |-> p.for]
    BY DEF Ice!NewPeer
  <2>3. p \in Sdp
    BY <1>n, <2>1, <2>2 DEF Sdp
  <2> HIDE DEF p
  <2>4. p.u # 0
    BY <1>n, <1>t, <2>1, <2>2 DEF AnsweredCall
  <2>5. ~held /\ (released \/ restarting)
    BY <1>t, <2>1 DEF PairKept, AnsweredCall
  <2>6. ASSUME ~crossed' PROVE ~crossed /\ started
    BY <1>t, <2>1, <2>6 DEF IceTypes, AnsweredCall
  <2>7. ASSUME rufrag # 0, p.u # rufrag PROVE own
    BY <1>t, <2>2, <2>7 DEF PairKept
  <2>8. nego' \in 0 .. gen /\ told' \in 0 .. gen /\ restarts' \in Nat /\ restarts' >= restarts
        /\ crossed' \in BOOLEAN /\ (own => restarts' >= restarts + 1)
    BY <1>n, <1>t, <2>1 DEF IceTypes
  <2>9. ~crossed' => ~crossed /\ told' = gen /\ nego' \in {0, gen}
    BY <2>1, <2>6
  <2> QED BY <1>i, <2>1, <2>3, <2>4, <2>5, <2>6, <2>7, <2>8, <2>9
<1>3. CASE Ice!LocalOffer
  <2>1. /\ call = "up" /\ nego = 0 /\ nego' = gen /\ call' = call /\ told' = told
        /\ crossed' = (crossed \/ await_answer) /\ peer' = peer /\ rsig' = rsig
        /\ restarts' = restarts /\ Ice!Update(peer, rsig) /\ UNCHANGED Ice!exchanged
    BY <1>3 DEF Ice!LocalOffer
  <2>2. /\ peer \in Sdp /\ peer.u # 0 /\ rsig \in 1 .. 2 /\ ~held /\ (released \/ restarting)
        /\ rufrag \in {0, peer.u}
    BY <1>t, <2>1 DEF PairKept, AnsweredCall, IceTypes
  <2>3. nego' \in 0 .. gen /\ told' \in 0 .. gen /\ restarts' \in Nat /\ restarts' >= restarts
        /\ crossed' \in BOOLEAN
    BY <1>n, <1>t, <2>1 DEF IceTypes
  <2>4. ~crossed' => ~crossed /\ told' = gen /\ nego' \in {0, gen} /\ started
    BY <1>t, <2>1 DEF IceTypes, AnsweredCall
  <2> QED BY <1>i, <2>1, <2>2, <2>3, <2>4
<1>4. CASE Ice!AnswerCall
  <2>1. /\ call = "ringing" /\ call' = "up" /\ told' = gen /\ nego' = nego /\ peer' = peer
        /\ rsig' = rsig /\ restarts' = restarts /\ crossed' = crossed
        /\ Ice!Update(peer, rsig) /\ UNCHANGED Ice!exchanged
    BY <1>4 DEF Ice!AnswerCall
  <2>2. /\ peer \in Sdp /\ peer.u # 0 /\ peer.for = gen /\ rsig \in 1 .. 2 /\ nego = 0
        /\ (released \/ restarting) /\ rufrag \in {0, peer.u}
    BY <1>t, <2>1 DEF PairKept, AnsweredCall, IceTypes, Unanswered
  <2>3. nego' \in 0 .. gen /\ told' \in 0 .. gen /\ restarts' \in Nat /\ restarts' >= restarts
        /\ crossed' \in BOOLEAN
    BY <1>n, <1>t, <2>1 DEF IceTypes
  <2>4. ~crossed' => ~crossed /\ told' = gen /\ nego' \in {0, gen}
    BY <2>1, <2>2
  <2> QED BY <1>i, <2>1, <2>2, <2>3, <2>4
<1> QED BY <1>1, <1>2, <1>3, <1>4

\* Every step of the ICE layer keeps the invariant, and ends a call that is up only
\* when somebody hangs up.
LEMMA IceSteps ==
    ASSUME IceInv, [Ice!Next]_iceVars
    PROVE  IceInv' /\ (call = "up" /\ call' = "closed" => hung')
<1>t. IceTypes /\ Unanswered /\ AnsweredCall /\ PairKept /\ Ice!ChecksCurrent /\ Ice!NoEcho
  BY DEF IceInv
<1>1. CASE Ice!Secured
  <2>1. /\ UNCHANGED <<call, nego, told, peer, rsig, raddr, gen, started, with, concluded, left,
                       tmr_reoffer, tmr_rrestart, released, restarting, await_answer, rrestarts,
                       sel, held, rufrag, early, crossed, restarts>>
    BY <1>1 DEF Ice!Secured, Ice!innerVars, Ice!shimVars, Ice!histVars
  <2>2. IceTypes'
    BY <1>t, <2>1 DEF IceTypes
  <2>3. Unanswered' /\ AnsweredCall'
    BY <1>t, <2>1 DEF Unanswered, AnsweredCall
  <2>4. PairKept' /\ Ice!ChecksCurrent' /\ Ice!NoEcho'
    BY <1>t, <2>1 DEF PairKept, Ice!ChecksCurrent, Ice!NoEcho
  <2> QED BY <2>1, <2>2, <2>3, <2>4 DEF IceInv
<1>2. CASE Ice!Hangup
  <2>1. /\ UNCHANGED <<nego, told, peer, rsig, raddr, gen, started, with, concluded, left,
                       released, await_answer, rrestarts, sel, held, rufrag, early, crossed,
                       restarts>>
        /\ call' = "closed" /\ hung' = TRUE /\ tmr_reoffer' = FALSE /\ tmr_rrestart' = FALSE
        /\ restarting' = FALSE
    BY <1>2 DEF Ice!Hangup, Ice!innerVars
  <2>2. IceTypes'
    BY <1>t, <2>1 DEF IceTypes
  <2>3. Unanswered' /\ AnsweredCall'
    BY <1>t, <2>1 DEF Unanswered, AnsweredCall
  <2>4. PairKept' /\ Ice!ChecksCurrent' /\ Ice!NoEcho'
    BY <1>t, <2>1 DEF PairKept, Ice!ChecksCurrent, Ice!NoEcho
  <2> QED BY <2>1, <2>2, <2>3, <2>4 DEF IceInv
<1>3. CASE UNCHANGED iceVars
  <2>1. /\ UNCHANGED <<call, nego, told, peer, rsig, raddr, gen, started, with, concluded, left,
                       tmr_reoffer, tmr_rrestart, released, restarting, await_answer, rrestarts,
                       sel, held, rufrag, early, crossed, restarts>>
    BY <1>3 DEF iceVars
  <2>2. IceTypes'
    BY <1>t, <2>1 DEF IceTypes
  <2>3. Unanswered' /\ AnsweredCall'
    BY <1>t, <2>1 DEF Unanswered, AnsweredCall
  <2>4. PairKept' /\ Ice!ChecksCurrent' /\ Ice!NoEcho'
    BY <1>t, <2>1 DEF PairKept, Ice!ChecksCurrent, Ice!NoEcho
  <2> QED BY <2>1, <2>2, <2>3, <2>4 DEF IceInv
<1>r. CASE Ice!Rejected
  <2>1. /\ UNCHANGED <<call, told, peer, rsig, raddr, gen, started, with, concluded, left,
                       tmr_reoffer, tmr_rrestart, released, restarting, await_answer, rrestarts,
                       sel, held, rufrag, early, crossed, restarts>>
        /\ call = "up" /\ nego' = 0
    BY <1>r DEF Ice!Rejected, Ice!innerVars, Ice!shimVars, Ice!histVars
  <2>2. IceTypes'
    <3>1. gen \in Nat /\ 0 \in 0 .. gen
      BY <1>t, NetworkAssumption DEF IceTypes
    <3> QED BY <1>t, <2>1, <3>1 DEF IceTypes
  <2>3. Unanswered' /\ AnsweredCall'
    BY <1>t, <2>1 DEF Unanswered, AnsweredCall
  <2>4. PairKept' /\ Ice!ChecksCurrent' /\ Ice!NoEcho'
    BY <1>t, <2>1 DEF PairKept, Ice!ChecksCurrent, Ice!NoEcho
  <2> QED BY <2>1, <2>2, <2>3, <2>4 DEF IceInv
<1>4. ASSUME Ice!NetRestart \/ Ice!RRestart \/ (\E l \in Ice!Addrs : Ice!IceConnected(l))
      PROVE  IceInv' /\ call' = call
  BY <1>4, RestartKeeps, ConnectedKeeps
<1>5. ASSUME (\E ok \in BOOLEAN, l \in Ice!Addrs : Ice!IceEstab(ok, l)) \/ Ice!Deadline
             \/ Ice!ReofferDeadline
      PROVE  IceInv' /\ (call = "up" => call' = "up")
  BY <1>5, GatherKeeps
<1>6. ASSUME \/ \E own \in BOOLEAN, rs \in 1 .. 2 : Ice!Answered(own, rs) \/ Ice!PeerOffer(own, rs)
             \/ Ice!LocalOffer \/ Ice!AnswerCall
      PROVE  IceInv' /\ call' = "up"
  BY <1>6, ExchangeKeeps
<1> QED BY <1>1, <1>2, <1>3, <1>r, <1>4, <1>5, <1>6 DEF Ice!Next

\* A call begins with its first gather.
LEMMA IceBegins == Ice!Init => IceInv
<1> SUFFICES ASSUME Ice!Init PROVE IceInv
  OBVIOUS
<1>1. /\ call \in {"outgoing", "arriving"} /\ nego = 0 /\ told = 0
      /\ peer = (IF call = "arriving" THEN [u |-> 1, for |-> 1] ELSE Ice!NoPeer)
      /\ rsig = 1 /\ raddr = "none" /\ gen = 1 /\ started = FALSE /\ with = Ice!NoPeer
      /\ concluded = FALSE /\ tmr_reoffer = FALSE /\ left = 0 /\ tmr_rrestart = FALSE
      /\ released = FALSE /\ restarting = FALSE /\ await_answer = FALSE /\ rrestarts = 0
      /\ sel = 0 /\ held = FALSE /\ rufrag = 0
      /\ early = FALSE /\ crossed = FALSE /\ restarts = 0
  BY DEF Ice!Init
<1>2. /\ Ice!NoPeer \in Sdp /\ [u |-> 1, for |-> 1] \in Sdp
      /\ 1 \in 1 .. MaxGen /\ 0 \in 0 .. MaxU /\ 0 \in 0 .. MaxRemote /\ 0 \in 0 .. Polls
  BY NetworkAssumption DEF Sdp, Ice!NoPeer
<1>3. /\ peer \in Sdp /\ (call = "outgoing" => peer.u = 0)
      /\ (call = "arriving" => peer.u = 1 /\ peer.for = 1)
  BY <1>1, <1>2 DEF Ice!NoPeer
<1>4. /\ nego \in 0 .. gen /\ told \in 0 .. gen /\ sel \in 0 .. 2 /\ rsig \in 1 .. 2
  <2>1. gen = 1 /\ nego = 0 /\ told = 0 /\ sel = 0 /\ rsig = 1
    BY <1>1
  <2> QED BY ONLY <2>1, SMT
<1>5. IceTypes
  BY <1>1, <1>2, <1>3, <1>4 DEF IceTypes
<1>6. Unanswered /\ AnsweredCall
  BY <1>1, <1>3 DEF Unanswered, AnsweredCall
<1>7. PairKept /\ Ice!ChecksCurrent /\ Ice!NoEcho
  BY <1>1 DEF PairKept, Ice!ChecksCurrent, Ice!NoEcho
<1> QED BY <1>5, <1>6, <1>7 DEF IceInv

\* Through any number of restarts of both ends and any order of gathers, checks and
\* SDP exchanges, ice_shim.c sends to the pair the checks found and ends no call that is
\* up; and, when no other exchange came between a restart of ours and its answer, it runs
\* the checks of a generation with credentials the peer wrote for it and does not echo
\* restarts for ever.
THEOREM IceIsSound == Spec => IceSound
<1>1. Init => IceInv
  BY IceBegins DEF Init
<1>2. IceInv /\ [Next]_vars => IceInv' /\ [call = "up" /\ call' = "closed" => hung']_(Ice!vars)
  BY PartSteps, IceSteps
<1>3. IceInv => Ice!TypeOK /\ Ice!ChecksCurrent /\ Ice!SendsToPair /\ Ice!NoEcho
  BY DEF IceInv, IceTypes, PairKept, Sdp, Ice!TypeOK, Ice!SendsToPair
<1> QED BY <1>1, <1>2, <1>3, PTL DEF Spec, IceSound, Ice!FailureSparesCall
=============================================================================
