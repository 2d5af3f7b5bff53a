------------------------------ MODULE Accounts ------------------------------
(***************************************************************************)
(* The list of accounts and what outlives an account: account.c.            *)
(*                                                                         *)
(* Accounts are created and destroyed on the re thread, which is also where *)
(* the answer of a DNS lookup arrives; acct_lock guards the list.           *)
(* voxsdk_account_foreach() walks it on the application's thread and runs   *)
(* the application's function with the lock held.  An account is known to   *)
(* its lookups by its address alone, and an address is used again.          *)
(***************************************************************************)
EXTENDS Naturals

CONSTANTS
    Addrs,      \* addresses mem_alloc() hands out
    MaxIds      \* bound: accounts ever created

VARIABLES
    at,         \* at[a]: the account that lives at the address, 0 for freed memory
    list,       \* g_vox.accounts, as addresses
    lookups,    \* lookups in flight: the account that asked and its address
    tried,      \* addresses whose account has srv_tried set
    targets,    \* targets[a]: whose answers are in srv_uri of what is at a
    lock,       \* acct_lock: "free", "re" or "app"
    re,         \* what the re thread is in: an operation and its argument
    it,         \* the iteration: "off", "on", or "sync" inside a synchronous call
    todo,       \* the addresses it has not visited yet
    hand,       \* the address the application's function has been given, if any
    born,       \* accounts created so far
    orphans     \* history: accounts whose address was reused under their lookup

vars == <<at, list, lookups, tried, targets, lock, re, it, todo, hand, born, orphans>>
itVars == <<it, todo, hand>>
memVars == <<at, list, tried, targets, born, orphans>>

Idle == [op |-> "idle", arg |-> 0, addr |-> 0]
Op(o, i, a) == [op |-> o, arg |-> i, addr |-> a]

Init ==
    /\ at = [a \in Addrs |-> 0] /\ list = {}
    /\ lookups = {} /\ tried = {} /\ targets = [a \in Addrs |-> {}]
    /\ lock = "free" /\ re = Idle
    /\ it = "off" /\ todo = {} /\ hand = {}
    /\ born = 0 /\ orphans = {}

-----------------------------------------------------------------------------
(* The re thread, one function at a time.  Each ends in a critical section  *)
(* of acct_lock, for which it may have to wait.                            *)

\* create_fn() up to the lock: the account's memory may have held another.
create_fn(a) ==
    /\ re = Idle /\ at[a] = 0 /\ born < MaxIds
    /\ born' = born + 1
    /\ at' = [at EXCEPT ![a] = born + 1]
    /\ orphans' = orphans \cup {l.id : l \in {k \in lookups : k.addr = a}}
    /\ re' = Op("create", born + 1, a)
    /\ UNCHANGED <<list, lookups, tried, targets, lock, itVars>>

Created ==
    /\ re.op = "create" /\ lock = "free"
    /\ list' = list \cup {re.addr}
    /\ re' = Idle
    /\ UNCHANGED <<at, lookups, tried, targets, lock, itVars, born, orphans>>

\* vox_account_srv_resolve(): once per account.
vox_account_srv_resolve(a) ==
    /\ re = Idle /\ a \in list \ tried
    /\ tried' = tried \cup {a}
    /\ lookups' = lookups \cup {[id |-> at[a], addr |-> a]}
    /\ UNCHANGED <<at, list, targets, lock, re, itVars, born, orphans>>

\* The answer arrives: srv_done_handler() first asks acct_is_live().
Answer(l) ==
    /\ re = Idle /\ l \in lookups
    /\ lookups' = lookups \ {l}
    /\ re' = Op("answer", l.id, l.addr)
    /\ UNCHANGED <<memVars, lock, itVars>>

\* Mutant: the pointer is trusted.
acct_is_live_Trust(a) == TRUE

\* acct_is_live(): some account has this address.
acct_is_live(a) == a \in list

srv_done_handler ==
    /\ re.op = "answer" /\ lock = "free"
    /\ targets' = IF acct_is_live(re.addr) THEN [targets EXCEPT ![re.addr] = @ \cup {re.arg}]
                  ELSE targets
    /\ re' = Idle
    /\ UNCHANGED <<at, list, lookups, tried, lock, itVars, born, orphans>>

\* Every event of baresip looks its account up.
Event ==
    /\ re = Idle
    /\ re' = Op("find", 0, 0)
    /\ UNCHANGED <<memVars, lookups, lock, itVars>>


\* vox_account_find_by_ua()
find_by_ua ==
    /\ re.op = "find" /\ lock = "free"
    /\ re' = Idle
    /\ UNCHANGED <<memVars, lookups, lock, itVars>>

\* destroy_fn() up to the lock: destroyed is set, the timers are cancelled, the
\* user agent is gone.
destroy_fn(a) ==
    /\ re = Idle /\ a \in list
    /\ re' = Op("destroy", at[a], a)
    /\ UNCHANGED <<memVars, lookups, lock, itVars>>

\* Mutant: the account is unlinked without the lock.
Destroyed_Unlocked ==
    /\ re.op = "destroy"
    /\ list' = list \ {re.addr} /\ at' = [at EXCEPT ![re.addr] = 0]
    /\ tried' = tried \ {re.addr} /\ targets' = [targets EXCEPT ![re.addr] = {}]
    /\ re' = Idle
    /\ UNCHANGED <<lookups, lock, itVars, born, orphans>>

\* Unlinked, and freed by account_destructor(); its lookup stays in flight.
Destroyed ==
    /\ re.op = "destroy" /\ lock = "free"
    /\ list' = list \ {re.addr} /\ at' = [at EXCEPT ![re.addr] = 0]
    /\ tried' = tried \ {re.addr} /\ targets' = [targets EXCEPT ![re.addr] = {}]
    /\ re' = Idle
    /\ UNCHANGED <<lookups, lock, itVars, born, orphans>>

\* The function the iterating thread has dispatched.
Serve ==
    /\ re = Idle /\ it = "sync"
    /\ it' = "on"
    /\ UNCHANGED <<memVars, lookups, lock, re, todo, hand>>

-----------------------------------------------------------------------------
(* The application's thread, in voxsdk_account_foreach().                  *)

foreach ==
    /\ it = "off" /\ lock = "free"
    /\ lock' = "app" /\ it' = "on" /\ todo' = list /\ hand' = {}
    /\ UNCHANGED <<memVars, lookups, re>>

\* fn() is given the next account that is not being destroyed ...
Visit(a) ==
    /\ it = "on" /\ a \in todo
    /\ todo' = todo \ {a}
    /\ hand' = IF re.op = "destroy" /\ re.addr = a THEN {} ELSE {a}
    /\ UNCHANGED <<memVars, lookups, lock, re, it>>

\* ... and may call a synchronous function of the API other than create and
\* destroy, which the header forbids.
CallSync ==
    /\ it = "on" /\ hand # {}
    /\ it' = "sync"
    /\ UNCHANGED <<memVars, lookups, lock, re, todo, hand>>

Iterated ==
    /\ it = "on" /\ todo = {}
    /\ it' = "off" /\ hand' = {} /\ lock' = "free"
    /\ UNCHANGED <<memVars, lookups, re, todo>>

Locked == Created \/ srv_done_handler \/ find_by_ua \/ Destroyed

Next ==
    \/ \E a \in Addrs : create_fn(a) \/ vox_account_srv_resolve(a) \/ destroy_fn(a) \/ Visit(a)
    \/ \E l \in lookups : Answer(l)
    \/ Event \/ Locked \/ Serve
    \/ foreach \/ CallSync \/ Iterated

Spec == Init /\ [][Next]_vars

-----------------------------------------------------------------------------
(* Properties.                                                             *)

\* Every variable has its type.
TypeOK ==
    /\ at \in [Addrs -> 0..MaxIds] /\ list \subseteq Addrs /\ tried \subseteq list
    /\ lookups \subseteq [id : 1..MaxIds, addr : Addrs]
    /\ targets \in [Addrs -> SUBSET (1..MaxIds)]
    /\ lock \in {"free", "re", "app"} /\ it \in {"off", "on", "sync"}
    /\ todo \subseteq Addrs /\ hand \subseteq Addrs /\ (\A a, b \in hand : a = b)
    /\ born \in 0..MaxIds /\ orphans \subseteq 1..MaxIds
    /\ re.op \in {"idle", "create", "answer", "find", "destroy"}

\* An answer that outlives its account never touches freed memory, and reaches
\* another account only when that one was given the dead account's address while
\* the lookup was in flight: comparing addresses (account.c:749) tells a dead
\* account from a live one, not one account from the next.
AnswersKeptApart ==
    \A a \in Addrs : \A i \in targets[a] : at[a] # 0 /\ (i = at[a] \/ i \in orphans)

\* The handle the application's function holds is that of an account that exists,
\* and stays one until voxsdk_account_foreach() moves on, whoever destroys it.
HandsLive == \A a \in hand : at[a] # 0

\* What the re thread is in concerns memory that is what it was when it began.
ReInv ==
    /\ re.op = "create" => re.addr \in Addrs \ list /\ at[re.addr] # 0
    /\ re.op = "answer" => /\ re.arg \in 1..MaxIds /\ re.addr \in Addrs
                           /\ at[re.addr] = 0 \/ at[re.addr] = re.arg \/ re.arg \in orphans
    /\ re.op = "destroy" => re.addr \in list

\* An account is in the list from its creation to its end, but for the moment in
\* which create_fn() waits for the lock.
ListInv ==
    /\ \A a \in Addrs : at[a] # 0 <=> a \in list \/ (re.op = "create" /\ re.addr = a)
    /\ \A a \in Addrs : at[a] <= born
    /\ \A l \in lookups : at[l.addr] = 0 \/ at[l.addr] = l.id \/ l.id \in orphans

\* The iteration holds acct_lock and what it has left to visit is in the list.
IterInv ==
    /\ lock = IF it = "off" THEN "free" ELSE "app"
    /\ hand \subseteq list /\ todo \subseteq list
    /\ it = "off" => hand = {} /\ todo = {}

\* The inductive invariant behind AnswersKeptApart and HandsLive.
AcctInv == TypeOK /\ ReInv /\ ListInv /\ IterInv /\ AnswersKeptApart

\* The re thread gets acct_lock, and with it every function it runs returns,
\* unless the application's function is inside a synchronous call while it waits:
\* the two then wait for each other, whatever that call was for.
LoopNeverStuck == re # Idle ~> (re = Idle \/ it = "sync")
=============================================================================
