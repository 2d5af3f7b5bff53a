------------------------------- MODULE MCSdk -------------------------------
(***************************************************************************)
(* The threads of the SDK and its locks: starting and stopping it, and the  *)
(* list of accounts.  The two share no state of the models, so a behaviour  *)
(* of both is a behaviour of each: in one run, "part" moves and the other   *)
(* stays in its initial state.                                             *)
(***************************************************************************)
EXTENDS SdkLifecycle

CONSTANTS Addrs, MaxIds     \* of Accounts

ASSUME AccountsAssumption == MaxIds \in Nat

VARIABLES
    part,
    \* Accounts
    at, list, lookups, tried, targets, acct_lock, re_op, it, todo, hand, born, orphans

Acct == INSTANCE Accounts WITH lock <- acct_lock, re <- re_op

acctVars == <<at, list, lookups, tried, targets, acct_lock, re_op, it, todo, hand, born, orphans>>
allVars  == <<part, vars, acctVars>>

MCInit == part \in {"lifecycle", "accounts"} /\ Init /\ Acct!Init

MCNext ==
    \/ part = "lifecycle" /\ Next /\ UNCHANGED <<part, acctVars>>
    \/ part = "accounts" /\ Acct!Next /\ UNCHANGED <<part, vars>>

\* Of the accounts: a thread waiting for acct_lock gets it in the end if it is
\* released again and again (strong), and the application's function returns.
MCSpec ==
    /\ MCInit /\ [][MCNext]_allVars /\ (part = "lifecycle" => Fairness)
    /\ SF_allVars(part = "accounts" /\ Acct!Locked /\ UNCHANGED <<part, vars>>)
    /\ WF_allVars(/\ part = "accounts" /\ (Acct!Iterated \/ \E a \in Addrs : Acct!Visit(a))
                  /\ UNCHANGED <<part, vars>>)

-----------------------------------------------------------------------------
(* The properties of the two parts; LifecycleSound is SdkLifecycle's.       *)

\* What outlives an account, or is held while it may go, does no harm: no DNS answer
\* reaches freed memory or an account that did not ask, but at a reused address, and
\* the handle an iteration hands out is alive (account.c).
AccountsSound == Acct!TypeOK /\ Acct!AnswersKeptApart /\ Acct!HandsLive

=============================================================================
