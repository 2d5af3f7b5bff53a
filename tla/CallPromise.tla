----------------------------- MODULE CallPromise -----------------------------
(***************************************************************************)
(* What the SDK promises an application about the life of a call: the       *)
(* CALL_STATE events of a call tell one story.  It is set up, it is up (and *)
(* then held and resumed as often as one likes), and it is over, once.      *)
(* Events may be missed (a full queue drops them) but never come out of     *)
(* order, and nothing follows the end (enum voxsdk_call_state, voxsdk.h).   *)
(***************************************************************************)
EXTENDS Naturals

CONSTANT Calls

VARIABLE told   \* told[c]: the last state of c the application was given

Setup == {"CALLING", "RINGING"}
Up    == {"ESTABLISHED", "HELD"}
Over  == {"ENDED", "FAILED", "CANCELLED"}
CallStates == Setup \cup Up \cup Over

\* The states that may be told after s.
Later(s) ==
    CASE s = "none"    -> CallStates
      [] s = "CALLING" -> {"RINGING"} \cup Up \cup Over
      [] s = "RINGING" -> Up \cup Over
      [] s \in Up      -> (Up \ {s}) \cup Over
      [] s \in Over    -> {}

Init == told = [c \in Calls |-> "none"]

Tell(c) == \E s \in Later(told[c]) : told' = [told EXCEPT ![c] = s]

Next == \E c \in Calls : Tell(c)

Spec == Init /\ [][Next]_told
=============================================================================
