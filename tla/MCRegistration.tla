--------------------------- MODULE MCRegistration ---------------------------
(***************************************************************************)
(* Registration under two settings, checked in one run: "setting" is chosen *)
(* at the start and stays.                                                 *)
(*   busy     every operation but set_push_token(), handovers, and a        *)
(*            ua_register() that may do nothing                            *)
(*   patient  an application that registers and then waits                 *)
(***************************************************************************)
EXTENDS Registration

VARIABLE setting

Patient == INSTANCE Registration WITH
    Policies <- {2}, AppOps <- {"register", "keepalive_now"}, NetChanges <- FALSE

MCInit ==
    \/ setting = "busy" /\ Init
    \/ setting = "patient" /\ Patient!Init

MCNext ==
    \/ setting = "busy" /\ Next /\ UNCHANGED setting
    \/ setting = "patient" /\ Patient!Next /\ UNCHANGED setting

\* The two timers of a patient application's account fire.
MCSpec ==
    /\ MCInit /\ [][MCNext]_<<setting, vars>>
    /\ WF_vars(setting = "patient" /\ \E v \in Vanishing : Patient!RetryTimer(v))
    /\ WF_vars(setting = "patient" /\ \E d \in Delays : Patient!RegWatch(d))

-----------------------------------------------------------------------------
\* With a patient application every REGISTER in flight is watched, and a registration
\* in progress or in recovery ends, whatever the registrar does (account.c).
PatientResolves ==
    setting = "patient" => []Patient!InFlightWatched /\ Patient!Resolves
=============================================================================
