---------------------------- MODULE MCDispatchCall ----------------------------
(***************************************************************************)
(* The dispatch of checks, and the call that a SIP check places.  They     *)
(* share no state; `part` says which of them moves in a behaviour, the     *)
(* other stays in an initial state.                                        *)
(***************************************************************************)
EXTENDS CheckDispatch, MCSipCall

VARIABLE part

\* Idle schedulers are alike: one fetches only when those before it are busy.
InOrder ==
    \A s \in Schedulers : batch[s] = NoBatch /\ batch'[s] # NoBatch
        => \A u \in Schedulers : u < s => batch[u] # NoBatch

\* Four monitors, each run by the fleet; monitor 1 places calls, the worker does
\* not know the type of monitor 3, and monitor 4 is a probe without a target.
FleetTargets == [m \in 1..4 |-> {"fleet"}]

\* One of the first two enabled, and any of the four may be run now
\* (MCDispatchAiJobs is about pausing); none, where the scheduler does not move.
OneOrNone == {{1}, {2}, {}}

\* Panics and stops of the worker cut the first INVITE at the first address short: an
\* authenticated retry and a second address go the same ways from there.
CutAtFirst == addr > 1 \/ call.txn > 1 => UNCHANGED panics /\ outcome' # "stopped"

InitParts ==
    /\ part \in {"dispatch", "call"}
    /\ Init /\ SipInit
    /\ (part = "dispatch") = (enabled # {})
    /\ part = "dispatch" => config.ring
    /\ \A m \in Monitors \ enabled : nextRun[m] = 0

NextPart ==
    /\ UNCHANGED part
    /\ IF part = "dispatch" THEN Next /\ InOrder /\ UNCHANGED enabled ELSE UNCHANGED vars
    /\ IF part = "call" THEN SipNext /\ CutAtFirst ELSE UNCHANGED sipVars

PartsSpec == InitParts /\ [][NextPart]_<<part, vars, sipVars>>
===============================================================================
