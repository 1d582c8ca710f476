------------------------------ MODULE SifRpcAbs ------------------------------
(***************************************************************************)
(* What a client of the SIF's remote calls is promised: the function of a  *)
(* call runs exactly once, between the call and its answer, nothing else   *)
(* makes it run, and every request is answered in the end.                 *)
(***************************************************************************)
EXTENDS Naturals

CONSTANTS Client, Kind

VARIABLES
    asked,      \* the kind of request each client waits for, or "Nothing"
    runs        \* how often its function has run since the client asked

absVars == <<asked, runs>>

AbsInit == asked = [c \in Client |-> "Nothing"] /\ runs = [c \in Client |-> 0]

AbsAsk(c, kind) ==
    /\ asked[c] = "Nothing"
    /\ asked' = [asked EXCEPT ![c] = kind] /\ runs' = [runs EXCEPT ![c] = 0]

(* A greeting has two parts, the second once the first is under way.       *)
AbsGoOn(c) ==
    /\ asked[c] = "Init" /\ asked' = [asked EXCEPT ![c] = "InitRpc"]
    /\ UNCHANGED runs

AbsRun(c) ==
    /\ asked[c] = "Call" /\ runs[c] = 0
    /\ runs' = [runs EXCEPT ![c] = 1] /\ UNCHANGED asked

AbsAnswer(c) ==
    /\ asked[c] \notin {"Nothing", "Init"} /\ (asked[c] = "Call" => runs[c] = 1)
    /\ asked' = [asked EXCEPT ![c] = "Nothing"] /\ UNCHANGED runs

AbsNext ==
    \E c \in Client :
        \/ \E kind \in Kind : AbsAsk(c, kind)
        \/ AbsGoOn(c) \/ AbsRun(c) \/ AbsAnswer(c)

AbsSpec ==
    /\ AbsInit /\ [][AbsNext]_absVars
    /\ \A c \in Client : WF_absVars(AbsGoOn(c) \/ AbsRun(c) \/ AbsAnswer(c))
=============================================================================
