---------------------------- MODULE CallContract ----------------------------
(***************************************************************************)
(* What TdBridge::invoke promises to the coroutine that awaits it, with    *)
(* no thread, queue or map: a call is opened once, gets exactly one        *)
(* outcome, and its caller is woken at most once and only after that       *)
(* outcome is written.  An answer is the answer to this very call.  The    *)
(* bridge (module TdBridge) is shown to implement this module.             *)
(***************************************************************************)
CONSTANT Calls          \* identities of the calls (TDLib request ids)

VARIABLES
    stage,              \* stage[i] : how far call i is
    outcome             \* outcome[i] : what the caller of i is given

callVars == <<stage, outcome>>

\* The four outcomes a caller may read, and the value before there is one.
Unknown      == [kind |-> "unknown"]
Answer(i)    == [kind |-> "answer", of |-> i]
TimeoutError == [kind |-> "UPSTREAM_TIMEOUT"]
BusyError    == [kind |-> "SERVICE_BUSY"]
ShutdownError == [kind |-> "UPSTREAM_SHUTDOWN"]

Init ==
    /\ stage = [i \in Calls |-> "unborn"]
    /\ outcome = [i \in Calls |-> Unknown]

Open(i) ==
    /\ stage[i] = "unborn"
    /\ stage' = [stage EXCEPT ![i] = "open"]
    /\ UNCHANGED outcome

\* A call over the in-flight limit never suspends its caller.
Refuse(i) ==
    /\ stage[i] = "unborn"
    /\ stage' = [stage EXCEPT ![i] = "resumed"]
    /\ outcome' = [outcome EXCEPT ![i] = BusyError]

Settle(i) ==
    /\ stage[i] = "open"
    /\ stage' = [stage EXCEPT ![i] = "settled"]
    /\ \E o \in {Answer(i), TimeoutError, ShutdownError} :
            outcome' = [outcome EXCEPT ![i] = o]

Resume(i) ==
    /\ stage[i] = "settled"
    /\ stage' = [stage EXCEPT ![i] = "resumed"]
    /\ UNCHANGED outcome

Next == \E i \in Calls : Open(i) \/ Refuse(i) \/ Settle(i) \/ Resume(i)

Spec == Init /\ [][Next]_callVars
=============================================================================
