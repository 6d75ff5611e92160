--------------------------- MODULE SigningDecision ---------------------------
(***************************************************************************)
(* What the signing-session table promises, without table, lock, channel   *)
(* or clock: a request that was accepted gets one decision, a call learns  *)
(* whether its decision is the one, and an accepted request never stays    *)
(* undecided.  The one thing it does not promise: between the end of a     *)
(* request's time and its expiry a call may take itself for the decider.   *)
(***************************************************************************)
CONSTANTS Requests, Callers, Nobody

VARIABLES
    decision,  \* what became of a request
    decider,   \* the call that decided it
    verdict    \* what a call was told

vars == <<decision, decider, verdict>>

Init ==
    /\ decision = [r \in Requests |-> "None"]
    /\ decider = [r \in Requests |-> Nobody]
    /\ verdict = [c \in Callers |-> "None"]

Accept(r) ==
    /\ decision[r] = "None"
    /\ decision' = [decision EXCEPT ![r] = "Open"]
    /\ UNCHANGED <<decider, verdict>>

TurnDown(r) ==
    /\ decision[r] = "None"
    /\ decision' = [decision EXCEPT ![r] = "Invalid"]
    /\ UNCHANGED <<decider, verdict>>

\* The call learns of its success in the step that decides the request.
Decide(c, r) ==
    /\ decision[r] = "Open"
    /\ verdict[c] = "None"
    /\ \E d \in {"Signed", "Rejected"} : decision' = [decision EXCEPT ![r] = d]
    /\ decider' = [decider EXCEPT ![r] = c]
    /\ verdict' = [verdict EXCEPT ![c] = "Ok"]

Fail(c) ==
    /\ verdict[c] = "None"
    /\ verdict' = [verdict EXCEPT ![c] = "Failed"]
    /\ UNCHANGED <<decision, decider>>

\* The time of the request is over; it has not expired yet.
Lapse(r) ==
    /\ decision[r] = "Open"
    /\ decision' = [decision EXCEPT ![r] = "Lapsed"]
    /\ UNCHANGED <<decider, verdict>>

\* One call may still be told that it decided the request, which expires.
DecideTooLate(c, r) ==
    /\ decision[r] = "Lapsed"
    /\ decider[r] = Nobody
    /\ verdict[c] = "None"
    /\ decider' = [decider EXCEPT ![r] = c]
    /\ verdict' = [verdict EXCEPT ![c] = "Ok"]
    /\ UNCHANGED decision

Expire(r) ==
    /\ decision[r] = "Lapsed"
    /\ decision' = [decision EXCEPT ![r] = "Expired"]
    /\ UNCHANGED <<decider, verdict>>

Abandon(r) ==
    /\ decision[r] = "Open"
    /\ decision' = [decision EXCEPT ![r] = "Abandoned"]
    /\ UNCHANGED <<decider, verdict>>

Next ==
    \/ \E r \in Requests :
        Accept(r) \/ TurnDown(r) \/ Lapse(r) \/ Expire(r) \/ Abandon(r)
    \/ \E c \in Callers :
        Fail(c) \/ \E r \in Requests : Decide(c, r) \/ DecideTooLate(c, r)

Spec ==
    /\ Init
    /\ [][Next]_vars
    /\ \A r \in Requests : WF_vars(Lapse(r)) /\ WF_vars(Expire(r))
=============================================================================
