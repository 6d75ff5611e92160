---------------------------- MODULE CompatibleSign ----------------------------
(***************************************************************************)
(* The whole POST /sign handler: the development auto-sign that runs first *)
(* in a blocking task, and the session table it falls back to.             *)
(*                                                                         *)
(* The handler clones the configuration when it starts and awaits the      *)
(* blocking task.  A client that goes away drops the handler, not the      *)
(* task: the signature goes on with nobody to receive it.                  *)
(***************************************************************************)
EXTENDS SigningSessions

VARIABLES
    flow,    \* where a request's handler is before, or instead of, the table
    mode,    \* config.development; requests that see another one do not interact
    result   \* what try_auto_sign returned, "None" while it runs

autoVars == <<flow, mode, result>>
allVars == <<vars, autoVars>>

\* enabled and auto_sign off; both on, without and with fallback_to_modal.
Mode == {"off", "strict", "lenient"}

FlowTypeOK ==
    /\ TypeOK
    /\ flow \in [Requests -> {"new", "trying", "table", "signed",
                              "refused", "gone"}]
    /\ mode \in Mode
    /\ result \in [Requests -> {"None", "NotEnabled", "Signed", "Failed"}]

InitFlow ==
    /\ Init
    /\ flow = [r \in Requests |-> "new"]
    /\ mode \in Mode
    /\ result = [r \in Requests |-> "None"]

-----------------------------------------------------------------------------

Arrive(r) ==
    /\ flow[r] = "new"
    /\ flow' = [flow EXCEPT ![r] = "trying"]
    /\ UNCHANGED <<vars, mode, result>>

\* try_auto_sign validates the request, resolves the default identity, finds
\* the PIN and signs all files, or fails at any of them.
TryAutoSign(r) ==
    /\ flow[r] \in {"trying", "gone"}
    /\ result[r] = "None"
    /\ \E end \in {"NotEnabled", "Signed", "Failed"} :
           /\ end = "NotEnabled" <=> mode = "off"
           /\ result' = [result EXCEPT ![r] = end]
    /\ UNCHANGED <<vars, flow, mode>>

\* Wrong variant: any failure falls back.
AfterAutoSignAlwaysFalling(r) ==
    /\ flow[r] = "trying"
    /\ result[r] # "None"
    /\ flow' = [flow EXCEPT ![r] = IF result[r] = "Signed" THEN "signed" ELSE "table"]
    /\ UNCHANGED <<vars, mode, result>>

\* Wrong variant: what the task returned is taken for what the handler does.
AfterAutoSignUnmapped(r) ==
    /\ flow[r] = "trying"
    /\ result[r] # "None"
    /\ flow' = [flow EXCEPT ![r] = result[r]]
    /\ UNCHANGED <<vars, mode, result>>

\* The await returns: the signature, an error, or on to create_and_wait.
AfterAutoSign(r) ==
    /\ flow[r] = "trying"
    /\ \/ /\ result[r] = "Signed"
          /\ flow' = [flow EXCEPT ![r] = "signed"]
       \/ /\ result[r] = "Failed" /\ mode = "strict"
          /\ flow' = [flow EXCEPT ![r] = "refused"]
       \/ /\ \/ result[r] = "NotEnabled"
             \/ result[r] = "Failed" /\ mode = "lenient"
          /\ flow' = [flow EXCEPT ![r] = "table"]
    /\ UNCHANGED <<vars, mode, result>>

\* External: the client leaves while the blocking task runs or its result waits.
LeaveEarly(r) ==
    /\ flow[r] = "trying"
    /\ flow' = [flow EXCEPT ![r] = "gone"]
    /\ UNCHANGED <<vars, mode, result>>

\* create_and_wait validates the request, for the second time when auto-sign is
\* on: a signed request was valid, so nothing tells the two verdicts apart.
EnterTable(r) ==
    /\ flow[r] = "table"
    /\ PrepareSignRequest(r)
    /\ UNCHANGED autoVars

TableStep ==
    /\ \/ \E r \in Requests : HandlerStep(r) \/ Disconnect(r)
       \/ \E c \in Callers : CallStep(c)
       \/ ListSessions
       \/ Tick
    /\ UNCHANGED autoVars

FlowStep(r) == AfterAutoSign(r) \/ EnterTable(r)

NextFlow ==
    \/ \E r \in Requests : \/ Arrive(r)
                           \/ TryAutoSign(r)
                           \/ LeaveEarly(r)
                           \/ FlowStep(r)
    \/ TableStep

\* Nothing is assumed of the token behind the auto-sign.
SpecFlow ==
    /\ InitFlow
    /\ [][NextFlow]_allVars
    /\ Fairness
    /\ \A r \in Requests : WF_allVars(FlowStep(r))

-----------------------------------------------------------------------------
(* Properties. *)

\* README.md:376-382: a request reaches the table, and so the window, only when
\* auto-sign is off, or failed with fallback_to_modal on.  What the development
\* identity signed is never put before a person as well, and a strict failure
\* never becomes a question.
TableIsTheFallback ==
    \A r \in Requests : pc[r] # "idle" =>
        \/ mode = "off"
        \/ mode = "lenient" /\ result[r] = "Failed"

\* Once the auto-sign attempt is over the client is answered, by it or by the
\* table, or has left: no hand-over between the two loses the request.
EveryAttemptLeadsToAnAnswer ==
    \A r \in Requests :
        flow[r] = "trying" /\ result[r] # "None" ~>
            \/ flow[r] \in {"signed", "refused", "gone"}
            \/ pc[r] \in {"answered", "gone"}
=============================================================================
