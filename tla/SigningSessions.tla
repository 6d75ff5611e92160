--------------------------- MODULE SigningSessions ---------------------------
(***************************************************************************)
(* The signing-session table of core/signing/session_manager.rs.           *)
(*                                                                         *)
(* POST /sign parks the HTTP handler in create_and_wait until a person (or *)
(* the development endpoints) approves or rejects the session, or until    *)
(* request_timeout elapses.  The table is behind one RwLock; the answer    *)
(* travels through a tokio oneshot channel whose sender is kept in the     *)
(* table.  One action below is one critical section, or one step taken     *)
(* with no lock held, so every interleaving the lock allows is explored.   *)
(***************************************************************************)
EXTENDS Naturals

CONSTANTS
    Requests,   \* the POST /sign requests; request and session id coincide
    Callers,    \* the approve / reject calls, each made once
    Timeout,    \* request_timeout, in clock ticks
    Nobody,     \* no caller
    NoRequest   \* no request

ASSUME TimeoutAssumption == Timeout \in Nat \ {0}
ASSUME NobodyAssumption == Nobody \notin Callers /\ NoRequest \notin Requests

VARIABLES
    status,   \* the session's status, "Absent" when the table has no entry
    sender,   \* the entry still holds Some(oneshot::Sender)
    age,      \* time since created_at, saturating at Timeout
    waited,   \* time since the handler started to await, saturating
    pc,       \* where the request's handler is in create_and_wait
    channel,  \* the caller whose result was put in the oneshot channel
    answer,   \* what create_and_wait returned
    step,     \* where a caller is in its call
    op,       \* which method a caller runs
    target,   \* the session a caller works on
    outcome   \* what the call returned

handlerVars == <<age, waited, pc, answer>>
callVars == <<step, op, target, outcome>>
vars == <<status, sender, age, waited, pc, channel, answer,
          step, op, target, outcome>>

Resolved == {"Approved", "Rejected", "Expired"}
Status == {"Absent", "Pending"} \cup Resolved
Op == {"sign", "temporary", "reject"}
Refusals == {"NotFound", "AlreadyResolved", "Expired"}

TypeOK ==
    /\ status \in [Requests -> Status]
    /\ sender \in [Requests -> BOOLEAN]
    /\ age \in [Requests -> 0..Timeout]
    /\ waited \in [Requests -> 0..Timeout]
    /\ pc \in [Requests -> {"idle", "prepared", "cleaned", "waiting",
                            "elapsing", "expiring", "answered", "gone"}]
    /\ channel \in [Requests -> Callers \cup {Nobody}]
    /\ answer \in [Requests -> {"None", "BadRequest", "Signed",
                                "Rejected", "Expired"}]
    /\ step \in [Callers -> {"idle", "signing", "resolving",
                             "sending", "done"}]
    /\ op \in [Callers -> Op \cup {"none"}]
    /\ target \in [Callers -> Requests \cup {NoRequest}]
    /\ outcome \in [Callers -> {"None", "Ok", "SignFailed"} \cup Refusals]

Init ==
    /\ status = [r \in Requests |-> "Absent"]
    /\ sender = [r \in Requests |-> FALSE]
    /\ age = [r \in Requests |-> 0]
    /\ waited = [r \in Requests |-> 0]
    /\ pc = [r \in Requests |-> "idle"]
    /\ channel = [r \in Requests |-> Nobody]
    /\ answer = [r \in Requests |-> "None"]
    /\ step = [c \in Callers |-> "idle"]
    /\ op = [c \in Callers |-> "none"]
    /\ target = [c \in Callers |-> NoRequest]
    /\ outcome = [c \in Callers |-> "None"]

-----------------------------------------------------------------------------
(* The handler of one POST /sign request: create_and_wait. *)

\* Wrong variant: pending entries age like the others.
CleanupByAge ==
    LET kept(r) == age[r] < Timeout IN
    /\ status' = [r \in Requests |-> IF kept(r) THEN status[r] ELSE "Absent"]
    /\ sender' = [r \in Requests |-> kept(r) /\ sender[r]]

\* retain(): a pending entry stays, a resolved one until its age is the
\* timeout.  A dropped entry would drop the sender it still held.
CleanupResolved ==
    LET kept(r) == status[r] = "Pending" \/ age[r] < Timeout IN
    /\ status' = [r \in Requests |-> IF kept(r) THEN status[r] ELSE "Absent"]
    /\ sender' = [r \in Requests |-> kept(r) /\ sender[r]]

\* prepare_sign_request validates the request; the session value, with its
\* created_at, exists before the table is touched.
PrepareSignRequest(r) ==
    /\ pc[r] = "idle"
    /\ \/ /\ pc' = [pc EXCEPT ![r] = "prepared"]
          /\ UNCHANGED answer
       \/ /\ pc' = [pc EXCEPT ![r] = "answered"]
          /\ answer' = [answer EXCEPT ![r] = "BadRequest"]
    /\ age' = [age EXCEPT ![r] = 0]
    /\ UNCHANGED <<status, sender, waited, channel, callVars>>

CleanupBeforeInsert(r) ==
    /\ pc[r] = "prepared"
    /\ pc' = [pc EXCEPT ![r] = "cleaned"]
    /\ CleanupResolved
    /\ UNCHANGED <<age, waited, channel, answer, callVars>>

InsertSession(r) ==
    /\ pc[r] = "cleaned"
    /\ pc' = [pc EXCEPT ![r] = "waiting"]
    /\ status' = [status EXCEPT ![r] = "Pending"]
    /\ sender' = [sender EXCEPT ![r] = TRUE]
    /\ waited' = [waited EXCEPT ![r] = 0]
    /\ UNCHANGED <<age, channel, answer, callVars>>

\* tokio's timeout polls the receiver before the timer, so a delivered result
\* wins even when the deadline has passed.
ResultOf(c) == IF op[c] = "reject" THEN "Rejected" ELSE "Signed"

ReceiveResult(r) ==
    /\ pc[r] = "waiting"
    /\ channel[r] # Nobody
    /\ pc' = [pc EXCEPT ![r] = "answered"]
    /\ answer' = [answer EXCEPT ![r] = ResultOf(channel[r])]
    /\ UNCHANGED <<status, sender, age, waited, channel, callVars>>

\* Wrong variant: the timer stops once somebody decided the session.
TimeoutOfPending(r) ==
    /\ pc[r] = "waiting"
    /\ channel[r] = Nobody
    /\ waited[r] = Timeout
    /\ status[r] = "Pending"
    /\ pc' = [pc EXCEPT ![r] = "elapsing"]
    /\ UNCHANGED <<status, sender, age, waited, channel, answer, callVars>>

\* The poll that finds the channel empty and then the timer elapsed: from here
\* on the handler goes to expire().  The receiver is still there, and a call on
\* another thread may still fill the channel.
TimeoutElapses(r) ==
    /\ pc[r] = "waiting"
    /\ channel[r] = Nobody
    /\ waited[r] = Timeout
    /\ pc' = [pc EXCEPT ![r] = "elapsing"]
    /\ UNCHANGED <<status, sender, age, waited, channel, answer, callVars>>

\* The await is over and drops the timeout future with the receiver inside it,
\* and what the channel may hold; expire() has not taken the lock yet.
DropReceiver(r) ==
    /\ pc[r] = "elapsing"
    /\ pc' = [pc EXCEPT ![r] = "expiring"]
    /\ UNCHANGED <<status, sender, age, waited, channel, answer, callVars>>

\* Wrong variant: the handler returns without touching the table.
ExpireSilently(r) ==
    /\ pc[r] = "expiring"
    /\ pc' = [pc EXCEPT ![r] = "answered"]
    /\ answer' = [answer EXCEPT ![r] = "Expired"]
    /\ UNCHANGED <<status, sender, age, waited, channel, callVars>>

\* Wrong variant: the status is not looked at.
ExpireAlways(r) ==
    /\ pc[r] = "expiring"
    /\ status' = [status EXCEPT ![r] = "Expired"]
    /\ sender' = [sender EXCEPT ![r] = FALSE]
    /\ pc' = [pc EXCEPT ![r] = "answered"]
    /\ answer' = [answer EXCEPT ![r] = "Expired"]
    /\ UNCHANGED <<age, waited, channel, callVars>>

\* expire() leaves an absent or already resolved entry alone; the handler
\* returns Expired in every case.
Expire(r) ==
    /\ pc[r] = "expiring"
    /\ IF status[r] = "Pending"
       THEN /\ status' = [status EXCEPT ![r] = "Expired"]
            /\ sender' = [sender EXCEPT ![r] = FALSE]
       ELSE UNCHANGED <<status, sender>>
    /\ pc' = [pc EXCEPT ![r] = "answered"]
    /\ answer' = [answer EXCEPT ![r] = "Expired"]
    /\ UNCHANGED <<age, waited, channel, callVars>>

\* External: the server drops the handler's future when the HTTP client goes
\* away.  A future is dropped only where it is suspended: at the await.
Disconnect(r) ==
    /\ pc[r] = "waiting"
    /\ pc' = [pc EXCEPT ![r] = "gone"]
    /\ UNCHANGED <<status, sender, age, waited, channel, answer, callVars>>

-----------------------------------------------------------------------------
(* The calls that resolve a session. *)

\* A caller knows the ids of inserted sessions only, from list or get.
Known(r) == /\ pc[r] \in {"waiting", "elapsing", "expiring", "answered", "gone"}
            /\ answer[r] # "BadRequest"

\* ensure_pending, and the lookup before it, for a session that is not Pending.
RefusalFor(s) ==
    IF s = "Absent" THEN "NotFound"
    ELSE IF s = "Expired" THEN "Expired" ELSE "AlreadyResolved"

Refuse(c, r) ==
    /\ status[r] # "Pending"
    /\ step' = [step EXCEPT ![c] = "done"]
    /\ outcome' = [outcome EXCEPT ![c] = RefusalFor(status[r])]
    /\ UNCHANGED <<status, sender>>

\* The critical section shared by resolve_signed and reject: the status is
\* decided and the sender leaves the table; it is used after the unlock.
TakeSender(c, r, decided) ==
    /\ status[r] = "Pending"
    /\ status' = [status EXCEPT ![r] = decided]
    /\ IF sender[r]
       THEN /\ step' = [step EXCEPT ![c] = "sending"]
            /\ UNCHANGED outcome
       ELSE /\ step' = [step EXCEPT ![c] = "done"]
            /\ outcome' = [outcome EXCEPT ![c] = "AlreadyResolved"]
    /\ sender' = [sender EXCEPT ![r] = FALSE]

Begin(c, r, o) ==
    /\ step[c] = "idle"
    /\ Known(r)
    /\ op' = [op EXCEPT ![c] = o]
    /\ target' = [target EXCEPT ![c] = r]

\* Both approvals look at the session under the read lock and drop it before
\* they produce the response: a token signature, or the unsigned content.
CheckPending(c, r, next) ==
    \/ Refuse(c, r)
    \/ /\ status[r] = "Pending"
       /\ step' = [step EXCEPT ![c] = next]
       /\ UNCHANGED <<status, sender, outcome>>

ApproveWithSignature(c, r) ==
    /\ Begin(c, r, "sign")
    /\ CheckPending(c, r, "signing")
    /\ UNCHANGED <<handlerVars, channel>>

ApproveTemporarily(c, r) ==
    /\ Begin(c, r, "temporary")
    /\ CheckPending(c, r, "resolving")
    /\ UNCHANGED <<handlerVars, channel>>

\* sign_prepared_files runs with no lock held, for as long as the token takes.
SignPreparedFiles(c) ==
    /\ step[c] = "signing"
    /\ \/ /\ step' = [step EXCEPT ![c] = "resolving"]
          /\ UNCHANGED outcome
       \/ /\ step' = [step EXCEPT ![c] = "done"]
          /\ outcome' = [outcome EXCEPT ![c] = "SignFailed"]
    /\ UNCHANGED <<status, sender, handlerVars, channel, op, target>>

ResolveSigned(c) ==
    /\ step[c] = "resolving"
    /\ \/ Refuse(c, target[c])
       \/ TakeSender(c, target[c], "Approved")
    /\ UNCHANGED <<handlerVars, channel, op, target>>

Reject(c, r) ==
    /\ Begin(c, r, "reject")
    /\ \/ Refuse(c, r)
       \/ TakeSender(c, r, "Rejected")
    /\ UNCHANGED <<handlerVars, channel>>

\* The receiver lives until the await is over or its future dropped.
ReceiverAlive(r) == pc[r] \in {"waiting", "elapsing"}

\* Wrong variant: the result of send() is dropped.
SendUnchecked(c) ==
    /\ step[c] = "sending"
    /\ step' = [step EXCEPT ![c] = "done"]
    /\ outcome' = [outcome EXCEPT ![c] = "Ok"]
    /\ IF ReceiverAlive(target[c])
       THEN channel' = [channel EXCEPT ![target[c]] = c]
       ELSE UNCHANGED channel
    /\ UNCHANGED <<status, sender, handlerVars, op, target>>

\* sender.send() fails when the receiver was dropped: after the timeout or with
\* the handler.  The status written under the lock stays.
SendResult(c) ==
    /\ step[c] = "sending"
    /\ step' = [step EXCEPT ![c] = "done"]
    /\ IF ReceiverAlive(target[c])
       THEN /\ channel' = [channel EXCEPT ![target[c]] = c]
            /\ outcome' = [outcome EXCEPT ![c] = "Ok"]
       ELSE /\ outcome' = [outcome EXCEPT ![c] = "AlreadyResolved"]
            /\ UNCHANGED channel
    /\ UNCHANGED <<status, sender, handlerVars, op, target>>

\* list() and get() first drop old resolved sessions, then read.
ListSessions ==
    /\ CleanupResolved
    /\ UNCHANGED <<handlerVars, channel, callVars>>

-----------------------------------------------------------------------------
\* The clock: created_at and the timer are only ever compared with the timeout.
Tick ==
    LET later(t) == IF t < Timeout THEN t + 1 ELSE t IN
    /\ age' = [r \in Requests |->
                  IF pc[r] = "idle" THEN age[r] ELSE later(age[r])]
    /\ waited' = [r \in Requests |->
                  IF pc[r] = "waiting" THEN later(waited[r]) ELSE waited[r]]
    /\ UNCHANGED <<status, sender, pc, channel, answer, callVars>>

HandlerStep(r) ==
    \/ CleanupBeforeInsert(r)
    \/ InsertSession(r)
    \/ ReceiveResult(r)
    \/ TimeoutElapses(r)
    \/ DropReceiver(r)
    \/ Expire(r)

CallStep(c) ==
    \/ SignPreparedFiles(c)
    \/ ResolveSigned(c)
    \/ SendResult(c)
    \/ \E r \in Requests : \/ ApproveWithSignature(c, r)
                           \/ ApproveTemporarily(c, r)
                           \/ Reject(c, r)

Next ==
    \/ \E r \in Requests : \/ PrepareSignRequest(r)
                           \/ HandlerStep(r)
                           \/ Disconnect(r)
    \/ \E c \in Callers : CallStep(c)
    \/ ListSessions
    \/ Tick

\* The runtime keeps polling a ready handler and time passes.  Nothing is
\* assumed of the people and tokens behind the callers.
Fairness ==
    /\ \A r \in Requests : WF_vars(HandlerStep(r))
    /\ WF_vars(Tick)

Spec == Init /\ [][Next]_vars /\ Fairness

-----------------------------------------------------------------------------
(* Properties. *)

Waiting(r) == pc[r] = "waiting"
Sending(c, r) == step[c] = "sending" /\ target[c] = r

\* An approve or reject that reports success is the only one of its session
\* (send after unlock, 187-190), and its result is the request's answer unless
\* the timer had elapsed: a send() after the last poll of the receiver and before
\* its drop (86-88) succeeds, and the request is answered "expired" all the same.
\* A request answered by a person was answered by a call that says so.
OkMeansHandedOver ==
    /\ \A c \in Callers : outcome[c] = "Ok" =>
        /\ channel[target[c]] = c
        /\ pc[target[c]] = "answered" =>
              \/ answer[target[c]] = ResultOf(c)
              \/ answer[target[c]] = "Expired" /\ waited[target[c]] = Timeout
    /\ \A r \in Requests : answer[r] \in {"Signed", "Rejected"} =>
        \E c \in Callers : /\ outcome[c] = "Ok" /\ target[c] = r
                           /\ answer[r] = ResultOf(c)

\* While a handler waits and no result is in its channel, exactly one party can
\* still wake it: the table holds the sender of a pending session, or one caller
\* carries it.  So the receiver never sees a dropped sender (Ok(Err(_)), 88).
NoLostSender ==
    \A r \in Requests : Waiting(r) /\ channel[r] = Nobody =>
        \/ status[r] = "Pending" /\ sender[r]
        \/ \E c \in Callers : Sending(c, r)

\* A pending session whose handler has ended belongs to a client that went
\* away: every other end of the handler resolves the entry.
PendingOutlivesOnlyDisconnect ==
    \A r \in Requests : status[r] = "Pending" =>
        pc[r] \in {"waiting", "elapsing", "expiring", "gone"}

\* A call is refused only when its session can no longer be resolved: it was
\* decided by another call, its wait ended, or its client is gone.
RefusalIsJustified ==
    \A c \in Callers : outcome[c] \in Refusals =>
        \/ ~Waiting(target[c])
        \/ \E d \in Callers \ {c} : Sending(d, target[c]) \/ channel[target[c]] = d

\* A resolved session keeps its verdict until it leaves the table, which it
\* does not do before the timeout counted from its creation.
VerdictIsFinal ==
    [][\A r \in Requests : status[r] \in Resolved /\ status'[r] # status[r] =>
           status'[r] = "Absent" /\ age[r] = Timeout]_vars

-----------------------------------------------------------------------------
(* Refinement: the decision falls where the oneshot channel is filled or where *)
(* the wait ends, not where the status is written under the lock.             *)

DecisionBar(r) ==
    CASE pc[r] = "idle" -> "None"
      [] pc[r] \in {"prepared", "cleaned"} -> "Open"
      [] pc[r] = "elapsing" -> "Lapsed"
      [] pc[r] = "expiring" -> "Expired"
      [] pc[r] = "answered" ->
            IF answer[r] = "BadRequest" THEN "Invalid" ELSE answer[r]
      [] pc[r] \in {"waiting", "gone"} ->
            IF channel[r] # Nobody THEN ResultOf(channel[r])
            ELSE IF pc[r] = "gone" THEN "Abandoned" ELSE "Open"

VerdictBar(c) ==
    IF outcome[c] \in {"None", "Ok"} THEN outcome[c] ELSE "Failed"

Decision == INSTANCE SigningDecision WITH
    decision <- [r \in Requests |-> DecisionBar(r)],
    decider <- channel,
    verdict <- [c \in Callers |-> VerdictBar(c)]

\* The table implements one decision per request, told truthfully to the call
\* that made it while the wait lasted, and expiry of what nobody decides.  Only
\* a wait that has ended and not yet said so may take in a decision for nothing.
ImplementsDecision == Decision!Spec
=============================================================================
