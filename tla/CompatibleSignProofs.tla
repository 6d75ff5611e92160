------------------------- MODULE CompatibleSignProofs -------------------------
(***************************************************************************)
(* Proofs about SigningSessions, for every set of requests and callers and *)
(* every timeout; and about CompatibleSign: the handler of POST /sign      *)
(* keeps what is proved of the session table, and uses the table as the    *)
(* fallback it is documented to be.                                        *)
(***************************************************************************)
EXTENDS CompatibleSign, TLAPS

-----------------------------------------------------------------------------
(***************************************************************************)
(* The inductive invariant.  The properties speak of answers and channels; *)
(* what makes them hold is where the sender of each session is: in the     *)
(* table while the session is Pending, with one caller from the unlock to  *)
(* the send, and used up afterwards.                                       *)
(***************************************************************************)

\* The table holds a sender exactly for the pending sessions.
SenderWithPending ==
    \A r \in Requests : sender[r] <=> status[r] = "Pending"

\* Before the insert the table knows nothing of a request, nobody else does
\* either, and only an answered handler has an answer.
HandlerOrder ==
    \A r \in Requests :
        /\ ~Known(r) => status[r] = "Absent" /\ channel[r] = Nobody
        /\ status[r] = "Pending" => pc[r] \in {"waiting", "elapsing", "expiring", "gone"}
        /\ pc[r] = "answered" <=> answer[r] # "None"

\* A call that started works on an inserted session; it returns when done.
CallOrder ==
    \A c \in Callers :
        /\ step[c] # "idle" => target[c] \in Requests /\ Known(target[c])
        /\ step[c] = "done" <=> outcome[c] # "None"

\* One caller at a time carries a session's sender, and only after the session
\* stopped being pending and before anything was sent.
OneCarrier ==
    \A c \in Callers, r \in Requests : Sending(c, r) =>
        /\ status[r] # "Pending"
        /\ channel[r] = Nobody
        /\ \A d \in Callers : Sending(d, r) => d = c

\* A filled channel was filled by the successful call; an answered handler
\* returns that result or had timed out, and no result without a channel.
ChannelOrigin ==
    \A r \in Requests :
        /\ channel[r] # Nobody =>
            /\ target[channel[r]] = r
            /\ outcome[channel[r]] = "Ok"
            /\ status[r] # "Pending"
            /\ pc[r] = "answered" =>
                  answer[r] = "Expired" \/ answer[r] = ResultOf(channel[r])
        /\ answer[r] \in {"Signed", "Rejected"} =>
              channel[r] # Nobody /\ answer[r] = ResultOf(channel[r])

\* From the poll that found the timer elapsed to the answer "expired", the wait
\* has lasted for the timeout.
TimedOut ==
    \A r \in Requests :
        pc[r] \in {"elapsing", "expiring"} \/ answer[r] = "Expired" => waited[r] = Timeout

\* The result of a successful call is the one in its session's channel.
OkSent ==
    \A c \in Callers : outcome[c] = "Ok" => channel[target[c]] = c

IInv ==
    /\ TypeOK
    /\ SenderWithPending
    /\ HandlerOrder
    /\ CallOrder
    /\ OneCarrier
    /\ ChannelOrigin
    /\ TimedOut
    /\ OkSent
    /\ NoLostSender
    /\ RefusalIsJustified

-----------------------------------------------------------------------------

\* The critical section that decides a session keeps what it writes in range.
LEMMA TakeSenderTypes ==
  ASSUME TypeOK, NEW c, NEW r, NEW s \in Status, TakeSender(c, r, s)
  PROVE  /\ status' \in [Requests -> Status]
         /\ sender' \in [Requests -> BOOLEAN]
         /\ step' \in [Callers -> {"idle", "signing", "resolving", "sending", "done"}]
         /\ outcome' \in [Callers -> {"None", "Ok", "SignFailed"} \cup Refusals]
<1>1. status' \in [Requests -> Status] /\ sender' \in [Requests -> BOOLEAN]
  BY DEF TakeSender, TypeOK
<1>2. step' \in [Callers -> {"idle", "signing", "resolving", "sending", "done"}]
  BY DEF TakeSender, TypeOK
<1>3. outcome' \in [Callers -> {"None", "Ok", "SignFailed"} \cup Refusals]
  BY DEF TakeSender, TypeOK, Refusals
<1> QED
  BY <1>1, <1>2, <1>3

\* Every action keeps every variable in its range.
THEOREM TypeCorrect == Spec => []TypeOK
<1>1. Init => TypeOK
  BY NobodyAssumption, TimeoutAssumption DEF Init, TypeOK, Status
<1>2. TypeOK /\ [Next]_vars => TypeOK'
  <2> SUFFICES ASSUME TypeOK, [Next]_vars PROVE TypeOK'
    OBVIOUS
  <2> USE TimeoutAssumption DEF TypeOK, Status, Resolved, Op, Refusals,
                                handlerVars, callVars
  <2>1. ASSUME NEW r \in Requests, PrepareSignRequest(r) PROVE TypeOK'
    BY <2>1 DEF PrepareSignRequest
  <2>2. ASSUME NEW r \in Requests, CleanupBeforeInsert(r) PROVE TypeOK'
    BY <2>2 DEF CleanupBeforeInsert, CleanupResolved
  <2>3. ASSUME NEW r \in Requests, InsertSession(r) PROVE TypeOK'
    BY <2>3 DEF InsertSession
  <2>4. ASSUME NEW r \in Requests, ReceiveResult(r) PROVE TypeOK'
    BY <2>4 DEF ReceiveResult, ResultOf
  <2>5. ASSUME NEW r \in Requests, TimeoutElapses(r) PROVE TypeOK'
    BY <2>5 DEF TimeoutElapses
  <2>6. ASSUME NEW r \in Requests, DropReceiver(r) \/ Expire(r) PROVE TypeOK'
    BY <2>6 DEF DropReceiver, Expire
  <2>7. ASSUME NEW r \in Requests, Disconnect(r) PROVE TypeOK'
    BY <2>7 DEF Disconnect
  <2>8. ASSUME NEW c \in Callers, SignPreparedFiles(c) PROVE TypeOK'
    BY <2>8 DEF SignPreparedFiles
  <2>9. ASSUME NEW c \in Callers, ResolveSigned(c) PROVE TypeOK'
    <3>1. CASE Refuse(c, target[c])
      BY <2>9, <3>1 DEF ResolveSigned, Refuse, RefusalFor
    <3>2. CASE TakeSender(c, target[c], "Approved")
      BY <2>9, <3>2, TakeSenderTypes DEF ResolveSigned
    <3> QED
      BY <2>9, <3>1, <3>2 DEF ResolveSigned
  <2>10. ASSUME NEW c \in Callers, SendResult(c) PROVE TypeOK'
    BY <2>10 DEF SendResult, ReceiverAlive
  <2>11. ASSUME NEW c \in Callers, NEW r \in Requests, ApproveWithSignature(c, r)
         PROVE TypeOK'
    BY <2>11 DEF ApproveWithSignature, Begin, CheckPending, Refuse, RefusalFor
  <2>12. ASSUME NEW c \in Callers, NEW r \in Requests, ApproveTemporarily(c, r)
         PROVE TypeOK'
    BY <2>12 DEF ApproveTemporarily, Begin, CheckPending, Refuse, RefusalFor
  <2>13. ASSUME NEW c \in Callers, NEW r \in Requests, Reject(c, r) PROVE TypeOK'
    <3>1. CASE Refuse(c, r)
      BY <2>13, <3>1 DEF Reject, Begin, Refuse, RefusalFor
    <3>2. CASE TakeSender(c, r, "Rejected")
      BY <2>13, <3>2, TakeSenderTypes DEF Reject, Begin
    <3> QED
      BY <2>13, <3>1, <3>2 DEF Reject
  <2>14. ASSUME ListSessions PROVE TypeOK'
    BY <2>14 DEF ListSessions, CleanupResolved
  <2>15. ASSUME Tick PROVE TypeOK'
    BY <2>15 DEF Tick
  <2>16. ASSUME UNCHANGED vars PROVE TypeOK'
    BY <2>16 DEF vars
  <2> QED
    BY <2>1, <2>2, <2>3, <2>4, <2>5, <2>6, <2>7, <2>8, <2>9, <2>10, <2>11,
       <2>12, <2>13, <2>14, <2>15, <2>16 DEF Next, HandlerStep, CallStep
<1>3. QED
  BY <1>1, <1>2, PTL DEF Spec

-----------------------------------------------------------------------------

\* With an empty session table, no handler and no call, the invariant holds.
LEMMA InvInit == Init => IInv
<1>1. Init => TypeOK
  BY NobodyAssumption, TimeoutAssumption DEF Init, TypeOK, Status
<1> QED
  BY <1>1, NobodyAssumption DEF Init, IInv, SenderWithPending, HandlerOrder,
     CallOrder, OneCarrier, ChannelOrigin, TimedOut, OkSent,
     NoLostSender, RefusalIsJustified, Sending, Waiting, Refusals

\* The timer is looked at when the wait ends and stands still afterwards.
LEMMA TimedOutStep ==
  ASSUME TypeOK, HandlerOrder, TimedOut, [Next]_vars
  PROVE  TimedOut'
<1> USE DEF TypeOK, HandlerOrder, TimedOut, handlerVars, callVars
<1>1. ASSUME NEW r \in Requests,
             \/ PrepareSignRequest(r) \/ CleanupBeforeInsert(r) \/ InsertSession(r)
             \/ TimeoutElapses(r) \/ DropReceiver(r) \/ Expire(r) \/ Disconnect(r)
      PROVE  TimedOut'
  BY <1>1 DEF PrepareSignRequest, CleanupBeforeInsert, InsertSession,
     TimeoutElapses, DropReceiver, Expire, Disconnect
<1>2. ASSUME NEW r \in Requests, ReceiveResult(r) PROVE TimedOut'
  BY <1>2 DEF ReceiveResult, ResultOf
<1>3. ASSUME NEW c \in Callers, CallStep(c) PROVE UNCHANGED <<pc, answer, waited>>
  BY <1>3 DEF CallStep, SignPreparedFiles, ResolveSigned, SendResult,
     ApproveWithSignature, ApproveTemporarily, Reject
<1>4. ASSUME ListSessions \/ UNCHANGED vars PROVE UNCHANGED <<pc, answer, waited>>
  BY <1>4 DEF ListSessions, vars
<1>5. ASSUME UNCHANGED <<pc, answer, waited>> PROVE TimedOut'
  BY <1>5
<1>6. ASSUME Tick PROVE TimedOut'
  BY <1>6 DEF Tick
<1> QED
  BY <1>1, <1>2, <1>3, <1>4, <1>5, <1>6 DEF Next, HandlerStep

\* Every handler step, every call step, the cleanup and the clock keep the
\* invariant; only Expire, TakeSender and SendResult move a sender.
LEMMA InvStep == IInv /\ TypeOK' /\ [Next]_vars => IInv'
<1> SUFFICES ASSUME IInv, TypeOK', [Next]_vars PROVE IInv'
  OBVIOUS
<1> USE NobodyAssumption DEF IInv, Known, Sending, Waiting, ResultOf, handlerVars,
        callVars, Resolved, Refusals, ReceiverAlive
<1>0. TimedOut'
  BY TimedOutStep
<1>1. ASSUME NEW r \in Requests, PrepareSignRequest(r) PROVE IInv'
  BY <1>0, <1>1 DEF PrepareSignRequest, TypeOK, SenderWithPending, HandlerOrder,
     CallOrder, OneCarrier, ChannelOrigin, OkSent, NoLostSender,
     RefusalIsJustified
<1>2. ASSUME NEW r \in Requests, CleanupBeforeInsert(r) PROVE IInv'
  BY <1>0, <1>2 DEF CleanupBeforeInsert, CleanupResolved, TypeOK, SenderWithPending,
     HandlerOrder, CallOrder, OneCarrier, ChannelOrigin, OkSent,
     NoLostSender, RefusalIsJustified
<1>3. ASSUME NEW r \in Requests, InsertSession(r) PROVE IInv'
  <2>1. SenderWithPending'
    BY <1>3 DEF InsertSession, TypeOK, SenderWithPending
  <2>2. HandlerOrder'
    BY <1>3 DEF InsertSession, TypeOK, HandlerOrder
  <2>3. CallOrder'
    BY <1>3 DEF InsertSession, CallOrder
  <2>4. OneCarrier'
    BY <1>3 DEF InsertSession, CallOrder, OneCarrier
  <2>5. ChannelOrigin'
    BY <1>3 DEF InsertSession, TypeOK, HandlerOrder, ChannelOrigin
  <2>6. OkSent'
    BY <1>3 DEF InsertSession, OkSent
  <2>7. NoLostSender'
    BY <1>3 DEF InsertSession, TypeOK, NoLostSender
  <2>8. RefusalIsJustified'
    BY <1>3 DEF InsertSession, CallOrder, RefusalIsJustified
  <2> QED BY <1>0, <2>1, <2>2, <2>3, <2>4, <2>5, <2>6, <2>7, <2>8 DEF IInv
<1>4. ASSUME NEW r \in Requests, ReceiveResult(r) PROVE IInv'
  <2>1. SenderWithPending'
    BY <1>4 DEF ReceiveResult, SenderWithPending
  <2>2. HandlerOrder'
    BY <1>4 DEF ReceiveResult, TypeOK, HandlerOrder, ChannelOrigin
  <2>3. CallOrder'
    BY <1>4 DEF ReceiveResult, CallOrder
  <2>4. OneCarrier'
    BY <1>4 DEF ReceiveResult, OneCarrier
  <2>5. ChannelOrigin'
    BY <1>4 DEF ReceiveResult, TypeOK, ChannelOrigin
  <2>6. OkSent'
    BY <1>4 DEF ReceiveResult, TypeOK, OkSent
  <2>7. NoLostSender'
    BY <1>4 DEF ReceiveResult, NoLostSender
  <2>8. RefusalIsJustified'
    BY <1>4 DEF ReceiveResult, RefusalIsJustified
  <2> QED BY <1>0, <2>1, <2>2, <2>3, <2>4, <2>5, <2>6, <2>7, <2>8 DEF IInv
<1>5. ASSUME NEW r \in Requests, TimeoutElapses(r) PROVE IInv'
  BY <1>0, <1>5 DEF TimeoutElapses, SenderWithPending, HandlerOrder, CallOrder,
     OneCarrier, ChannelOrigin, OkSent, NoLostSender,
     RefusalIsJustified
<1>d. ASSUME NEW r \in Requests, DropReceiver(r) PROVE IInv'
  BY <1>0, <1>d DEF DropReceiver, SenderWithPending, HandlerOrder, CallOrder,
     OneCarrier, ChannelOrigin, OkSent, NoLostSender,
     RefusalIsJustified
<1>6. ASSUME NEW r \in Requests, Expire(r) PROVE IInv'
  <2>1. SenderWithPending'
    BY <1>6 DEF Expire, TypeOK, SenderWithPending
  <2>2. HandlerOrder'
    BY <1>6 DEF Expire, TypeOK, HandlerOrder
  <2>3. CallOrder'
    BY <1>6 DEF Expire, CallOrder
  <2>4. OneCarrier'
    BY <1>6 DEF Expire, TypeOK, OneCarrier
  <2>5. ChannelOrigin'
    BY <1>6 DEF Expire, TypeOK, ChannelOrigin
  <2>6. OkSent'
    BY <1>6 DEF Expire, ChannelOrigin, OkSent
  <2>7. NoLostSender'
    BY <1>6 DEF Expire, TypeOK, NoLostSender
  <2>8. RefusalIsJustified'
    BY <1>6 DEF Expire, RefusalIsJustified
  <2> QED BY <1>0, <2>1, <2>2, <2>3, <2>4, <2>5, <2>6, <2>7, <2>8 DEF IInv
<1>7. ASSUME NEW r \in Requests, Disconnect(r) PROVE IInv'
  BY <1>0, <1>7 DEF Disconnect, SenderWithPending, HandlerOrder, CallOrder,
     OneCarrier, ChannelOrigin, OkSent, NoLostSender,
     RefusalIsJustified
<1>8. ASSUME NEW c \in Callers, SignPreparedFiles(c) PROVE IInv'
  BY <1>0, <1>8 DEF SignPreparedFiles, TypeOK, SenderWithPending, HandlerOrder,
     CallOrder, OneCarrier, ChannelOrigin, OkSent, NoLostSender,
     RefusalIsJustified
<1>9. ASSUME NEW c \in Callers, ResolveSigned(c) PROVE IInv'
  <2>1. SenderWithPending'
    BY <1>9 DEF ResolveSigned, Refuse, TakeSender, TypeOK, SenderWithPending
  <2>2. HandlerOrder'
    BY <1>9 DEF ResolveSigned, Refuse, TakeSender, TypeOK, HandlerOrder
  <2>3. CallOrder'
    BY <1>9 DEF ResolveSigned, Refuse, RefusalFor, TakeSender, TypeOK,
       CallOrder
  <2>4. OneCarrier'
    BY <1>9 DEF ResolveSigned, Refuse, TakeSender, TypeOK, OneCarrier,
       ChannelOrigin
  <2>5. ChannelOrigin'
    BY <1>9 DEF ResolveSigned, Refuse, TakeSender, TypeOK, CallOrder,
       ChannelOrigin
  <2>6. OkSent'
    BY <1>9 DEF ResolveSigned, Refuse, RefusalFor, TakeSender, TypeOK,
       OkSent
  <2>7. NoLostSender'
    BY <1>9 DEF ResolveSigned, Refuse, TakeSender, TypeOK, NoLostSender
  <2>8. RefusalIsJustified'
    BY <1>9 DEF ResolveSigned, Refuse, TakeSender, TypeOK, CallOrder,
       ChannelOrigin, NoLostSender, RefusalIsJustified
  <2> QED BY <1>0, <2>1, <2>2, <2>3, <2>4, <2>5, <2>6, <2>7, <2>8 DEF IInv
<1>10. ASSUME NEW c \in Callers, SendResult(c) PROVE IInv'
  <2>1. SenderWithPending'
    BY <1>10 DEF SendResult, SenderWithPending
  <2>2. HandlerOrder'
    BY <1>10 DEF SendResult, TypeOK, HandlerOrder
  <2>3. CallOrder'
    BY <1>10 DEF SendResult, TypeOK, CallOrder
  <2>4. OneCarrier'
    BY <1>10 DEF SendResult, TypeOK, OneCarrier
  <2>5. ChannelOrigin'
    BY <1>10 DEF SendResult, TypeOK, OneCarrier, ChannelOrigin
  <2>6. OkSent'
    BY <1>10 DEF SendResult, TypeOK, CallOrder, OneCarrier, OkSent
  <2>7. NoLostSender'
    BY <1>10 DEF SendResult, TypeOK, NoLostSender
  <2>8. RefusalIsJustified'
    BY <1>10 DEF SendResult, TypeOK, CallOrder, RefusalIsJustified
  <2> QED BY <1>0, <2>1, <2>2, <2>3, <2>4, <2>5, <2>6, <2>7, <2>8 DEF IInv
<1>11. ASSUME NEW c \in Callers, NEW r \in Requests, ApproveWithSignature(c, r)
       PROVE  IInv'
  BY <1>0, <1>11 DEF ApproveWithSignature, Begin, CheckPending, Refuse, RefusalFor,
     TypeOK, SenderWithPending, HandlerOrder, CallOrder, OneCarrier,
     ChannelOrigin, OkSent, NoLostSender, RefusalIsJustified
<1>12. ASSUME NEW c \in Callers, NEW r \in Requests, ApproveTemporarily(c, r)
       PROVE  IInv'
  BY <1>0, <1>12 DEF ApproveTemporarily, Begin, CheckPending, Refuse, RefusalFor,
     TypeOK, SenderWithPending, HandlerOrder, CallOrder, OneCarrier,
     ChannelOrigin, OkSent, NoLostSender, RefusalIsJustified
<1>13. ASSUME NEW c \in Callers, NEW r \in Requests, Reject(c, r) PROVE IInv'
  <2>1. SenderWithPending'
    BY <1>13 DEF Reject, Refuse, TakeSender, TypeOK, SenderWithPending
  <2>2. HandlerOrder'
    BY <1>13 DEF Reject, Refuse, TakeSender, TypeOK, HandlerOrder
  <2>3. CallOrder'
    BY <1>13 DEF Reject, Begin, Refuse, RefusalFor, TakeSender, TypeOK,
       CallOrder
  <2>4. OneCarrier'
    BY <1>13 DEF Reject, Begin, Refuse, TakeSender, TypeOK, OneCarrier,
       ChannelOrigin
  <2>5. ChannelOrigin'
    BY <1>13 DEF Reject, Begin, Refuse, TakeSender, TypeOK, CallOrder,
       ChannelOrigin
  <2>6. OkSent'
    BY <1>13 DEF Reject, Begin, Refuse, RefusalFor, TakeSender, TypeOK,
       CallOrder, OkSent
  <2>7. NoLostSender'
    BY <1>13 DEF Reject, Begin, Refuse, TakeSender, TypeOK, NoLostSender
  <2>8. RefusalIsJustified'
    BY <1>13 DEF Reject, Begin, Refuse, TakeSender, TypeOK, CallOrder,
       ChannelOrigin, NoLostSender, RefusalIsJustified
  <2> QED BY <1>0, <2>1, <2>2, <2>3, <2>4, <2>5, <2>6, <2>7, <2>8 DEF IInv
<1>14. ASSUME ListSessions PROVE IInv'
  BY <1>0, <1>14 DEF ListSessions, CleanupResolved, TypeOK, SenderWithPending,
     HandlerOrder, CallOrder, OneCarrier, ChannelOrigin, OkSent,
     NoLostSender, RefusalIsJustified
<1>15. ASSUME Tick PROVE IInv'
  BY <1>0, <1>15 DEF Tick, SenderWithPending, HandlerOrder, CallOrder, OneCarrier,
     ChannelOrigin, OkSent, NoLostSender, RefusalIsJustified
<1>16. ASSUME UNCHANGED vars PROVE IInv'
  BY <1>0, <1>16 DEF vars, SenderWithPending, HandlerOrder, CallOrder, OneCarrier,
     ChannelOrigin, OkSent, NoLostSender, RefusalIsJustified
<1> QED
  BY <1>1, <1>2, <1>3, <1>4, <1>5, <1>d, <1>6, <1>7, <1>8, <1>9, <1>10, <1>11, <1>12,
     <1>13, <1>14, <1>15, <1>16 DEF Next, HandlerStep, CallStep

\* Where the sender of a session is, and what the answers, channels and refusals
\* seen so far say, in every reachable state of the session table.
THEOREM Invariance == Spec => []IInv
  BY InvInit, InvStep, TypeCorrect, PTL DEF Spec

\* approve_with_signature, approve_temporarily and reject return Ok only if the
\* receiver was there to take the result, which then is the request's answer
\* unless the wait had lasted for the timeout; send() failing is noticed, nobody
\* sends after it, and no request is answered by a call that reports an error.
THEOREM SuccessIsHandedOver == Spec => []OkMeansHandedOver
<1>1. IInv => OkMeansHandedOver
  <2> SUFFICES ASSUME IInv PROVE OkMeansHandedOver
    OBVIOUS
  <2> USE DEF IInv
  <2>1. ASSUME NEW c \in Callers, outcome[c] = "Ok"
        PROVE  /\ channel[target[c]] = c
               /\ pc[target[c]] = "answered" =>
                     \/ answer[target[c]] = ResultOf(c)
                     \/ answer[target[c]] = "Expired" /\ waited[target[c]] = Timeout
    <3>1. target[c] \in Requests /\ channel[target[c]] = c /\ c # Nobody
      BY <2>1, NobodyAssumption DEF OkSent, CallOrder, TypeOK
    <3> QED
      BY <3>1 DEF ChannelOrigin, TimedOut
  <2>2. ASSUME NEW r \in Requests, answer[r] \in {"Signed", "Rejected"}
        PROVE  \E c \in Callers : outcome[c] = "Ok" /\ target[c] = r /\ answer[r] = ResultOf(c)
    BY <2>2 DEF ChannelOrigin, TypeOK
  <2> QED
    BY <2>1, <2>2 DEF OkMeansHandedOver
<1> QED
  BY <1>1, Invariance, PTL

\* As long as the handler waits, the sender of its session is in the table or
\* with the one call that is about to use it: no interleaving of approvals,
\* rejections, cleanups and timeouts drops it unnoticed.
THEOREM SenderIsNeverLost == Spec => []NoLostSender
  BY Invariance, PTL DEF IInv

\* A call is refused only for what happened to the session: no session, a
\* timeout, or another call that decided it first.
THEOREM RefusalsAreJustified == Spec => []RefusalIsJustified
  BY Invariance, PTL DEF IInv

\* A session that nobody waits for stays Pending only if its client went away:
\* the timeout and every answer resolve the entry before the handler returns.
THEOREM PendingLeaksOnlyByDisconnect == Spec => []PendingOutlivesOnlyDisconnect
<1>1. IInv => PendingOutlivesOnlyDisconnect
  BY DEF IInv, HandlerOrder, PendingOutlivesOnlyDisconnect
<1> QED
  BY <1>1, Invariance, PTL

\* A session that was approved, rejected or expired is never decided again: the
\* only change left to it is the cleanup of an old entry.
THEOREM VerdictsAreFinal == Spec => VerdictIsFinal
<1>1. ASSUME IInv, [Next]_vars
      PROVE  [\A r \in Requests : status[r] \in Resolved /\ status'[r] # status[r] =>
           status'[r] = "Absent" /\ age[r] = Timeout]_vars
  BY <1>1, TimeoutAssumption DEF Next, HandlerStep, CallStep,
     PrepareSignRequest, CleanupBeforeInsert, CleanupResolved, InsertSession,
     ReceiveResult, TimeoutElapses, DropReceiver, Expire, Disconnect,
     SignPreparedFiles, ResolveSigned, SendResult, ApproveWithSignature, ApproveTemporarily,
     Reject, CheckPending, Refuse, TakeSender, ListSessions, Tick, IInv,
     TypeOK, HandlerOrder, Known, Resolved, callVars
<1> QED
  BY <1>1, Invariance, PTL DEF Spec, VerdictIsFinal

\* The two ways a step can look from outside: nothing happens to the requests,
\* or one request's decision becomes v; and likewise for one call's verdict.
DecisionStays == \A q \in Requests : DecisionBar(q)' = DecisionBar(q)
DecisionBecomes(r, v) == \A q \in Requests :
    DecisionBar(q)' = IF q = r THEN v ELSE DecisionBar(q)
VerdictStays == \A d \in Callers : VerdictBar(d)' = VerdictBar(d)
VerdictBecomes(c, v) == \A d \in Callers :
    VerdictBar(d)' = IF d = c THEN v ELSE VerdictBar(d)

\* A step that leaves decisions, verdicts and channels alone is a stutter of
\* SigningDecision.
LEMMA StutterMaps ==
  ASSUME DecisionStays, VerdictStays, UNCHANGED channel
  PROVE  UNCHANGED Decision!vars
  BY DEF DecisionStays, VerdictStays, Decision!vars

\* A call whose verdict becomes a failure, and nothing else, is Fail.
LEMMA FailMaps ==
  ASSUME NEW c \in Callers, VerdictBar(c) = "None", VerdictBecomes(c, "Failed"),
         DecisionStays, UNCHANGED channel
  PROVE  Decision!Fail(c)
  BY DEF DecisionStays, VerdictBecomes, Decision!Fail

\* The new value of one request's decision, as an update of the function.
LEMMA RequestMaps ==
  ASSUME NEW r \in Requests, NEW v, DecisionBecomes(r, v), VerdictStays,
         UNCHANGED channel
  PROVE  /\ [q \in Requests |-> DecisionBar(q)]' =
              [[q \in Requests |-> DecisionBar(q)] EXCEPT ![r] = v]
         /\ [d \in Callers |-> VerdictBar(d)]' = [d \in Callers |-> VerdictBar(d)]
  BY DEF DecisionBecomes, VerdictStays

\* A call that answers an open request and fills its channel is Decide.
LEMMA DecideMaps ==
  ASSUME NEW r \in Requests, NEW c \in Callers,
         DecisionBar(r) = "Open", VerdictBar(c) = "None",
         \E d \in {"Signed", "Rejected"} : DecisionBecomes(r, d), VerdictBecomes(c, "Ok"),
         channel' = [channel EXCEPT ![r] = c]
  PROVE  Decision!Decide(c, r)
  BY DEF DecisionBecomes, VerdictBecomes, Decision!Decide

\* A call that fills the channel of a request whose time is over is
\* DecideTooLate.
LEMMA DecideTooLateMaps ==
  ASSUME NEW r \in Requests, NEW c \in Callers,
         DecisionBar(r) = "Lapsed", channel[r] = Nobody, VerdictBar(c) = "None",
         DecisionStays, VerdictBecomes(c, "Ok"), channel' = [channel EXCEPT ![r] = c]
  PROVE  Decision!DecideTooLate(c, r)
  BY DEF DecisionStays, VerdictBecomes, Decision!DecideTooLate

\* The session table with its mutex, its one-shot channels and its timer
\* implements the atomic decision of SigningDecision: one deciding step for each
\* request, and success for the one call that took it.
THEOREM Refinement == Spec => Decision!Init /\ [][Decision!Next]_(Decision!vars)
<1>1. Init => Decision!Init
  BY DEF Init, Decision!Init, DecisionBar, VerdictBar
<1>2. IInv /\ IInv' /\ [Next]_vars => [Decision!Next]_(Decision!vars)
  <2> SUFFICES ASSUME IInv, IInv', [Next]_vars PROVE [Decision!Next]_(Decision!vars)
    OBVIOUS
  <2> USE NobodyAssumption DEF handlerVars, callVars, IInv, TypeOK, Refusals,
                               DecisionStays, DecisionBecomes, VerdictStays,
                               VerdictBecomes
  <2>1. ASSUME NEW r \in Requests, PrepareSignRequest(r)
        PROVE  Decision!Accept(r) \/ Decision!TurnDown(r)
    <3>1. VerdictStays /\ UNCHANGED channel
      BY <2>1 DEF PrepareSignRequest, VerdictBar
    <3>2. DecisionBar(r) = "None"
      BY <2>1 DEF PrepareSignRequest, DecisionBar, HandlerOrder, Known
    <3>3. DecisionBecomes(r, "Open") \/ DecisionBecomes(r, "Invalid")
      BY <2>1 DEF PrepareSignRequest, DecisionBar, HandlerOrder, Known,
         ResultOf
    <3> QED
      BY <3>1, <3>2, <3>3, RequestMaps DEF Decision!Accept, Decision!TurnDown
  <2>2. ASSUME NEW r \in Requests, CleanupBeforeInsert(r) PROVE UNCHANGED Decision!vars
    <3>1. DecisionStays /\ UNCHANGED channel
      BY <2>2 DEF CleanupBeforeInsert, DecisionBar, ResultOf
    <3>2. VerdictStays
      BY <2>2 DEF CleanupBeforeInsert, VerdictBar
    <3> QED
      BY <3>1, <3>2, StutterMaps
  <2>3. ASSUME NEW r \in Requests, InsertSession(r) PROVE UNCHANGED Decision!vars
    <3>1. DecisionStays /\ UNCHANGED channel
      BY <2>3 DEF InsertSession, DecisionBar, HandlerOrder, Known, ResultOf
    <3>2. VerdictStays
      BY <2>3 DEF InsertSession, VerdictBar
    <3> QED
      BY <3>1, <3>2, StutterMaps
  <2>4. ASSUME NEW r \in Requests, ReceiveResult(r) PROVE UNCHANGED Decision!vars
    <3>1. DecisionStays /\ UNCHANGED channel
      BY <2>4 DEF ReceiveResult, DecisionBar, ResultOf
    <3>2. VerdictStays
      BY <2>4 DEF ReceiveResult, VerdictBar
    <3> QED
      BY <3>1, <3>2, StutterMaps
  <2>5. ASSUME NEW r \in Requests, TimeoutElapses(r) PROVE Decision!Lapse(r)
    <3>1. VerdictStays /\ UNCHANGED channel
      BY <2>5 DEF TimeoutElapses, VerdictBar
    <3>2. DecisionBar(r) = "Open"
      BY <2>5 DEF TimeoutElapses, DecisionBar
    <3>3. DecisionBecomes(r, "Lapsed")
      BY <2>5 DEF TimeoutElapses, DecisionBar, ResultOf
    <3> QED
      BY <3>1, <3>2, <3>3, RequestMaps DEF Decision!Lapse
  <2>d. ASSUME NEW r \in Requests, DropReceiver(r) PROVE Decision!Expire(r)
    <3>1. VerdictStays /\ UNCHANGED channel
      BY <2>d DEF DropReceiver, VerdictBar
    <3>2. DecisionBar(r) = "Lapsed"
      BY <2>d DEF DropReceiver, DecisionBar
    <3>3. DecisionBecomes(r, "Expired")
      BY <2>d DEF DropReceiver, DecisionBar, ResultOf
    <3> QED
      BY <3>1, <3>2, <3>3, RequestMaps DEF Decision!Expire
  <2>6. ASSUME NEW r \in Requests, Expire(r) PROVE UNCHANGED Decision!vars
    <3>1. DecisionStays /\ UNCHANGED channel
      BY <2>6 DEF Expire, DecisionBar, ResultOf
    <3>2. VerdictStays
      BY <2>6 DEF Expire, VerdictBar
    <3> QED
      BY <3>1, <3>2, StutterMaps
  <2>7. ASSUME NEW r \in Requests, Disconnect(r)
        PROVE  Decision!Abandon(r) \/ UNCHANGED Decision!vars
    <3>1. VerdictStays /\ UNCHANGED channel
      BY <2>7 DEF Disconnect, VerdictBar
    <3>2. CASE channel[r] = Nobody
      <4>1. DecisionBar(r) = "Open"
        BY <2>7, <3>2 DEF Disconnect, DecisionBar
      <4>2. DecisionBecomes(r, "Abandoned")
        BY <2>7, <3>2 DEF Disconnect, DecisionBar, ResultOf
      <4> QED
        BY <3>1, <4>1, <4>2, RequestMaps DEF Decision!Abandon
    <3>3. CASE channel[r] # Nobody
      <4>1. DecisionStays
        BY <2>7, <3>3 DEF Disconnect, DecisionBar, ResultOf
      <4> QED
        BY <3>1, <4>1, StutterMaps
    <3> QED
      BY <3>2, <3>3
  <2>8. ASSUME NEW c \in Callers, SignPreparedFiles(c)
         PROVE  Decision!Fail(c) \/ UNCHANGED Decision!vars
    <3>1. DecisionStays /\ UNCHANGED channel
      BY <2>8 DEF SignPreparedFiles, DecisionBar, ResultOf
    <3>2. VerdictBar(c) = "None"
      BY <2>8 DEF SignPreparedFiles, VerdictBar, CallOrder
    <3>3. VerdictStays \/ VerdictBecomes(c, "Failed")
      BY <2>8 DEF SignPreparedFiles, VerdictBar
    <3> QED
      BY <3>1, <3>2, <3>3, StutterMaps, FailMaps
  <2>9. ASSUME NEW c \in Callers, ResolveSigned(c)
         PROVE  Decision!Fail(c) \/ UNCHANGED Decision!vars
    <3>1. DecisionStays /\ UNCHANGED channel
      BY <2>9 DEF ResolveSigned, DecisionBar, ResultOf
    <3>2. VerdictBar(c) = "None"
      BY <2>9 DEF ResolveSigned, VerdictBar, CallOrder
    <3>3. VerdictStays \/ VerdictBecomes(c, "Failed")
      BY <2>9 DEF ResolveSigned, Refuse, RefusalFor, TakeSender, VerdictBar
    <3> QED
      BY <3>1, <3>2, <3>3, StutterMaps, FailMaps
  <2>10. ASSUME NEW c \in Callers, SendResult(c)
         PROVE  \/ Decision!Fail(c)
                \/ \E r \in Requests : Decision!Decide(c, r) \/ Decision!DecideTooLate(c, r)
    <3> USE DEF ReceiverAlive
    <3>1. /\ target[c] \in Requests /\ VerdictBar(c) = "None"
          /\ channel[target[c]] = Nobody
      BY <2>10 DEF SendResult, CallOrder, VerdictBar, OneCarrier, Sending
    <3>2. CASE pc[target[c]] = "waiting"
      <4>1. DecisionBar(target[c]) = "Open"
        BY <3>1, <3>2 DEF DecisionBar
      <4>2. VerdictBecomes(c, "Ok") /\ channel' = [channel EXCEPT ![target[c]] = c]
        BY <2>10, <3>1, <3>2 DEF SendResult, VerdictBar
      <4>3. \E d \in {"Signed", "Rejected"} : DecisionBecomes(target[c], d)
        BY <2>10, <3>1, <3>2 DEF SendResult, DecisionBar, ResultOf
      <4> QED
        BY <3>1, <4>1, <4>2, <4>3, DecideMaps
    <3>3. CASE pc[target[c]] = "elapsing"
      <4>1. DecisionBar(target[c]) = "Lapsed"
        BY <3>3 DEF DecisionBar
      <4>2. VerdictBecomes(c, "Ok") /\ channel' = [channel EXCEPT ![target[c]] = c]
        BY <2>10, <3>1, <3>3 DEF SendResult, VerdictBar
      <4>3. DecisionStays
        BY <2>10, <3>1, <3>3 DEF SendResult, DecisionBar, ResultOf
      <4> QED
        BY <3>1, <4>1, <4>2, <4>3, DecideTooLateMaps
    <3>4. CASE pc[target[c]] \notin {"waiting", "elapsing"}
      <4>1. DecisionStays /\ UNCHANGED channel
        BY <2>10, <3>4 DEF SendResult, DecisionBar, ResultOf
      <4>2. VerdictBecomes(c, "Failed")
        BY <2>10, <3>4 DEF SendResult, VerdictBar
      <4> QED
        BY <3>1, <4>1, <4>2, FailMaps
    <3> QED
      BY <3>2, <3>3, <3>4
  <2>11. ASSUME NEW c \in Callers, NEW r \in Requests, ApproveWithSignature(c, r)
         PROVE  Decision!Fail(c) \/ UNCHANGED Decision!vars
    <3>1. DecisionStays /\ UNCHANGED channel
      BY <2>11 DEF ApproveWithSignature, Begin, CheckPending, Refuse,
         RefusalFor, DecisionBar, ResultOf, ChannelOrigin
    <3>2. VerdictBar(c) = "None"
      BY <2>11 DEF ApproveWithSignature, Begin, VerdictBar, CallOrder
    <3>3. VerdictStays \/ VerdictBecomes(c, "Failed")
      BY <2>11 DEF ApproveWithSignature, CheckPending, Refuse, RefusalFor,
         VerdictBar
    <3> QED
      BY <3>1, <3>2, <3>3, StutterMaps, FailMaps
  <2>12. ASSUME NEW c \in Callers, NEW r \in Requests, ApproveTemporarily(c, r)
         PROVE  Decision!Fail(c) \/ UNCHANGED Decision!vars
    <3>1. DecisionStays /\ UNCHANGED channel
      BY <2>12 DEF ApproveTemporarily, Begin, CheckPending, Refuse, RefusalFor,
         DecisionBar, ResultOf, ChannelOrigin
    <3>2. VerdictBar(c) = "None"
      BY <2>12 DEF ApproveTemporarily, Begin, VerdictBar, CallOrder
    <3>3. VerdictStays \/ VerdictBecomes(c, "Failed")
      BY <2>12 DEF ApproveTemporarily, CheckPending, Refuse, RefusalFor,
         VerdictBar
    <3> QED
      BY <3>1, <3>2, <3>3, StutterMaps, FailMaps
  <2>13. ASSUME NEW c \in Callers, NEW r \in Requests, Reject(c, r)
         PROVE  Decision!Fail(c) \/ UNCHANGED Decision!vars
    <3>1. DecisionStays /\ UNCHANGED channel
      BY <2>13 DEF Reject, Begin, Refuse, RefusalFor, TakeSender, DecisionBar,
         ResultOf, ChannelOrigin
    <3>2. VerdictBar(c) = "None"
      BY <2>13 DEF Reject, Begin, VerdictBar, CallOrder
    <3>3. VerdictStays \/ VerdictBecomes(c, "Failed")
      BY <2>13 DEF Reject, Refuse, RefusalFor, TakeSender, VerdictBar
    <3> QED
      BY <3>1, <3>2, <3>3, StutterMaps, FailMaps
  <2>14. ASSUME ListSessions PROVE UNCHANGED Decision!vars
    <3>1. DecisionStays /\ UNCHANGED channel
      BY <2>14 DEF ListSessions, DecisionBar, ResultOf
    <3>2. VerdictStays
      BY <2>14 DEF ListSessions, VerdictBar
    <3> QED
      BY <3>1, <3>2, StutterMaps
  <2>15. ASSUME Tick PROVE UNCHANGED Decision!vars
    <3>1. DecisionStays /\ UNCHANGED channel
      BY <2>15 DEF Tick, DecisionBar, ResultOf
    <3>2. VerdictStays
      BY <2>15 DEF Tick, VerdictBar
    <3> QED
      BY <3>1, <3>2, StutterMaps
  <2>16. ASSUME UNCHANGED vars PROVE UNCHANGED Decision!vars
    <3>1. DecisionStays /\ VerdictStays /\ UNCHANGED channel
      BY <2>16 DEF vars, DecisionBar, ResultOf, VerdictBar
    <3> QED
      BY <3>1, StutterMaps
  <2> QED
    BY <2>1, <2>2, <2>3, <2>4, <2>5, <2>d, <2>6, <2>7, <2>8, <2>9, <2>10, <2>11,
       <2>12, <2>13, <2>14, <2>15, <2>16
       DEF Next, HandlerStep, CallStep, Decision!Next
<1>3. QED
  BY <1>1, <1>2, Invariance, PTL DEF Spec

-----------------------------------------------------------------------------
(* What follows from the refinement alone, whatever the table does inside. *)

Decided(r) == DecisionBar(r) \in {"Signed", "Rejected"}

\* A decided request has its decider; a decider was told of its success, of a
\* request that was decided or whose time was over; nobody decides two, and who
\* was told of a success is the decider of one.
OneDecisionEach ==
    /\ \A r \in Requests : Decided(r) => channel[r] # Nobody
    /\ \A r \in Requests : channel[r] # Nobody =>
           /\ VerdictBar(channel[r]) = "Ok"
           /\ Decided(r) \/ DecisionBar(r) \in {"Lapsed", "Expired"}
    /\ \A r, q \in Requests : channel[r] # Nobody /\ channel[r] = channel[q] => r = q
    /\ \A c \in Callers : VerdictBar(c) = "Ok" => \E r \in Requests : channel[r] = c

\* The changes of a request's decision that are nobody's.
Undecided(from, to) ==
    \/ from = "None" /\ to \in {"Open", "Invalid"}
    \/ from = "Open" /\ to \in {"Lapsed", "Abandoned"}
    \/ from = "Lapsed" /\ to = "Expired"

OthersKeep(r, c) ==
    /\ \A q \in Requests : q # r => DecisionBar(q)' = DecisionBar(q)
    /\ \A d \in Callers : d # c => VerdictBar(d)' = VerdictBar(d)

\* The steps of SigningDecision, in terms of the requests and the calls: nobody
\* decides, a call decides an open request, or one decides a lapsed one.
NobodyDecides ==
    /\ channel' = channel
    /\ \A q \in Requests : \/ DecisionBar(q)' = DecisionBar(q)
                           \/ Undecided(DecisionBar(q), DecisionBar(q)')
    /\ \A d \in Callers : \/ VerdictBar(d)' = VerdictBar(d)
                          \/ VerdictBar(d) = "None" /\ VerdictBar(d)' = "Failed"
Decides(c, r) ==
    /\ VerdictBar(c) = "None" /\ VerdictBar(c)' = "Ok"
    /\ channel' = [channel EXCEPT ![r] = c]
    /\ \/ DecisionBar(r) = "Open" /\ DecisionBar(r)' \in {"Signed", "Rejected"}
       \/ DecisionBar(r) = "Lapsed" /\ DecisionBar(r)' = "Lapsed" /\ channel[r] = Nobody
    /\ OthersKeep(r, c)

\* Each step of SigningDecision is one of these.
LEMMA DecisionMoves ==
    ASSUME TypeOK, [Decision!Next]_(Decision!vars)
    PROVE  NobodyDecides \/ \E c \in Callers, r \in Requests : Decides(c, r)
<1> DEFINE D == [r \in Requests |-> DecisionBar(r)]
           V == [c \in Callers |-> VerdictBar(c)]
<1>1. /\ \A q \in Requests : D[q] = DecisionBar(q) /\ D'[q] = DecisionBar(q)'
      /\ \A d \in Callers : V[d] = VerdictBar(d) /\ V'[d] = VerdictBar(d)'
      /\ D = [q \in Requests |-> D[q]] /\ V = [d \in Callers |-> V[d]]
  OBVIOUS
<1>2. ASSUME NEW r \in Requests, NEW v, D' = [D EXCEPT ![r] = v]
      PROVE  DecisionBar(r)' = v /\ \A q \in Requests : q # r => DecisionBar(q)' = DecisionBar(q)
  <2> HIDE DEF D
  <2> QED BY <1>1, <1>2
<1>3. ASSUME NEW c \in Callers, NEW v, V' = [V EXCEPT ![c] = v]
      PROVE  VerdictBar(c)' = v /\ \A d \in Callers : d # c => VerdictBar(d)' = VerdictBar(d)
  <2> HIDE DEF V
  <2> QED BY <1>1, <1>3
<1>4. ASSUME NEW r \in Requests, NEW v, Undecided(D[r], v),
             D' = [D EXCEPT ![r] = v], channel' = channel, V' = V
      PROVE  NobodyDecides
  <2>1. DecisionBar(r)' = v /\ \A q \in Requests : q # r => DecisionBar(q)' = DecisionBar(q)
    BY <1>2, <1>4
  <2> HIDE DEF D, V
  <2> QED BY <1>1, <1>4, <2>1 DEF NobodyDecides
<1>5. CASE \E r \in Requests : Decision!Accept(r) \/ Decision!TurnDown(r)
                 \/ Decision!Lapse(r) \/ Decision!Expire(r) \/ Decision!Abandon(r)
  <2>1. PICK r \in Requests : Decision!Accept(r) \/ Decision!TurnDown(r)
                 \/ Decision!Lapse(r) \/ Decision!Expire(r) \/ Decision!Abandon(r)
    BY <1>5
  <2>2. \E v \in {"Open", "Invalid", "Lapsed", "Expired", "Abandoned"} :
            Undecided(D[r], v) /\ D' = [D EXCEPT ![r] = v] /\ channel' = channel /\ V' = V
    BY <2>1 DEF Decision!Accept, Decision!TurnDown, Decision!Lapse, Decision!Expire,
                Decision!Abandon, Undecided
  <2> QED BY <1>4, <2>2
<1>6. CASE \E c \in Callers : Decision!Fail(c)
  <2>1. PICK c \in Callers : V[c] = "None" /\ V' = [V EXCEPT ![c] = "Failed"]
                             /\ D' = D /\ channel' = channel
    BY <1>6 DEF Decision!Fail
  <2>2. VerdictBar(c)' = "Failed" /\ \A d \in Callers : d # c => VerdictBar(d)' = VerdictBar(d)
    BY <1>3, <2>1
  <2> HIDE DEF D, V
  <2> QED BY <1>1, <2>1, <2>2 DEF NobodyDecides
<1>7. CASE \E c \in Callers, r \in Requests : Decision!Decide(c, r)
  <2>1. PICK c \in Callers, r \in Requests : Decision!Decide(c, r)
    BY <1>7
  <2>2. PICK d \in {"Signed", "Rejected"} :
           /\ D[r] = "Open" /\ V[c] = "None" /\ D' = [D EXCEPT ![r] = d]
           /\ V' = [V EXCEPT ![c] = "Ok"] /\ channel' = [channel EXCEPT ![r] = c]
    BY <2>1 DEF Decision!Decide
  <2>3. DecisionBar(r)' = d /\ \A q \in Requests : q # r => DecisionBar(q)' = DecisionBar(q)
    BY <1>2, <2>2
  <2>4. VerdictBar(c)' = "Ok" /\ \A e \in Callers : e # c => VerdictBar(e)' = VerdictBar(e)
    BY <1>3, <2>2
  <2>5. Decides(c, r)
    <3> HIDE DEF D, V
    <3> QED BY <1>1, <2>2, <2>3, <2>4 DEF Decides, OthersKeep
  <2> QED BY <2>5
<1>8. CASE \E c \in Callers, r \in Requests : Decision!DecideTooLate(c, r)
  <2>1. PICK c \in Callers, r \in Requests :
           /\ D[r] = "Lapsed" /\ channel[r] = Nobody /\ V[c] = "None" /\ D' = D
           /\ V' = [V EXCEPT ![c] = "Ok"] /\ channel' = [channel EXCEPT ![r] = c]
    BY <1>8 DEF Decision!DecideTooLate
  <2>2. VerdictBar(c)' = "Ok" /\ \A e \in Callers : e # c => VerdictBar(e)' = VerdictBar(e)
    BY <1>3, <2>1
  <2>3. Decides(c, r)
    <3> HIDE DEF D, V
    <3> QED BY <1>1, <2>1, <2>2 DEF Decides, OthersKeep
  <2> QED BY <2>3
<1>9. CASE UNCHANGED Decision!vars
  <2>1. D' = D /\ V' = V /\ channel' = channel
    BY <1>9 DEF Decision!vars
  <2> HIDE DEF D, V
  <2> QED BY <1>1, <2>1 DEF NobodyDecides
<1> QED BY <1>5, <1>6, <1>7, <1>8, <1>9 DEF Decision!Next

\* No result is given back: whatever became of a request (signed, rejected, turned
\* down, expired, its client gone) is what became of it for good, and once its
\* time is over it expires, whoever was told of a success meanwhile.
NoneGivenBack ==
    \A r \in Requests :
        DecisionBar(r) \notin {"None", "Open"} =>
            \/ DecisionBar(r)' = DecisionBar(r)
            \/ DecisionBar(r) = "Lapsed" /\ DecisionBar(r)' = "Expired"

\* The decisions of the table are final.
THEOREM DecisionsAreFinal == Spec => [][NoneGivenBack]_vars
<1>1. TypeOK /\ [Decision!Next]_(Decision!vars) => NoneGivenBack
  <2> SUFFICES ASSUME TypeOK, [Decision!Next]_(Decision!vars) PROVE NoneGivenBack
    OBVIOUS
  <2>1. CASE NobodyDecides
    BY <2>1 DEF NobodyDecides, Undecided, NoneGivenBack
  <2>2. ASSUME NEW c \in Callers, NEW r \in Requests, Decides(c, r) PROVE NoneGivenBack
    BY <2>2 DEF Decides, OthersKeep, NoneGivenBack
  <2> QED BY <2>1, <2>2, DecisionMoves
<1>2. TypeOK /\ [Decision!Next]_(Decision!vars) => [NoneGivenBack]_vars
  BY <1>1
<1> QED BY <1>2, Refinement, TypeCorrect, PTL

\* Every success that is reported is the only one of its request, and of no other,
\* and that request was decided by it or its time was over: a person's two clicks,
\* or two windows, never both hear that they resolved a session.
THEOREM SuccessesAreSingle == Spec => []OneDecisionEach
<1>1. Init => OneDecisionEach
  BY NobodyAssumption DEF Init, OneDecisionEach, Decided, DecisionBar, VerdictBar
<1>2. TypeOK /\ OneDecisionEach /\ [Decision!Next]_(Decision!vars) => OneDecisionEach'
  <2> SUFFICES ASSUME TypeOK, OneDecisionEach, [Decision!Next]_(Decision!vars)
               PROVE  OneDecisionEach'
    OBVIOUS
  <2>c. \A r \in Requests : channel[r] # Nobody => channel[r] \in Callers
    BY DEF TypeOK
  <2>1. CASE NobodyDecides
    <3>1. \A q \in Requests : Decided(q)' <=> Decided(q)
      BY <2>1 DEF NobodyDecides, Undecided, Decided
    <3>2. \A q \in Requests : DecisionBar(q) \in {"Lapsed", "Expired"} =>
             DecisionBar(q)' \in {"Lapsed", "Expired"}
      BY <2>1 DEF NobodyDecides, Undecided
    <3>3. \A d \in Callers : VerdictBar(d)' = "Ok" <=> VerdictBar(d) = "Ok"
      BY <2>1 DEF NobodyDecides
    <3>4. channel' = channel
      BY <2>1 DEF NobodyDecides
    <3> QED BY <2>c, <3>1, <3>2, <3>3, <3>4 DEF OneDecisionEach
  <2>2. ASSUME NEW c \in Callers, NEW r \in Requests, Decides(c, r)
        PROVE  OneDecisionEach'
    <3>1. /\ Decided(r)' \/ DecisionBar(r)' \in {"Lapsed", "Expired"}
          /\ \A q \in Requests : q # r => DecisionBar(q)' = DecisionBar(q)
      BY <2>2 DEF Decides, OthersKeep, Decided
    <3>2. channel'[r] = c /\ \A q \in Requests : q # r => channel'[q] = channel[q]
      BY <2>2 DEF TypeOK, Decides
    <3>3. \A q \in Requests : channel[q] # c
      BY <2>2, NobodyAssumption DEF OneDecisionEach, Decides
    <3>4. \A d \in Callers : VerdictBar(d)' = "Ok" <=> VerdictBar(d) = "Ok" \/ d = c
      BY <2>2 DEF Decides, OthersKeep
    <3>5. c # Nobody /\ channel[r] = Nobody
      BY <2>2, <2>c, NobodyAssumption DEF Decides, OneDecisionEach, Decided
    <3>6. \A q \in Requests : Decided(q)' => channel'[q] # Nobody
      BY <3>1, <3>2, <3>5 DEF OneDecisionEach, Decided
    <3>7. \A q \in Requests : channel'[q] # Nobody =>
             /\ VerdictBar(channel[q])' = "Ok"
             /\ Decided(q)' \/ DecisionBar(q)' \in {"Lapsed", "Expired"}
      BY <2>c, <3>1, <3>2, <3>4 DEF OneDecisionEach, Decided
    <3>8. \A q, p \in Requests : channel'[q] # Nobody /\ channel'[q] = channel'[p] => q = p
      BY <3>2, <3>3 DEF OneDecisionEach
    <3>9. ASSUME NEW d \in Callers, VerdictBar(d)' = "Ok"
          PROVE  \E q \in Requests : channel'[q] = d
      <4>1. CASE d = c
        BY <4>1, <3>2
      <4>2. CASE d # c
        <5>1. PICK q \in Requests : channel[q] = d
          BY <4>2, <3>4, <3>9 DEF OneDecisionEach
        <5>2. q # r
          BY <5>1, <3>5, NobodyAssumption
        <5> QED BY <5>1, <5>2, <3>2
      <4> QED BY <4>1, <4>2
    <3> QED BY <3>6, <3>7, <3>8, <3>9 DEF OneDecisionEach
  <2> QED BY <2>1, <2>2, DecisionMoves
<1> QED BY <1>1, <1>2, Refinement, TypeCorrect, PTL DEF Spec

-----------------------------------------------------------------------------
(* The handler of POST /sign. *)

\* Every step of the handler is a step of the table or leaves it alone.
LEMMA FlowStepOfTable == [NextFlow]_allVars => [Next]_vars
<1> SUFFICES ASSUME [NextFlow]_allVars PROVE [Next]_vars
  OBVIOUS
<1>1. ASSUME NEW r \in Requests,
             Arrive(r) \/ TryAutoSign(r) \/ LeaveEarly(r) \/ AfterAutoSign(r)
      PROVE  UNCHANGED vars
  BY <1>1 DEF Arrive, TryAutoSign, LeaveEarly, AfterAutoSign
<1>2. ASSUME NEW r \in Requests, EnterTable(r) PROVE Next
  BY <1>2 DEF EnterTable, Next
<1>3. ASSUME TableStep PROVE Next
  BY <1>3 DEF TableStep, Next
<1>4. ASSUME UNCHANGED allVars PROVE UNCHANGED vars
  BY <1>4 DEF allVars
<1> QED
  BY <1>1, <1>2, <1>3, <1>4, Zenon DEF NextFlow, FlowStep

\* Behind the auto-sign the session table behaves as its own specification
\* says, so each theorem about SigningSessions holds of the whole handler.
THEOREM TableUnderFlow == SpecFlow => Spec
<1>1. InitFlow => Init
  BY DEF InitFlow
<1> QED
  BY <1>1, FlowStepOfTable, PTL DEF SpecFlow, Spec

\* What the run checks of the table in the composition, proved.
COROLLARY TableKeepsItsPromises ==
    SpecFlow => /\ [](OkMeansHandedOver /\ NoLostSender /\ PendingOutlivesOnlyDisconnect
                          /\ RefusalIsJustified /\ OneDecisionEach)
                /\ VerdictIsFinal
                /\ Decision!Init /\ [][Decision!Next]_(Decision!vars)
  BY TableUnderFlow, SuccessIsHandedOver, SenderIsNeverLost, PendingLeaksOnlyByDisconnect,
     RefusalsAreJustified, SuccessesAreSingle, VerdictsAreFinal, Refinement, PTL

\* The variables of the handler keep their types, those of the table included.
THEOREM FlowTypeCorrect == SpecFlow => []FlowTypeOK
<1> DEFINE FlowTypes ==
      /\ flow \in [Requests -> {"new", "trying", "table", "signed", "refused", "gone"}]
      /\ mode \in Mode
      /\ result \in [Requests -> {"None", "NotEnabled", "Signed", "Failed"}]
<1>1. InitFlow => FlowTypes
  BY DEF InitFlow
<1>2. FlowTypes /\ [NextFlow]_allVars => FlowTypes'
  BY DEF NextFlow, Arrive, TryAutoSign, LeaveEarly, FlowStep, AfterAutoSign,
     EnterTable, TableStep, autoVars, allVars
<1>3. TypeOK /\ FlowTypes => FlowTypeOK
  BY DEF FlowTypeOK
<1> QED
  BY <1>1, <1>2, <1>3, TableUnderFlow, TypeCorrect, PTL DEF SpecFlow

-----------------------------------------------------------------------------

\* The requests that may go to the table.
MayAsk(r) ==
    \/ mode = "off"
    \/ mode = "lenient" /\ result[r] = "Failed"

\* TableIsTheFallback with what it rests on: nothing is asked about a request
\* before its hand-over to the table, and none is handed over that may not be.
FlowInv ==
    /\ FlowTypeOK
    /\ \A r \in Requests :
           /\ result[r] = "NotEnabled" => mode = "off"
           /\ flow[r] = "table" => MayAsk(r)
           /\ pc[r] # "idle" => MayAsk(r)

\* Only prepare_sign_request brings a request before create_and_wait.
LEMMA TableStepKeepsIdle ==
    ASSUME TypeOK, TableStep, NEW r \in Requests, pc[r] = "idle"
    PROVE  pc'[r] = "idle"
<1>1. ASSUME NEW q \in Requests, HandlerStep(q) \/ Disconnect(q) PROVE pc'[r] = "idle"
  BY <1>1 DEF HandlerStep, CleanupBeforeInsert, InsertSession, ReceiveResult,
     TimeoutElapses, DropReceiver, Expire, Disconnect, TypeOK
<1>2. ASSUME NEW c \in Callers, CallStep(c) PROVE UNCHANGED pc
  BY <1>2 DEF CallStep, SignPreparedFiles, ResolveSigned, SendResult,
     ApproveWithSignature, ApproveTemporarily, Reject, handlerVars
<1>3. ASSUME ListSessions \/ Tick PROVE UNCHANGED pc
  BY <1>3 DEF ListSessions, Tick, handlerVars
<1> QED
  BY <1>1, <1>2, <1>3 DEF TableStep

\* A request is put before a person only when auto-sign is off, or failed under
\* fallback_to_modal: what the development identity signed is never asked about
\* again, and no interleaving turns a strict failure into a session.
THEOREM AskedOnlyAsFallback == SpecFlow => []TableIsTheFallback
<1>1. InitFlow => FlowInv
  <2> SUFFICES ASSUME InitFlow PROVE FlowInv
    OBVIOUS
  <2>1. TypeOK
    BY NobodyAssumption, TimeoutAssumption DEF InitFlow, Init, TypeOK, Status
  <2> QED
    BY <2>1 DEF InitFlow, Init, FlowInv, FlowTypeOK, MayAsk
<1>2. FlowInv /\ FlowTypeOK' /\ [NextFlow]_allVars => FlowInv'
  <2> SUFFICES ASSUME FlowInv, FlowTypeOK', [NextFlow]_allVars PROVE FlowInv'
    OBVIOUS
  <2> USE DEF FlowInv, FlowTypeOK, MayAsk
  <2>1. ASSUME NEW r \in Requests, Arrive(r) \/ LeaveEarly(r) PROVE FlowInv'
    BY <2>1 DEF Arrive, LeaveEarly, vars
  <2>2. ASSUME NEW r \in Requests, TryAutoSign(r) PROVE FlowInv'
    BY <2>2 DEF TryAutoSign, vars
  <2>3. ASSUME NEW r \in Requests, AfterAutoSign(r) PROVE FlowInv'
    BY <2>3 DEF AfterAutoSign, vars
  <2>4. ASSUME NEW r \in Requests, EnterTable(r) PROVE FlowInv'
    BY <2>4 DEF EnterTable, PrepareSignRequest, autoVars, TypeOK
  <2>5. ASSUME TableStep PROVE FlowInv'
    BY <2>5, TableStepKeepsIdle DEF TableStep, autoVars
  <2>6. ASSUME UNCHANGED allVars PROVE FlowInv'
    BY <2>6 DEF allVars, autoVars, vars
  <2> QED
    BY <2>1, <2>2, <2>3, <2>4, <2>5, <2>6, Zenon DEF NextFlow, FlowStep
<1>3. FlowInv => TableIsTheFallback
  BY DEF FlowInv, MayAsk, TableIsTheFallback
<1> QED
  BY <1>1, <1>2, <1>3, FlowTypeCorrect, PTL DEF SpecFlow
=============================================================================
