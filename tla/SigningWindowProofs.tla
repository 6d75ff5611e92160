-------------------------- MODULE SigningWindowProofs -------------------------
(***************************************************************************)
(* However the tasks of the window interleave, an approval is one at a     *)
(* time and takes the PIN typed for its own session.                       *)
(***************************************************************************)
EXTENDS SigningWindow, WellFoundedInduction, TLAPS

\* The PIN field is emptied whenever another session is displayed; the approve
\* button is enabled only over a PIN and while no approval runs, and one runs
\* from the click to the end of its hiding.
WindowInv ==
    /\ approveEnabled \in BOOLEAN /\ signingInProgress \in BOOLEAN
    /\ pin # Empty => pin = active
    /\ approveEnabled => pin # Empty /\ ~signingInProgress
    /\ approval.at # "idle" => signingInProgress
    /\ PinIsForTheSessionShown

\* The values of a task's record.
LEMMA Records ==
    \A at : /\ Approval(at).at = at /\ Approval(at).pin = Approval(at).session
  BY DEF Approval

\* What a step may do to the PIN field and the approve button: leave them,
\* empty the field, or look again at what enables the button.
FormStep ==
    \/ UNCHANGED formVars
    \/ /\ UNCHANGED <<active, pin>> /\ approveEnabled' \in BOOLEAN
       /\ approveEnabled' => ~signingInProgress /\ pin # Empty
    \/ pin' = Empty /\ approveEnabled' = FALSE

\* Such a step is harmless when it leaves the approval alone.
LEMMA FormStepKeeps ==
    ASSUME WindowInv, FormStep, approval' = approval,
           signingInProgress' = signingInProgress
    PROVE  WindowInv'
<1>1. approveEnabled' \in BOOLEAN /\ signingInProgress' \in BOOLEAN
  BY DEF WindowInv, FormStep, formVars
<1>2. pin' # Empty => pin' = active'
  BY DEF WindowInv, FormStep, formVars
<1>3. approveEnabled' => pin' # Empty /\ ~signingInProgress'
  BY DEF WindowInv, FormStep, formVars
<1>4. (approval.at # "idle" => signingInProgress)' /\ PinIsForTheSessionShown'
  BY DEF WindowInv, PinIsForTheSessionShown
<1> QED
  BY <1>1, <1>2, <1>3, <1>4 DEF WindowInv

\* Every step keeps the invariant.
LEMMA WindowStep == WindowInv /\ [Next]_vars => WindowInv'
<1> SUFFICES ASSUME WindowInv, [Next]_vars PROVE WindowInv'
  OBVIOUS
<1> USE DEF UpdateApprovalState, ClearSigningForm, ShowSigningSession, tableVars,
        formVars, loadVars
<1>1. ASSUME NEW l \in Loaders, LoadStep(l)
      PROVE  FormStep /\ UNCHANGED <<approval, signingInProgress>>
  <2>1. UNCHANGED <<approval, signingInProgress>>
    BY <1>1 DEF LoadStep, ListSigningSessions, ListArrives, SelectionArrives,
       CertificatesArrive
  <2>2. FormStep
    BY <1>1 DEF LoadStep, ListSigningSessions, ListArrives, SelectionArrives,
       CertificatesArrive, Finally, FormStep
  <2> QED
    BY <2>1, <2>2
<1>2. ASSUME RejectionStep
      PROVE  FormStep /\ UNCHANGED <<approval, signingInProgress>>
  <2>1. UNCHANGED <<approval, signingInProgress>>
    BY <1>2, Zenon DEF RejectionStep, ClickReject, RejectSigningSession,
       RejectionFails, RejectionSucceeded, RejectionHides
  <2>2. FormStep
    BY <1>2 DEF RejectionStep, ClickReject, RejectSigningSession, RejectionFails,
       RejectionSucceeded, RejectionHides, FormStep
  <2> QED
    BY <2>1, <2>2
<1>3. ASSUME ClickQueue \/ PickArrives \/ OpenSigningWindow \/ CloseSigningWindow
             \/ (\E s \in Sessions : SessionArrives(s) \/ SessionEnds(s))
             \/ UNCHANGED vars
      PROVE  FormStep /\ UNCHANGED <<approval, signingInProgress>>
  BY <1>3 DEF ClickQueue, PickArrives, OpenSigningWindow, CloseSigningWindow,
     SessionArrives, SessionEnds, vars, FormStep
<1>4. ASSUME TypePin PROVE WindowInv'
  BY <1>4 DEF TypePin, WindowInv, PinIsForTheSessionShown
<1>5. ASSUME ClickApprove PROVE WindowInv'
  BY <1>5 DEF ClickApprove, WindowInv, PinIsForTheSessionShown
<1>6. ASSUME ApproveSigningSession PROVE WindowInv'
  <2>1. approval' = Approval("signed") /\ approval.at = "signing"
    BY <1>6, Zenon DEF ApproveSigningSession
  <2>2. UNCHANGED <<formVars, signingInProgress>>
    BY <1>6, Zenon DEF ApproveSigningSession
  <2> QED
    BY <2>1, <2>2, Records DEF WindowInv, PinIsForTheSessionShown
<1>7. ASSUME ApprovalSucceeded PROVE WindowInv'
  <2>1. approval' = Approval("hiding") /\ approval.at = "signed"
    BY <1>7, Zenon DEF ApprovalSucceeded
  <2>2. pin' = Empty /\ approveEnabled' = FALSE /\ signingInProgress' = signingInProgress
    BY <1>7 DEF ApprovalSucceeded
  <2> QED
    BY <2>1, <2>2, Records DEF WindowInv, PinIsForTheSessionShown
<1>8. ASSUME ApprovalFails PROVE WindowInv'
  <2>1. approval' = Approval("idle") /\ pin' = Empty /\ approveEnabled' = FALSE
        /\ signingInProgress' = FALSE
    BY <1>8 DEF ApprovalFails
  <2> QED
    BY <2>1, Records DEF WindowInv, PinIsForTheSessionShown
<1>9. ASSUME ApprovalHides PROVE WindowInv'
  <2>1. approval.at = "hiding" /\ approval' = Approval("idle")
    BY <1>9, Zenon DEF ApprovalHides
  <2>2. UNCHANGED <<active, pin, approveEnabled>> /\ signingInProgress' = FALSE
    BY <1>9 DEF ApprovalHides
  <2> QED
    BY <2>1, <2>2, Records DEF WindowInv, PinIsForTheSessionShown
<1>10. QED
  BY <1>1, <1>2, <1>3, <1>4, <1>5, <1>6, <1>7, <1>8, <1>9, FormStepKeeps
     DEF Next, ApprovalStep

\* The invariant of the form.
THEOREM WindowInvariance == Spec => []WindowInv
<1>1. Init => WindowInv
  BY Records DEF Init, WindowInv, PinIsForTheSessionShown
<1> QED
  BY <1>1, WindowStep, PTL DEF Spec

\* A PIN signs only the documents that were on display while it was typed: no
\* poll, pick or task that was left behind comes between the two.
THEOREM PinsAreForTheirSession == Spec => []PinIsForTheSessionShown
  BY WindowInvariance, PTL DEF WindowInv

\* While an approval runs nothing enables the button that would start another.
THEOREM ApprovalsAreSingle == Spec => []OneApprovalAtATime
<1>1. WindowInv => OneApprovalAtATime
  BY DEF WindowInv, OneApprovalAtATime
<1> QED
  BY <1>1, WindowInvariance, PTL

-----------------------------------------------------------------------------
(* Types.  First picks the oldest of a loader's list, so the list of a loader *)
(* that asks for the selected session must not be empty. *)

\* A nonempty set of session numbers has a least one.
LEMMA OldestExists ==
    ASSUME NEW T \in SUBSET Nat, T # {}
    PROVE  \E x \in T : \A y \in T : x <= y
<1>1. PICK x \in T : \A y \in T : ~(<<y, x>> \in OpToRel(<, Nat))
  BY NatLessThanWellFounded, WFMin
<1>2. \A y \in T : ~(y < x)
  BY <1>1 DEF OpToRel
<1> QED BY <1>2

\* The first of a list is in it.
LEMMA FirstOfList ==
    ASSUME NEW T \in SUBSET Sessions, T # {}
    PROVE  First(T) \in T
  BY OldestExists, SessionsAssumption DEF First

\* A loader waits for the selected session only with sessions to choose from.
WindowTypes ==
    /\ TypeOK
    /\ \A l \in Loaders : stage[l] = "selected" => pending[l] # {}

\* The values a task's record is set to.
LEMMA TaskTypes ==
    /\ \A at \in {"idle", "signing", "signed", "hiding"} :
           Approval(at) \in [at : {"idle", "signing", "signed", "hiding"},
                             session : OrNone, pin : OrNone \cup {Empty}]
    /\ \A at \in {"idle", "rejecting", "rejected", "hiding"} :
           At(at) \in [at : {"idle", "rejecting", "rejected", "hiding"},
                       session : OrNone]
    /\ NoPick \in [at : {"idle", "shown"}, session : OrNone, drawn : SUBSET Sessions]
  BY DEF Approval, At, NoPick, OrNone

\* What a loader does to the display, its own record and the buttons.
LEMMA LoadTypes ==
    ASSUME WindowTypes, NEW l \in Loaders, LoadStep(l)
    PROVE  WindowTypes'
<1> USE DEF WindowTypes, TypeOK, tableVars, formVars, loadVars, UpdateApprovalState
<1>1. /\ UNCHANGED <<tableVars, signingInProgress, approval, rejection, pick>>
  BY DEF LoadStep, ListSigningSessions, ListArrives, SelectionArrives, CertificatesArrive
<1>2. CASE ListSigningSessions(l)
  BY <1>2 DEF ListSigningSessions, Loaders
<1>3. ASSUME stage[l] = "selected"
      PROVE  NextSession(l) \in Sessions
  <2>1. pending[l] \in SUBSET Sessions /\ pending[l] # {}
    BY <1>3
  <2> QED BY <2>1, FirstOfList DEF NextSession
<1>4. ASSUME NEW p, Finally(l, p), approveEnabled' \in BOOLEAN
      PROVE  /\ stage' \in [Loaders -> {"idle", "listing", "listed", "selected", "loading"}]
             /\ pending' \in [Loaders -> SUBSET Sessions]
             /\ chosen' \in [Loaders -> OrNone]
             /\ rejectEnabled' \in BOOLEAN
             /\ \A m \in Loaders : stage'[m] = "selected" => pending'[m] # {}
  BY <1>4 DEF Finally, OrNone
<1>5. \A s \in SUBSET Sessions : Queue(s) \subseteq Sessions
  BY DEF Queue
<1>6. CASE ListArrives(l)
  <2>1. CASE pending[l] = {}
    BY <1>1, <1>4, <1>6, <2>1 DEF ListArrives, ClearSigningForm, OrNone
  <2>2. CASE pending[l] # {}
    BY <1>1, <1>6, <2>2 DEF ListArrives
  <2> QED BY <2>1, <2>2
<1>7. CASE SelectionArrives(l)
  <2>1. NextSession(l) \in OrNone /\ Queue(pending[l]) \subseteq Sessions
    BY <1>3, <1>5, <1>7 DEF SelectionArrives, OrNone
  <2> HIDE DEF NextSession, Queue
  <2>2. CASE active = NextSession(l)
    <3>1. approveEnabled' \in BOOLEAN
      BY <1>7, <2>2 DEF SelectionArrives, Finally
    <3> QED BY <1>1, <1>4, <1>7, <2>1, <2>2, <3>1 DEF SelectionArrives
  <2>3. CASE active # NextSession(l)
    <3>1. active' \in OrNone /\ pin' = Empty /\ approveEnabled' = FALSE
      BY <1>7, <2>1, <2>3 DEF SelectionArrives, ShowSigningSession
    <3>2. CASE queue' = Queue(pending[l]) /\ Finally(l, Empty)
      BY <1>1, <1>4, <2>1, <3>1, <3>2
    <3>3. CASE /\ stage' = [stage EXCEPT ![l] = "loading"]
               /\ chosen' = [chosen EXCEPT ![l] = None]
               /\ UNCHANGED <<rejectEnabled, queue, pending>>
      <4>1. stage' \in [Loaders -> {"idle", "listing", "listed", "selected", "loading"}]
        BY <3>3
      <4>2. chosen' \in [Loaders -> OrNone]
        BY <3>3 DEF OrNone
      <4>3. \A m \in Loaders : stage'[m] = "selected" => pending'[m] # {}
        BY <3>3
      <4> QED BY <1>1, <3>1, <3>3, <4>1, <4>2, <4>3
    <3> QED BY <1>7, <2>3, <3>2, <3>3 DEF SelectionArrives
  <2> QED BY <2>2, <2>3
<1>8. CASE CertificatesArrive(l)
  <2>1. approveEnabled' \in BOOLEAN
    BY <1>8 DEF CertificatesArrive
  <2> QED BY <1>1, <1>4, <1>5, <1>8, <2>1 DEF CertificatesArrive
<1> QED BY <1>2, <1>6, <1>7, <1>8 DEF LoadStep

\* The decisions keep the types.
LEMMA DecisionTypes ==
    ASSUME WindowTypes, ApprovalStep \/ RejectionStep
    PROVE  WindowTypes'
<1> USE TaskTypes DEF WindowTypes, TypeOK, tableVars, formVars, loadVars,
        UpdateApprovalState, ClearSigningForm, OrNone
<1>1. CASE ClickApprove
  BY <1>1 DEF ClickApprove
<1>2. CASE ApproveSigningSession
  <2>1. /\ approval' = Approval("signed")
        /\ UNCHANGED <<selected, visible, formVars, signingInProgress, rejectEnabled,
                       queue, loadVars, rejection, pick>>
    BY <1>2, Zenon DEF ApproveSigningSession
  <2>2. status' \in [Sessions -> {"unborn", "pending", "resolved"}]
    BY <1>2 DEF ApproveSigningSession
  <2> QED BY <2>1, <2>2
<1>3. CASE ApprovalFails
  BY <1>3 DEF ApprovalFails
<1>4. CASE ApprovalSucceeded
  BY <1>4 DEF ApprovalSucceeded
<1>5. CASE ApprovalHides
  BY <1>5 DEF ApprovalHides
<1>6. CASE ClickReject
  BY <1>6 DEF ClickReject
<1>7. CASE RejectSigningSession
  <2>1. /\ rejection' = At("rejected")
        /\ UNCHANGED <<selected, visible, formVars, signingInProgress, rejectEnabled,
                       queue, loadVars, approval, pick>>
    BY <1>7, Zenon DEF RejectSigningSession
  <2>2. status' \in [Sessions -> {"unborn", "pending", "resolved"}]
    BY <1>7 DEF RejectSigningSession
  <2> QED BY <2>1, <2>2
<1>8. CASE RejectionFails
  BY <1>8 DEF RejectionFails
<1>9. CASE RejectionSucceeded
  BY <1>9 DEF RejectionSucceeded
<1>10. CASE RejectionHides
  <2>1. /\ rejection' = At("idle") /\ visible' = FALSE
        /\ UNCHANGED <<status, selected, formVars, signingInProgress, rejectEnabled,
                       queue, pending, chosen, approval, pick>>
    BY <1>10, Zenon DEF RejectionHides
  <2>2. /\ stage' \in [Loaders -> {"idle", "listing", "listed", "selected", "loading"}]
        /\ \A l \in Loaders : stage'[l] = "selected" => stage[l] = "selected"
    BY <1>10 DEF RejectionHides
  <2>3. At("idle") \in [at : {"idle", "rejecting", "rejected", "hiding"}, session : OrNone]
    BY TaskTypes
  <2>4. pending' = pending /\ \A l \in Loaders : stage'[l] = "selected" => pending'[l] # {}
    BY <2>1, <2>2
  <2>5. rejection' \in [at : {"idle", "rejecting", "rejected", "hiding"}, session : OrNone]
    BY <2>1, <2>3
  <2>6. /\ status' = status /\ selected' = selected /\ visible' \in BOOLEAN
        /\ active' = active /\ pin' = pin /\ approveEnabled' = approveEnabled
    BY <2>1
  <2>7. TypeOK'
    BY <2>1, <2>2, <2>4, <2>5, <2>6
  <2> HIDE DEF TypeOK
  <2> QED BY <2>4, <2>7
<1> QED
  BY <1>1, <1>2, <1>3, <1>4, <1>5, <1>6, <1>7, <1>8, <1>9, <1>10
     DEF ApprovalStep, RejectionStep

\* So do the person and the sessions.
LEMMA PersonTypes ==
    ASSUME WindowTypes,
           \/ ClickQueue \/ PickArrives \/ TypePin \/ OpenSigningWindow
           \/ CloseSigningWindow
           \/ \E s \in Sessions : SessionArrives(s) \/ SessionEnds(s)
    PROVE  WindowTypes'
<1> USE TaskTypes DEF WindowTypes, TypeOK, tableVars, formVars, loadVars,
        UpdateApprovalState, OrNone
<1>1. CASE ClickQueue
  BY <1>1 DEF ClickQueue
<1>2. CASE PickArrives
  BY <1>2 DEF PickArrives, ShowSigningSession
<1>3. CASE TypePin
  BY <1>3 DEF TypePin
<1>4. CASE OpenSigningWindow
  BY <1>4 DEF OpenSigningWindow
<1>5. CASE CloseSigningWindow
  <2>1. /\ visible' = FALSE
        /\ UNCHANGED <<status, selected, formVars, signingInProgress, rejectEnabled,
                       queue, loadVars, approval, rejection, pick>>
    BY <1>5, Zenon DEF CloseSigningWindow
  <2>2. UNCHANGED <<formVars, loadVars>> /\ visible' \in BOOLEAN
    BY <2>1
  <2>3. UNCHANGED <<active, pin, approveEnabled, stage, pending, chosen>>
    BY <2>2
  <2>4. \A l \in Loaders : stage'[l] = "selected" => pending'[l] # {}
    BY <2>3
  <2>5. TypeOK'
    BY <2>1, <2>2, <2>3
  <2> HIDE DEF TypeOK
  <2> QED BY <2>4, <2>5
<1>6. ASSUME NEW s \in Sessions, SessionArrives(s) \/ SessionEnds(s)
      PROVE  WindowTypes'
  BY <1>6 DEF SessionArrives, SessionEnds
<1> QED BY <1>1, <1>2, <1>3, <1>4, <1>5, <1>6

\* Every state is one the window can display: what is shown, picked or decided
\* is always a session or none, and no task is ever left without the list it
\* chooses from.
THEOREM WindowTypeCorrect == Spec => []TypeOK
<1>1. Init => WindowTypes
  BY TaskTypes DEF Init, WindowTypes, TypeOK, OrNone
<1>2. WindowTypes /\ [Next]_vars => WindowTypes'
  <2>1. WindowTypes /\ UNCHANGED vars => WindowTypes'
    BY DEF WindowTypes, TypeOK, vars, tableVars, formVars, loadVars
  <2> QED BY <2>1, LoadTypes, DecisionTypes, PersonTypes DEF Next
<1>3. WindowTypes => TypeOK
  BY DEF WindowTypes
<1> QED BY <1>1, <1>2, <1>3, PTL DEF Spec
=============================================================================
