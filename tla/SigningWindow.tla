----------------------------- MODULE SigningWindow -----------------------------
(***************************************************************************)
(* The window "Solicitud de firma": windowMode "signing" of ui/app.js and  *)
(* the commands it invokes.                                                *)
(*                                                                         *)
(* JavaScript runs one task at a time, up to the next await.  A poll every *)
(* second, a click on approve or reject, the poll each of them ends with,  *)
(* and a click on the queue are so many tasks that interleave at their     *)
(* awaits and share the session displayed, the PIN field and the buttons.  *)
(* An invoke takes effect between its await and its return.  Whether the   *)
(* certificates are loaded, and so whether showing a session awaits, is    *)
(* left open.  The window is created when it is first shown: what its      *)
(* polls do here before that, nobody sees.                                 *)
(***************************************************************************)
EXTENDS Naturals, FiniteSets

CONSTANTS
    Sessions,  \* session ids, numbered as they were created
    None,      \* no session, null
    Empty      \* nothing typed

ASSUME SessionsAssumption == Sessions \subseteq Nat
ASSUME NamesAssumption == None # Empty /\ {None, Empty} \cap Sessions = {}

\* The tasks that run loadSessions: the interval's, and the end of a decision.
\* Bound: the next decision to come to its end waits for the last one's.
Loaders == {"interval", "decision"}

VARIABLES
    status,             \* of a session in the table
    selected,           \* DesktopState::selected_signing_session
    visible,            \* the window is shown
    active,             \* activeSigningSession, the one displayed
    pin,                \* the session displayed when the PIN was typed, or Empty
    signingInProgress,
    approveEnabled,     \* the two buttons
    rejectEnabled,
    queue,              \* the sessions with a button in the queue
    stage,              \* where each loader is
    pending,            \* the sessions a loader received
    chosen,             \* the selected session a loader received
    approval,           \* the approve task, the session and the PIN it captured
    rejection,          \* the reject task and its session
    pick                \* the queue button's task, its session and its queue

tableVars == <<status, selected, visible>>
formVars == <<active, pin, approveEnabled>>
loadVars == <<stage, pending, chosen>>
vars == <<tableVars, formVars, signingInProgress, rejectEnabled, queue,
          loadVars, approval, rejection, pick>>

OrNone == Sessions \cup {None}

TypeOK ==
    /\ status \in [Sessions -> {"unborn", "pending", "resolved"}]
    /\ selected \in OrNone
    /\ visible \in BOOLEAN
    /\ active \in OrNone
    /\ pin \in OrNone \cup {Empty}
    /\ signingInProgress \in BOOLEAN
    /\ approveEnabled \in BOOLEAN
    /\ rejectEnabled \in BOOLEAN
    /\ queue \subseteq Sessions
    /\ stage \in [Loaders -> {"idle", "listing", "listed", "selected", "loading"}]
    /\ pending \in [Loaders -> SUBSET Sessions]
    /\ chosen \in [Loaders -> OrNone]
    /\ approval \in [at : {"idle", "signing", "signed", "hiding"},
                     session : OrNone, pin : OrNone \cup {Empty}]
    /\ rejection \in [at : {"idle", "rejecting", "rejected", "hiding"},
                      session : OrNone]
    /\ pick \in [at : {"idle", "shown"}, session : OrNone,
                 drawn : SUBSET Sessions]

\* A task whose session is no longer used.
Approval(at) == [at |-> at, session |-> None, pin |-> None]
At(at) == [at |-> at, session |-> None]
NoPick == [at |-> "idle", session |-> None, drawn |-> {}]

\* bootstrap clears the form; its own loadSessions is like the interval's.
Init ==
    /\ status = [s \in Sessions |-> "unborn"]
    /\ selected = None
    /\ visible = FALSE
    /\ active = None
    /\ pin = Empty
    /\ signingInProgress = FALSE
    /\ approveEnabled = FALSE
    /\ rejectEnabled = TRUE
    /\ queue = {}
    /\ stage = [l \in Loaders |-> "idle"]
    /\ pending = [l \in Loaders |-> {}]
    /\ chosen = [l \in Loaders |-> None]
    /\ approval = Approval("idle")
    /\ rejection = At("idle")
    /\ pick = NoPick

-----------------------------------------------------------------------------
(* What the tasks share. *)

\* Wrong variant: the button only looks at the PIN.
ApprovalStateByPin(newPin, busy) == approveEnabled' = (newPin # Empty)

\* updateApprovalState.  An identity is always selected here.
UpdateApprovalState(newPin, busy) == approveEnabled' = (~busy /\ newPin # Empty)

\* Wrong variant: an empty field where the others test for null.
ClearSigningFormToEmpty ==
    /\ active' = Empty
    /\ pin' = Empty
    /\ UpdateApprovalState(Empty, signingInProgress)

\* clearSigningForm
ClearSigningForm ==
    /\ active' = None
    /\ pin' = Empty
    /\ UpdateApprovalState(Empty, signingInProgress)

\* Wrong variant: the PIN goes only after the certificates have been awaited.
ShowKeepingPin(s) ==
    /\ active' = s
    /\ UNCHANGED pin
    /\ UpdateApprovalState(pin', signingInProgress)

\* showSigningSession up to its await, which only happens without certificates.
ShowSigningSession(s) ==
    /\ active' = s
    /\ pin' = Empty
    /\ UpdateApprovalState(Empty, signingInProgress)

\* renderSigningSessionQueue: one session needs no queue.
Queue(sessions) == IF Cardinality(sessions) < 2 THEN {} ELSE sessions

\* pending[0] of a list sorted by created_at.
First(sessions) == CHOOSE s \in sessions : \A t \in sessions : s <= t

-----------------------------------------------------------------------------
(* loadSessions. *)

\* The interval skips a turn while its own last one is not over; a decision's
\* loader does not count.
ListSigningSessions(l) ==
    /\ stage[l] = IF l = "interval" THEN "idle" ELSE "listing"
    /\ stage' = [stage EXCEPT ![l] = "listed"]
    /\ pending' = [pending EXCEPT ![l] = {s \in Sessions : status[s] = "pending"}]
    /\ UNCHANGED <<tableVars, formVars, signingInProgress, rejectEnabled, queue,
                   chosen, approval, rejection, pick>>

\* What follows the loadSessions of a decision: the finally of
\* resolveSigningSession.
Finally(l, newPin) ==
    /\ stage' = [stage EXCEPT ![l] = "idle"]
    /\ pending' = [pending EXCEPT ![l] = {}]
    /\ chosen' = [chosen EXCEPT ![l] = None]
    /\ rejectEnabled' = (rejectEnabled \/ l # "interval")
    /\ IF l = "interval"
       THEN TRUE
       ELSE UpdateApprovalState(newPin, signingInProgress)

\* Wrong variant: without sessions only the queue is emptied.
ListArrivesKeepingForm(l) ==
    /\ stage[l] = "listed"
    /\ \/ /\ pending[l] = {}
          /\ UNCHANGED <<active, pin>>
          /\ queue' = {}
          /\ Finally(l, pin)
          /\ l = "interval" => UNCHANGED approveEnabled
       \/ /\ pending[l] # {}
          /\ stage' = [stage EXCEPT ![l] = "selected"]
          /\ chosen' = [chosen EXCEPT ![l] = selected]
          /\ UNCHANGED <<formVars, rejectEnabled, queue, pending>>
    /\ UNCHANGED <<tableVars, signingInProgress, approval, rejection, pick>>

\* Without sessions the form is cleared, else selected_signing_session is asked.
ListArrives(l) ==
    /\ stage[l] = "listed"
    /\ \/ /\ pending[l] = {}
          /\ ClearSigningForm
          /\ queue' = {}
          /\ Finally(l, Empty)
       \/ /\ pending[l] # {}
          /\ stage' = [stage EXCEPT ![l] = "selected"]
          /\ chosen' = [chosen EXCEPT ![l] = selected]
          /\ UNCHANGED <<formVars, rejectEnabled, queue, pending>>
    /\ UNCHANGED <<tableVars, signingInProgress, approval, rejection, pick>>

\* Wrong variant: what is displayed stays as long as it is pending.
NextSessionByDisplay(l) ==
    IF active \in pending[l] THEN active
    ELSE IF chosen[l] \in pending[l] THEN chosen[l] ELSE First(pending[l])

\* The session to display: the one selected, else the one displayed, else the
\* oldest, among those of the list, which may be an old one by now.
NextSession(l) ==
    IF chosen[l] \in pending[l] THEN chosen[l]
    ELSE IF active \in pending[l] THEN active ELSE First(pending[l])

SelectionArrives(l) ==
    /\ stage[l] = "selected"
    /\ \/ /\ active = NextSession(l)
          /\ UNCHANGED <<active, pin>>
          /\ queue' = Queue(pending[l])
          /\ Finally(l, pin)
          /\ l = "interval" => UNCHANGED approveEnabled
       \/ /\ active # NextSession(l)
          /\ ShowSigningSession(NextSession(l))
          /\ \/ queue' = Queue(pending[l]) /\ Finally(l, Empty)
             \/ /\ stage' = [stage EXCEPT ![l] = "loading"]
                /\ chosen' = [chosen EXCEPT ![l] = None]
                /\ UNCHANGED <<rejectEnabled, queue, pending>>
    /\ UNCHANGED <<tableVars, signingInProgress, approval, rejection, pick>>

\* The cached lists arrive, or after them a fresh reading, with or without
\* anything in it; the queue is drawn from the list the loader had.
CertificatesArrive(l) ==
    /\ stage[l] = "loading"
    /\ UNCHANGED <<active, pin>>
    /\ queue' = Queue(pending[l])
    /\ Finally(l, pin)
    /\ UpdateApprovalState(pin, signingInProgress)
    /\ UNCHANGED <<tableVars, signingInProgress, approval, rejection, pick>>

-----------------------------------------------------------------------------
(* The approve button: resolveSigningSession("approve", activeSigningSession). *)

ClickApprove ==
    /\ visible
    /\ approveEnabled
    /\ active # None
    /\ approval.at = "idle"
    /\ approval' = [at |-> "signing", session |-> active, pin |-> pin]
    /\ signingInProgress' = TRUE
    /\ approveEnabled' = FALSE
    /\ rejectEnabled' = FALSE
    /\ UNCHANGED <<tableVars, active, pin, queue, loadVars,
                   rejection, pick>>

\* approve_signing_session takes effect on a pending session only.
ApproveSigningSession ==
    LET s == approval.session IN
    /\ approval.at = "signing"
    /\ status[s] = "pending"
    /\ status' = [status EXCEPT ![s] = "resolved"]
    /\ approval' = Approval("signed")
    /\ UNCHANGED <<selected, visible, formVars, signingInProgress, rejectEnabled,
                   queue, loadVars, rejection, pick>>

\* It may fail for many reasons.  The catch and the finally: the PIN field is
\* emptied, whichever session it was typed for.
ApprovalFails ==
    /\ approval.at = "signing"
    /\ approval' = Approval("idle")
    /\ signingInProgress' = FALSE
    /\ pin' = Empty
    /\ UpdateApprovalState(Empty, FALSE)
    /\ rejectEnabled' = TRUE
    /\ UNCHANGED <<tableVars, active, queue, loadVars, rejection, pick>>

\* rememberLastSigningIdentity fills the identity list again, whether or not the
\* preference could be saved; then the form is cleared, whatever it shows.
ApprovalSucceeded ==
    /\ approval.at = "signed"
    /\ approval' = Approval("hiding")
    /\ ClearSigningForm
    /\ UNCHANGED <<tableVars, signingInProgress, rejectEnabled, queue,
                   loadVars, rejection, pick>>

\* hide_signing_window, and the loadSessions after it.
ApprovalHides ==
    /\ approval.at = "hiding"
    /\ stage["decision"] = "idle"
    /\ approval' = Approval("idle")
    /\ visible' = FALSE
    /\ signingInProgress' = FALSE
    /\ stage' = [stage EXCEPT !["decision"] = "listing"]
    /\ UNCHANGED <<status, selected, formVars, rejectEnabled, queue,
                   pending, chosen, rejection, pick>>

-----------------------------------------------------------------------------
(* The reject button.  signingInProgress does not know of it: a PIN typed, or *)
(* another session shown, enables the approve button again. *)

\* Bound: one rejection at a time.
ClickReject ==
    /\ visible
    /\ rejectEnabled
    /\ active # None
    /\ rejection.at = "idle"
    /\ rejection' = [at |-> "rejecting", session |-> active]
    /\ approveEnabled' = FALSE
    /\ rejectEnabled' = FALSE
    /\ UNCHANGED <<tableVars, active, pin, signingInProgress, queue,
                   loadVars, approval, pick>>

RejectSigningSession ==
    LET s == rejection.session IN
    /\ rejection.at = "rejecting"
    /\ status[s] = "pending"
    /\ status' = [status EXCEPT ![s] = "resolved"]
    /\ rejection' = At("rejected")
    /\ UNCHANGED <<selected, visible, formVars, signingInProgress, rejectEnabled,
                   queue, loadVars, approval, pick>>

\* The session is over: run() shows the error after the finally.
RejectionFails ==
    /\ rejection.at = "rejecting"
    /\ status[rejection.session] # "pending"
    /\ rejection' = At("idle")
    /\ rejectEnabled' = TRUE
    /\ UpdateApprovalState(pin, signingInProgress)
    /\ UNCHANGED <<tableVars, active, pin, signingInProgress, queue, loadVars,
                   approval, pick>>

RejectionSucceeded ==
    /\ rejection.at = "rejected"
    /\ rejection' = At("hiding")
    /\ ClearSigningForm
    /\ UNCHANGED <<tableVars, signingInProgress, rejectEnabled, queue,
                   loadVars, approval, pick>>

RejectionHides ==
    /\ rejection.at = "hiding"
    /\ stage["decision"] = "idle"
    /\ rejection' = At("idle")
    /\ visible' = FALSE
    /\ stage' = [stage EXCEPT !["decision"] = "listing"]
    /\ UNCHANGED <<status, selected, formVars, signingInProgress, rejectEnabled,
                   queue, pending, chosen, approval, pick>>

-----------------------------------------------------------------------------
(* The queue button: show_signing_window, then the session as it was when the *)
(* queue was drawn. *)

ClickQueue ==
    /\ visible
    /\ pick.at = "idle"
    /\ \E s \in queue : /\ pick' = [at |-> "shown", session |-> s, drawn |-> queue]
                       /\ selected' = s
    /\ UNCHANGED <<status, visible, formVars, signingInProgress, rejectEnabled,
                   queue, loadVars, approval, rejection>>

\* What follows the await for the certificates here, updateApprovalState, adds
\* nothing to what the form shows then.
PickArrives ==
    /\ pick.at = "shown"
    /\ ShowSigningSession(pick.session)
    /\ queue' = pick.drawn
    /\ pick' = NoPick
    /\ UNCHANGED <<tableVars, signingInProgress, rejectEnabled, loadVars,
                   approval, rejection>>

-----------------------------------------------------------------------------
(* The person, the main window and the requests. *)

TypePin ==
    /\ visible
    /\ pin' = active
    /\ UpdateApprovalState(active, signingInProgress)
    /\ UNCHANGED <<tableVars, active, signingInProgress, rejectEnabled, queue,
                   loadVars, approval, rejection, pick>>

\* "Revisar y firmar" in the main window selects; the tray's entry only shows.
OpenSigningWindow ==
    /\ \/ \E s \in Sessions : status[s] # "unborn" /\ selected' = s
       \/ UNCHANGED selected
    /\ visible' = TRUE
    /\ UNCHANGED <<status, formVars, signingInProgress, rejectEnabled, queue,
                   loadVars, approval, rejection, pick>>

CloseSigningWindow ==
    /\ visible
    /\ visible' = FALSE
    /\ UNCHANGED <<status, selected, formVars, signingInProgress, rejectEnabled,
                   queue, loadVars, approval, rejection, pick>>

\* External: a POST /sign parks a session; it expires or is decided elsewhere.
SessionArrives(s) ==
    /\ status[s] = "unborn"
    /\ \A t \in Sessions : t < s => status[t] # "unborn"
    /\ status' = [status EXCEPT ![s] = "pending"]
    /\ UNCHANGED <<selected, visible, formVars, signingInProgress, rejectEnabled,
                   queue, loadVars, approval, rejection, pick>>

SessionEnds(s) ==
    /\ status[s] = "pending"
    /\ status' = [status EXCEPT ![s] = "resolved"]
    /\ UNCHANGED <<selected, visible, formVars, signingInProgress, rejectEnabled,
                   queue, loadVars, approval, rejection, pick>>

LoadStep(l) ==
    \/ ListSigningSessions(l)
    \/ ListArrives(l)
    \/ SelectionArrives(l)
    \/ CertificatesArrive(l)

RejectionStep ==
    \/ ClickReject
    \/ RejectSigningSession
    \/ RejectionFails
    \/ RejectionSucceeded
    \/ RejectionHides

ApprovalStep ==
    \/ ClickApprove
    \/ ApproveSigningSession
    \/ ApprovalFails
    \/ ApprovalSucceeded
    \/ ApprovalHides

Next ==
    \/ \E l \in Loaders : LoadStep(l)
    \/ ApprovalStep
    \/ RejectionStep
    \/ ClickQueue
    \/ PickArrives
    \/ TypePin
    \/ OpenSigningWindow
    \/ CloseSigningWindow
    \/ \E s \in Sessions : SessionArrives(s) \/ SessionEnds(s)

\* The interval fires every second, commands other than the approval return and
\* a task whose await is over runs.  Nothing is assumed of the person, of the
\* sessions, or of the token behind an approval.
Spec ==
    /\ Init
    /\ [][Next]_vars
    /\ \A l \in Loaders : WF_vars(LoadStep(l))

-----------------------------------------------------------------------------
(* Properties. *)

\* An approval carries the PIN that was typed while its own session was on
\* display: a poll, a pick or an older task that changes the display between
\* two awaits never lets a PIN sign documents its owner was not looking at.
PinIsForTheSessionShown ==
    approval.pin = approval.session

\* README.md:460-464: the button is disabled while the operation completes.  No
\* event between the click and the end of the approval enables it again, so one
\* window never presents a PIN twice at a time.
OneApprovalAtATime ==
    approval.at # "idle" => ~approveEnabled

\* README.md:743-744: "La interfaz Tauri detecta la sesion pendiente y abre la
\* ventana independiente".  The polls of both windows only draw the session.
RequestOpensWindow ==
    \A s \in Sessions : status[s] = "pending" ~> visible \/ status[s] # "pending"

\* A session the person picked is displayed in the end, whatever the polls that
\* were under way show in between, unless it is over or another one is picked.
SelectionIsShown ==
    \A s \in Sessions :
        selected = s /\ status[s] = "pending" ~>
            active = s \/ selected # s \/ status[s] # "pending"

\* A session that is over does not stay on display, although a poll with an old
\* list or an old queue button may bring it back.
Outdated == active # None /\ status[active] = "resolved"

EndedSessionLeaves == Outdated ~> ~Outdated
=============================================================================
