--------------------------- MODULE ConfigRegister ---------------------------
(***************************************************************************)
(* What the configuration promises to those who update it, without file or *)
(* steps: a register that outlives the program, read as a snapshot and     *)
(* written as a whole.  An update plans a configuration from the one in    *)
(* force when it began; that plan is put in force in one step or has no    *)
(* effect, and the end of the program is no exception.  Plans may be out   *)
(* of date: nothing is promised to two updates about each other.  Only a   *)
(* save that was cut short, or two that met, may cost the settings, and    *)
(* then at the end of the program, never before.                           *)
(***************************************************************************)
CONSTANTS
    Writers,
    Fields,
    Settings,        \* what a request may send: values of some fields
    Configurations   \* what may be configured

VARIABLES
    value,    \* the configuration in force, or the one the next start brings
    plan,     \* the configuration each writer is about to put in force, if any
    damaged   \* what the next start brings may not be value

vars == <<value, plan, damaged>>

Overlay(config, settings) ==
    [f \in Fields |-> IF f \in DOMAIN settings THEN settings[f] ELSE config[f]]

NoPlans == [w \in Writers |-> {}]

Init ==
    /\ value \in Configurations
    /\ plan = NoPlans
    /\ damaged = FALSE

\* A plan starts from the configuration in force, perhaps with no setting
\* changed yet,
Ask(w) ==
    /\ plan[w] = {}
    /\ \E settings \in Settings :
        plan' = [plan EXCEPT ![w] = {Overlay(value, settings)}]
    /\ UNCHANGED <<value, damaged>>

\* and may be changed further before it is put in force.
Revise(w) ==
    /\ \E config \in plan[w], settings \in Settings :
        plan' = [plan EXCEPT ![w] = {Overlay(config, settings)}]
    /\ UNCHANGED <<value, damaged>>

Grant(w) ==
    /\ value' \in plan[w]
    /\ plan' = [plan EXCEPT ![w] = {}]
    /\ UNCHANGED damaged

\* An error is no effect, but may have spoilt the file.
Refuse(w) ==
    /\ plan[w] # {}
    /\ plan' = [plan EXCEPT ![w] = {}]
    /\ damaged' \in {damaged, TRUE}
    /\ UNCHANGED value

\* Two updates that save at once may leave the file to either.
Clash ==
    /\ \E v, w \in Writers : v # w /\ plan[v] # {} /\ plan[w] # {}
    /\ damaged' = TRUE
    /\ UNCHANGED <<value, plan>>

Repair ==
    /\ damaged' = FALSE
    /\ UNCHANGED <<value, plan>>

\* The program ends: of the updates under way one has its effect or none has.
End ==
    /\ plan' = NoPlans
    /\ \/ /\ ~damaged /\ ~damaged'
          /\ value' \in {value} \cup UNION {plan[w] : w \in Writers}
       \/ damaged' /\ value' \in Configurations

Next ==
    \/ \E w \in Writers : Ask(w) \/ Revise(w) \/ Grant(w) \/ Refuse(w)
    \/ Clash \/ Repair \/ End

Spec == Init /\ [][Next]_vars
=============================================================================
