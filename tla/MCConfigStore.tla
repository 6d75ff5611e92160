---------------------------- MODULE MCConfigStore ----------------------------
(***************************************************************************)
(* Finite instances of ConfigStore for TLC: the three settings the         *)
(* migrations look at, and requests that change one of them to and fro,    *)
(* two at once, or ask for a value validate() refuses.                     *)
(***************************************************************************)
EXTENDS ConfigStore, TLC

MCDefault == [f \in Fields |-> "default"]

MCRequests ==
    {"port" :> "default", "port" :> "old", "port" :> "bad",
     "https" :> "old" @@ "pin_env" :> "old"}

\* No file, one written before https existed and at the old port, which may be
\* the former program's with its PIN variable, and one edited by hand into an
\* invalid port.
MCOriginals ==
    {Absent, Toml("port" :> "old" @@ "pin_env" :> "old"),
     Toml("https" :> "old" @@ "port" :> "bad")}

\* A program that has been configured before.
MCSettled == {Toml("https" :> "old" @@ "port" :> "old")}

Symmetry == Permutations(Writers)
=============================================================================
