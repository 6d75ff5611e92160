---------------------------- MODULE MCSigningCore ----------------------------
(***************************************************************************)
(* Finite instances of SigningCore for TLC.                                *)
(***************************************************************************)
EXTENDS SigningCore, TLC

CONSTANTS t1, t2, l1, l2

File1(n, f, v) == [name |-> n, format |-> f, valid |-> v]
Ask(k, fs) == [kind |-> k, files |-> fs]

\* One call of each kind; documents good and bad, first and second.
MCRequests ==
    LET json(n) == File1(n, "json", TRUE)
        pdf(n) == File1(n, "pdf", TRUE)
        broken(n) == File1(n, "pdf", FALSE)
    IN  { Ask("hash", <<File1(1, "hash", TRUE)>>),
          Ask("jws", <<json(1), json(2)>>),
          Ask("pdf", <<pdf(1), broken(2)>>),
          Ask("batch", <<pdf(1), json(2)>>),
          Ask("batch", <<broken(1)>>) }

\* l1 is in a known location and recognises both tokens, l2 is in the home
\* directory and recognises one.
MCRank == (l1 :> 1) @@ (l2 :> 2)
MCSupports == (l1 :> Tokens) @@ (l2 :> {t1})

\* Two tokens with one factory PIN.
MCPinOf == [t \in Tokens |-> "pin"]

MCOwnIds == [t \in Tokens |-> t]
=============================================================================
