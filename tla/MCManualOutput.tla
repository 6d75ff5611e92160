---------------------------- MODULE MCManualOutput ----------------------------
(***************************************************************************)
(* A finite instance of ManualOutput for TLC: a PDF signed before, and     *)
(* names that collide, with a counter of their own too.                    *)
(***************************************************************************)
EXTENDS ManualOutput, TLC

Plain == <<Text(<<"page">>)>>
SignedBefore == SignedPdf(Plain)

File(stem, counters, source) ==
    [stem |-> stem, counters |-> counters, source |-> source]

MCBatches == {
    [jws |-> <<>>, pdf |-> <<File("a", <<>>, SignedBefore)>>],
    [jws |-> <<File("a", <<>>, <<>>)>>,
     pdf |-> <<File("a", <<>>, Plain), File("a", <<1>>, SignedBefore),
               File("a", <<>>, Plain)>>] }

MCZipName == [stem |-> "firmados", counters |-> <<>>, format |-> "zip"]

\* The names the runs save under first and second.
MCOtherNames ==
    {Numbered(n, i) : n \in {MCZipName, [stem |-> "a", counters |-> <<>>, format |-> "pdf"]},
                      i \in 0..1}

\* Runs are interchangeable.
Symmetry == Permutations(Runs)
=============================================================================
