---------------------------- MODULE MCFlakyTriage ----------------------------
(* Finite instances of FlakyTriage.                                          *)
EXTENDS FlakyTriage, TLC

CONSTANTS retry, refund, login, payments, accounts, load, loadA, loadB

\* Two tests of one suite and one of another.
SuiteOf == (retry :> payments) @@ (refund :> payments) @@ (login :> accounts)

\* loadA and loadB are equally close to load, at 3/5, which is just enough for
\* a reuse across the suite; with each other they share 3/7, which is too
\* little for any.
TokensOf ==
    [k \in AnyKey |->
       CASE k = load -> 1 .. 3
         [] k = loadA -> 1 .. 5
         [] k = loadB -> (1 .. 3) \cup {6, 7}
         [] k = Pending -> {0}]

NameKeys == [t \in Tests |-> load]

\* The similarities do not tell loadA from loadB, nor the suites retry from
\* refund.
Symmetry ==
    Permutations(Workers) \cup Permutations({loadA, loadB})
        \cup Permutations({retry, refund})
=============================================================================
