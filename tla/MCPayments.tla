------------------------------ MODULE MCPayments ------------------------------
(* Small instances of Payments for TLC.                                       *)
EXTENDS PaymentsRefinement, TLC

CONSTANTS k1, k2, o1, o2

Request(key, order, terms, description) ==
    [key |-> key, order |-> order, terms |-> terms, description |-> description]

\* Two requests for one order: a first attempt and its retry, or two rivals.
OneOrder == {Request(k1, o1, 1, "first"), Request(k2, o1, 1, "again")}

\* Two orders, one request each.
TwoOrders == {Request(k1, o1, 1, "first"), Request(k2, o2, 1, "first")}

\* One key used for different requests: for another amount, with another text.
ReusedKey == {Request(k1, o1, 1, "first"), Request(k1, o1, 2, "first"), Request(k1, o1, 1, "again")}

\* The end states of the provider are final.
FinalMoves == {<<"NOTPAY", "SUCCESS">>, <<"NOTPAY", "CLOSED">>, <<"NOTPAY", "PAYERROR">>,
               <<"SUCCESS", "REFUND">>}

\* Late truth: what was closed or failed turns out to be paid.
LateMoves == FinalMoves \cup {<<"CLOSED", "SUCCESS">>, <<"PAYERROR", "SUCCESS">>}

\* Payment and closing in any order (a failed order behaves like a closed one),
\* with the control endpoint turning a paid order into a closed one.
RaceMoves == {<<"NOTPAY", "SUCCESS">>, <<"NOTPAY", "CLOSED">>, <<"CLOSED", "SUCCESS">>,
              <<"SUCCESS", "CLOSED">>}

\* Payment, and nothing else, happens at the provider.
PayMoves == {<<"NOTPAY", "SUCCESS">>}

Symmetry == Permutations(Procs) \cup Permutations(Attempts)
=============================================================================
