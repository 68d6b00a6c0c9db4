-------------------------- MODULE PaymentsRefinement --------------------------
(* Payments implements PaymentLifecycle: what the request threads, row locks, *)
(* constraints and provider calls of the service do together is, at every     *)
(* commit, one step of the promised life of an order's attempts.              *)
EXTENDS Payments

Lifecycle ==
    INSTANCE PaymentLifecycle WITH
        status  <- [a \in Attempts |-> attempts[a].status],
        request <- [a \in Attempts |-> attempts[a].req],
        flagged <- {a \in Attempts : attempts[a].review # "none"}

\* Every commit of a call, whatever it raced with, crashed into or was told by
\* the provider, is a step of the abstract life cycle or leaves it unchanged.
ImplementsLifecycle == Lifecycle!Spec

=============================================================================
