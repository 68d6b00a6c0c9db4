---------------------------- MODULE PaymentDomain ----------------------------
(* The state policy of one payment attempt (backend/app/payments/domain.py): *)
(* canonical statuses, the raw trade states of the provider, and the one     *)
(* function that decides what an observation may do to a local status.       *)

Statuses == {"created", "pending", "succeeded", "closed", "failed"}

\* A partial unique index and _validate_new_attempt treat these two as "active".
Active == {"created", "pending"}

TradeStates == {"NOTPAY", "SUCCESS", "CLOSED", "PAYERROR", "REFUND"}

\* REFUND proves an earlier payment.
PaidStates == {"SUCCESS", "REFUND"}

AllowedTransitions ==
    [ created   |-> {"pending", "succeeded", "closed", "failed"},
      pending   |-> {"succeeded", "closed", "failed"},
      closed    |-> {"succeeded"},
      failed    |-> {"succeeded"},
      succeeded |-> {} ]

StatusFor(tradeState) ==
    CASE tradeState = "NOTPAY"     -> "pending"
      [] tradeState \in PaidStates -> "succeeded"
      [] tradeState = "CLOSED"     -> "closed"
      [] tradeState = "PAYERROR"   -> "failed"

\* Mutant: the last observation always wins.
DecideLastWins(current, target, authoritative) ==
    IF current = target THEN "noop" ELSE "apply"

\* Mutant: local terminal states are final even for the provider.
DecideNoLateSuccess(current, target, authoritative) ==
    IF current = target THEN "noop"
    ELSE IF current \in Active /\ target \in AllowedTransitions[current]
         THEN "apply" ELSE "ignore"

(* "apply" the target, treat it as the state already held, or "ignore" it.   *)
(* Only the provider can say that money moved.                               *)
DecideTransition(current, target, authoritative) ==
    IF current = target THEN "noop"
    ELSE IF /\ target \in AllowedTransitions[current]
            /\ target = "succeeded" => authoritative
         THEN "apply" ELSE "ignore"

=============================================================================
