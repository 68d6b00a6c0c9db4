------------------------------ MODULE MiniShop ------------------------------
(* The Mini Program's shop: sessions, commerce and the shop's page run on the *)
(* same request threads, customers and clock.                                *)
EXTENDS ShopCommerce, ShopStore

vars == <<sessionVars, commerceVars, storeVars, now, calls, left>>

Init == SessionsInit /\ CommerceInit /\ StoreInit

Tick ==
    /\ now < MaxTime
    /\ now' = now + 1
    /\ UNCHANGED <<sessionVars, commerceVars, storeVars, calls, left>>

\* Bound: no request is left to be made.
Done ==
    /\ left = 0
    /\ \A p \in Procs : At(p, "idle")
    /\ UNCHANGED vars

Next ==
    \/ \E p \in Procs : SessionsStep(p) /\ UNCHANGED <<commerceVars, storeVars>>
    \/ \E p \in Procs : CommerceStep(p) /\ UNCHANGED storeVars
    \/ \E p \in Procs : StoreStep(p) /\ UNCHANGED commerceVars
    \/ Tick
    \/ Done

Spec == Init /\ [][Next]_vars

TypeOK == SessionsTypeOK /\ CommerceTypeOK /\ StoreTypeOK
=============================================================================
