------------------------------ MODULE MCProvider ------------------------------
(* Instances of ProviderGuard and VnpayResults for TLC: calls of the payment *)
(* provider, and the results that come from it.  They share no state: a     *)
(* behaviour is one of either, not of their product.                        *)
EXTENDS ProviderGuard, VnpayResults

CONSTANTS
  c1, c2, c3, c4, h1, h2,
  Subject        \* the modules that a behaviour may be of

NoPaymentYet == {<<"91", "">>}

VARIABLE subject

ProviderInit == subject \in Subject /\ GuardInit /\ VnpayInit

ProviderNext ==
  /\ \/ subject = "calls" /\ GuardNext /\ UNCHANGED vnpayVars
     \/ subject = "results" /\ VnpayNext /\ UNCHANGED guardVars
  /\ UNCHANGED subject

\* The fairness of the calls binds their own behaviours; that of the results
\* asks for nothing in their initial state.
ProviderSpec ==
  /\ ProviderInit
  /\ [][ProviderNext]_<<subject, guardVars, vnpayVars>>
  /\ subject = "calls" => GuardFairness
  /\ VnpayFairness
=============================================================================
