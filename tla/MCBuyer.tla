------------------------------ MODULE MCBuyer ------------------------------
(* Instances of WebCheckout, AdminConsole and Notification for TLC: the     *)
(* browsers of buyers and of organizers, and the messages that follow.      *)
(* They share no state: a behaviour is one of any of them, not of their     *)
(* product.                                                                 *)
EXTENDS WebCheckout, AdminConsole, Notification, TLC

CONSTANTS
  Ann, Bob, o1, o2, p1, p2, f1, f2, vnpay, mock, m1, b1, b2,
  Subject        \* the modules that a behaviour may be of

Buyers == [o \in Order |-> IF o = o1 THEN Ann ELSE Bob]

VARIABLE subject

BuyerInit ==
  /\ subject \in Subject
  /\ WebInit /\ ConsoleInit /\ NotificationInit

BuyerNext ==
  /\ \/ subject = "checkout form" /\ WebNext /\ UNCHANGED <<consoleVars, notificationVars>>
     \/ subject = "concert form" /\ FormNext /\ UNCHANGED <<webVars, notificationVars>>
     \/ subject = "panel" /\ PanelNext /\ UNCHANGED <<webVars, notificationVars>>
     \/ subject = "messages" /\ NotificationNext /\ UNCHANGED <<webVars, consoleVars>>
  /\ UNCHANGED subject

\* The fairness is that of messages; behaviours of the browsers have no
\* liveness property.
BuyerSpec ==
  /\ BuyerInit
  /\ [][BuyerNext]_<<subject, webVars, consoleVars, notificationVars>>
  /\ NotificationFairness
=============================================================================
