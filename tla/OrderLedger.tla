------------------------------ MODULE OrderLedger ------------------------------
(***************************************************************************)
(* What the owner of an order manager may rely on, without the manager's   *)
(* tables of answers, subscribers and cancellations: an order is known     *)
(* from the moment it is sent until it is forgotten, once, and each lot of *)
(* it that the exchange executes is in the end either filled in the order, *)
(* while it is known, or reported as unsolicited, never both.              *)
(***************************************************************************)
EXTENDS Integers

CONSTANTS
  Guids,      \* of the orders
  MaxVolume   \* the largest volume of an order, in lots

VARIABLES
  sent,      \* orders sent so far
  known,     \* orders the manager has an entry for
  open,      \* lots of each order the exchange still works
  executed,  \* lots executed
  filled,    \* lots counted in the order
  reported   \* lots reported as unsolicited

ledgerVars == <<sent, known, open, executed, filled, reported>>

Nothing == [g \in Guids |-> 0]

Init ==
  /\ sent = {} /\ known = {}
  /\ open = Nothing /\ executed = Nothing /\ filled = Nothing /\ reported = Nothing

Underway(g) == executed[g] - filled[g] - reported[g]

Send(g, n) ==
  /\ g \notin sent
  /\ sent' = sent \cup {g} /\ known' = known \cup {g}
  /\ open' = [open EXCEPT ![g] = n]
  /\ UNCHANGED <<executed, filled, reported>>

Execute(g, n) ==
  /\ open' = [open EXCEPT ![g] = @ - n]
  /\ executed' = [executed EXCEPT ![g] = @ + n]
  /\ UNCHANGED <<sent, known, filled, reported>>

Withdraw(g) ==
  /\ open[g] > 0
  /\ open' = [open EXCEPT ![g] = 0]
  /\ UNCHANGED <<sent, known, executed, filled, reported>>

Forget(g) ==
  /\ g \in known
  /\ known' = known \ {g}
  /\ UNCHANGED <<sent, open, executed, filled, reported>>

(* The lots that complete an order may make the manager forget it. *)
Fill(g, n) ==
  /\ g \in known
  /\ filled' = [filled EXCEPT ![g] = @ + n]
  /\ known' \in {known, known \ {g}}
  /\ UNCHANGED <<sent, open, executed, reported>>

Report(g, n) ==
  /\ g \notin known
  /\ reported' = [reported EXCEPT ![g] = @ + n]
  /\ UNCHANGED <<sent, known, open, executed, filled>>

Settle(g) == \E n \in 1 .. Underway(g) : Fill(g, n) \/ Report(g, n)

Next ==
  \E g \in Guids :
    \/ \E n \in 1 .. MaxVolume : Send(g, n)
    \/ \E n \in 1 .. open[g] : Execute(g, n)
    \/ Withdraw(g)
    \/ Forget(g)
    \/ Settle(g)

(* What is executed is settled in the end. *)
Fairness == \A g \in Guids : WF_ledgerVars(Settle(g))

Spec     == Init /\ [][Next]_ledgerVars
FairSpec == Spec /\ Fairness
=============================================================================
