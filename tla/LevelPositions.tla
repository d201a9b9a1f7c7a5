---------------------------- MODULE LevelPositions ----------------------------
(***************************************************************************)
(* What a grid promises: each price level trades one lot for itself, as if *)
(* there were no other level.  A level that holds nothing may be entered,  *)
(* bought below the centre of the grid and sold above it; a price may      *)
(* close any of the levels that hold a lot, each once; and the position of *)
(* the account moves by what the levels take and give back.                *)
(***************************************************************************)
EXTENDS Integers

CONSTANTS Lowest, Highest   \* of the price levels

VARIABLES
  held,      \* the signed lot of each level, or 0
  position   \* of the account

levelVars == <<held, position>>

Levels == Lowest .. Highest

Side(l) == IF l < 0 THEN 1 ELSE -1

(* What the levels hold together *)
Lots(h) ==
  LET lots[l \in Lowest - 1 .. Highest] == IF l < Lowest THEN 0 ELSE lots[l - 1] + h[l]
  IN lots[Highest]

Init == held = [l \in Levels |-> 0] /\ position = 0

Enter(l) ==
  /\ l # 0 /\ held[l] = 0
  /\ held' = [held EXCEPT ![l] = Side(l)]

Close(closed) == held' = [l \in Levels |-> IF l \in closed THEN 0 ELSE held[l]]

Next ==
  /\ \/ \E l \in Levels : Enter(l)
     \/ \E closed \in SUBSET {l \in Levels : held[l] # 0} : Close(closed)
  /\ position' = position + Lots(held') - Lots(held)

Spec == Init /\ [][Next]_levelVars
=============================================================================
