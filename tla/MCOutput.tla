------------------------------- MODULE MCOutput -------------------------------
(***************************************************************************)
(* Output for TLC, and with it, for their ends, the turns that give a      *)
(* reply its events: turning says that they run, and not Output.           *)
(***************************************************************************)
EXTENDS Output

VARIABLES turning, turnLoad, reg, proc, turn, super, next, btw, turnLeft, grants, allowAllTold

turnVars == <<turnLoad, reg, proc, turn, super, next, btw, turnLeft, grants, allowAllTold>>
mcVars == <<vars, turning, turnVars>>

\* On a process that may end by itself: three inputs and answers; two of any kind, in super mode;
\* and /btw between two inputs, with a turn that may be cancelled.
TurnLoads ==
  {[kinds |-> {"text", "allow"}, supers |-> {FALSE}, msgs |-> 3, questions |-> 1,
    cancels |-> 0, injects |-> 0, exits |-> 1],
   [kinds |-> {"text", "allow", "allowAll", "deny"}, supers |-> {TRUE}, msgs |-> 2,
    questions |-> 1, cancels |-> 0, injects |-> 0, exits |-> 1],
   [kinds |-> {"text", "btw"}, supers |-> {FALSE}, msgs |-> 3, questions |-> 0,
    cancels |-> 1, injects |-> 0, exits |-> 1]}

Turns == INSTANCE InteractiveTurn WITH
  Msgs <- 3, Procs <- 3, Loads <- TurnLoads,
  load <- turnLoad, left <- turnLeft, told <- allowAllTold

ASSUME Turns!ConstantsAssumption

\* Of Output a part that does nothing by itself stands still meanwhile.
MCInit ==
  /\ turning \in BOOLEAN
  /\ Init /\ (turning => part = "one")
  /\ Turns!Init /\ (~turning => super = FALSE)

MCNext ==
  \/ ~turning /\ Next /\ UNCHANGED <<turning, turnVars>>
  \/ turning /\ Turns!Next /\ UNCHANGED <<vars, turning>>

MCSpec == MCInit /\ [][MCNext]_mcVars /\ Fairness /\ Turns!Fairness

\* Every turn ends that no lost request holds up, and what Output does is brought to its end.
GoesOn == Turns!TurnEnds /\ Completes
=============================================================================
