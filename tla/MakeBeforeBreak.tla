--------------------------- MODULE MakeBeforeBreak ---------------------------
(***************************************************************************)
(* What the migration protocol promises, without phases, calls or tables:  *)
(* operators live on tiers, at most one move of an operator is under way,  *)
(* a move adds the operator to its target before it takes it from its      *)
(* source, and it may be abandoned at any point.  An abandoned move may    *)
(* leave the operator on both sides.                                       *)
(***************************************************************************)
CONSTANTS Op, Tier

VARIABLES
  hosts,   (* the tiers that run an operator                               *)
  move     (* the move of an operator under way: source, target and stage  *)

hvars == <<hosts, move>>

Still    == [stage |-> "still"]
Move     == [stage : {"copying", "copied", "settled"}, src : Tier, dst : Tier]
At(o, s) == move[o].stage = s

HandoverInit ==
  /\ hosts \in [Op -> {{t} : t \in Tier}]
  /\ move = [o \in Op |-> Still]

Begin(o, s, d) ==
  /\ At(o, "still") /\ s # d
  /\ move' = [move EXCEPT ![o] = [stage |-> "copying", src |-> s, dst |-> d]]
  /\ UNCHANGED hosts

Copy(o) ==
  /\ At(o, "copying")
  /\ hosts' = [hosts EXCEPT ![o] = @ \union {move[o].dst}]
  /\ move' = [move EXCEPT ![o].stage = "copied"]

\* The source has been asked to stop: it did, or it answered that it could not.
Settle(o) ==
  /\ At(o, "copied")
  /\ \/ hosts' = [hosts EXCEPT ![o] = @ \ {move[o].src}]
     \/ UNCHANGED hosts
  /\ move' = [move EXCEPT ![o].stage = "settled"]

\* Moves end, successfully or not; a crash ends all of them at once.
Finish(S) ==
  /\ \A o \in S : ~At(o, "still")
  /\ move' = [o \in Op |-> IF o \in S THEN Still ELSE move[o]]
  /\ UNCHANGED hosts

HandoverNext ==
  \/ \E o \in Op, s, d \in Tier : Begin(o, s, d)
  \/ \E o \in Op : Copy(o) \/ Settle(o)
  \/ \E S \in SUBSET Op : Finish(S)

HandoverSpec == HandoverInit /\ [][HandoverNext]_hvars
=============================================================================
