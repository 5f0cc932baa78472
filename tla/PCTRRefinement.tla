--------------------------- MODULE PCTRRefinement ---------------------------
(* The migrations of PCTR as moves of MakeBeforeBreak: a move is the entry  *)
(* of an operator in the table of active migrations, its stage what the     *)
(* servers have done for that migration so far.                             *)
EXTENDS PCTR

Stage(phase, answer) ==
  CASE phase = "terminate" /\ answer # "none" -> "settled"
    [] \/ phase = "terminate" /\ answer = "none"
       \/ phase = "restore" /\ answer # "none" -> "copied"
    [] OTHER -> "copying"

MoveOf(o) ==
  IF active[o] = NoMig THEN [stage |-> "still"]
  ELSE [stage |-> Stage(pc[active[o]], reply[active[o]]),
        src   |-> job[active[o]].src,
        dst   |-> job[active[o]].dst]

Handover == INSTANCE MakeBeforeBreak
              WITH hosts <- running, move <- [o \in Op |-> MoveOf(o)]

\* With targets that report a restore only when they run the operator, and
\* servers that never execute an abandoned request, the four phases implement
\* make-before-break: no schedule of calls, failures, timeouts and restarts
\* takes an operator from its source before its target runs it.
ImplementsHandover == Handover!HandoverSpec
=============================================================================
