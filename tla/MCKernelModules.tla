--------------------------- MODULE MCKernelModules ---------------------------
(***************************************************************************)
(* One run for the modules of the kernel: BottomHalf or VfsModule is       *)
(* loaded, not both.  They share nothing, so that the other one rests in   *)
(* its initial state, one of them when there are several.                  *)
(***************************************************************************)
EXTENDS BottomHalf, VfsModule

VARIABLE loaded   (* which of the two this behaviour is about              *)

MCInit ==
  /\ loaded \in {"irq", "vfs"}
  /\ IrqInit /\ Init
  /\ loaded = "vfs" => kind = "tasklet"

MCNext ==
  \/ loaded = "irq" /\ IrqNext /\ UNCHANGED <<vars, loaded>>
  \/ loaded = "vfs" /\ Next /\ UNCHANGED <<irqVars, loaded>>

(* As IrqSpec and Spec say: only BottomHalf has fairness.                  *)
MCSpec ==
  /\ MCInit /\ [][MCNext]_<<irqVars, vars, loaded>>
  /\ WF_irqVars(loaded = "irq" /\ Schedule /\ UNCHANGED <<vars, loaded>>)
  /\ WF_irqVars(loaded = "irq" /\ Run /\ UNCHANGED <<vars, loaded>>)
  /\ WF_irqVars(loaded = "irq" /\ Return /\ UNCHANGED <<vars, loaded>>)
  /\ WF_irqVars(loaded = "irq" /\ Exit /\ UNCHANGED <<vars, loaded>>)
=============================================================================
