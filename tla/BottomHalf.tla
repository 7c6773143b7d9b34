------------------------------ MODULE BottomHalf ------------------------------
(***************************************************************************)
(* sem_6/lab9_1/md.c and sem_6/lab9_2/md.c: two modules with an interrupt  *)
(* handler that leaves the rest of its work to a tasklet, or to a work     *)
(* item on a queue of the module's own.                                    *)
(*                                                                         *)
(* The two differ in how the deferred part is made and taken down; kind    *)
(* tells which of them is loaded.  What the kernel does is external: it    *)
(* calls the handler one interrupt at a time, and the deferred function    *)
(* not twice at once; what is scheduled already is not scheduled again.    *)
(*                                                                         *)
(* What VfsModule has under the same name is called Irq... here, so that   *)
(* MCKernelModules and KernelModules_proofs can extend both.               *)
(*                                                                         *)
(* An operator that is named after another one, with a suffix, and that    *)
(* IrqNext does not use is a fault the properties are known to catch.      *)
(***************************************************************************)
EXTENDS Naturals

CONSTANT MaxInterrupts   (* bound: interrupts of one load of the module     *)

ASSUME BoundAssumption == MaxInterrupts \in Nat

VARIABLES
  kind,         (* which module: with a tasklet or with a work queue        *)
  md,           (* the call that md_init or md_exit makes next              *)
  irq_counter,
  handler,      (* where my_interrupt is                                    *)
  scheduled,    (* the tasklet's SCHED bit, the work's PENDING bit          *)
  running,      (* my_tasklet_func or my_work_func runs                     *)
  unserved,     (* an interrupt came after the function ran last            *)
  broken        (* what was not made yet has been scheduled                 *)

item == <<scheduled, running>>
irqVars == <<kind, md, irq_counter, handler, item, unserved, broken>>

Kinds == {"tasklet", "work"}

(* The handler is installed from request_irq to free_irq.                  *)
Installed == md \in {"make", "init", "in", "sync", "free"}

(* tasklet_init, or create_workqueue and INIT_WORK, have been called.      *)
Made == md \in {"in", "sync", "free", "flush", "destroy"}

IrqInit ==
  /\ kind \in Kinds
  /\ md = "out"
  /\ irq_counter = 0 /\ handler = "idle"
  /\ scheduled = FALSE /\ running = FALSE
  /\ unserved = FALSE /\ broken = FALSE

NextCall(from, to) == md = from /\ md' = to

-----------------------------------------------------------------------------
(* md_init                                                                 *)

RequestIrq ==
  /\ NextCall("out", "make")
  /\ UNCHANGED <<kind, irq_counter, handler, item, unserved, broken>>

(* tasklet_init and INIT_WORK clear the bit, whoever has set it.           *)
TaskletInit ==
  /\ kind = "tasklet" /\ NextCall("make", "in")
  /\ scheduled' = FALSE
  /\ UNCHANGED <<kind, irq_counter, handler, running, unserved, broken>>

CreateWorkqueue ==
  /\ kind = "work" /\ NextCall("make", "init")
  /\ UNCHANGED <<kind, irq_counter, handler, item, unserved, broken>>

InitWork ==
  /\ NextCall("init", "in")
  /\ scheduled' = FALSE
  /\ UNCHANGED <<kind, irq_counter, handler, running, unserved, broken>>

(* create_workqueue fails: synchronize_irq, free_irq and the end.          *)
CreateWorkqueueFails ==
  /\ kind = "work" /\ handler = "idle" /\ ~broken
  /\ NextCall("make", "out")
  /\ irq_counter' = 0
  /\ UNCHANGED <<kind, handler, item, unserved, broken>>

-----------------------------------------------------------------------------
(* md_exit                                                                 *)

RmmodIrq ==
  /\ ~broken /\ NextCall("in", "sync")
  /\ UNCHANGED <<kind, irq_counter, handler, item, unserved, broken>>

SynchronizeIrq ==
  /\ handler = "idle" /\ NextCall("sync", "free")
  /\ UNCHANGED <<kind, irq_counter, handler, item, unserved, broken>>

(* free_irq takes the handler away and waits until it has returned.        *)
FreeIrq_at_once ==
  /\ NextCall("free", "flush")
  /\ UNCHANGED <<kind, irq_counter, handler, item, unserved, broken>>

FreeIrq ==
  /\ handler = "idle" /\ NextCall("free", "flush")
  /\ UNCHANGED <<kind, irq_counter, handler, item, unserved, broken>>

(* tasklet_kill, or flush_workqueue, waits for what is scheduled.          *)
Flush_at_once ==
  /\ NextCall("flush", "destroy")
  /\ UNCHANGED <<kind, irq_counter, handler, item, unserved, broken>>

Flush ==
  /\ ~scheduled /\ ~running /\ NextCall("flush", "destroy")
  /\ UNCHANGED <<kind, irq_counter, handler, item, unserved, broken>>

(* destroy_workqueue; the module's memory is freed.                        *)
Destroy ==
  /\ NextCall("destroy", "out")
  /\ irq_counter' = 0
  /\ UNCHANGED <<kind, handler, item, unserved, broken>>

Exit == SynchronizeIrq \/ FreeIrq \/ Flush \/ Destroy

-----------------------------------------------------------------------------
(* my_interrupt                                                            *)

Interrupt ==
  /\ Installed /\ handler = "idle" /\ irq_counter < MaxInterrupts
  /\ irq_counter' = irq_counter + 1
  /\ handler' = "schedule"
  /\ unserved' = TRUE
  /\ UNCHANGED <<kind, md, item, broken>>

(* tasklet_schedule or queue_work.  The handler does so too when the       *)
(* tasklet or the work has not been made yet; what then comes of it, from  *)
(* a function that is NULL to a queue that is, is left open: broken.       *)
Schedule_when_idle ==
  /\ handler = "schedule"
  /\ handler' = "idle"
  /\ scheduled' = (scheduled \/ ~running)
  /\ broken' = (broken \/ ~Made)
  /\ UNCHANGED <<kind, md, irq_counter, running, unserved>>

Schedule ==
  /\ handler = "schedule"
  /\ handler' = "idle"
  /\ scheduled' = TRUE
  /\ broken' = (broken \/ ~Made)
  /\ UNCHANGED <<kind, md, irq_counter, running, unserved>>

(* my_tasklet_func, my_work_func: the bit is cleared before the function   *)
(* runs, so that an interrupt meanwhile schedules it again.                *)
Run ==
  /\ scheduled /\ ~running
  /\ scheduled' = FALSE /\ running' = TRUE
  /\ unserved' = (handler = "schedule")
  /\ UNCHANGED <<kind, md, irq_counter, handler, broken>>

Return ==
  /\ running
  /\ running' = FALSE
  /\ UNCHANGED <<kind, md, irq_counter, handler, scheduled, unserved, broken>>

IrqNext ==
  \/ RequestIrq \/ TaskletInit \/ CreateWorkqueue \/ InitWork
  \/ CreateWorkqueueFails
  \/ RmmodIrq \/ Exit
  \/ Interrupt \/ Schedule \/ Run \/ Return

(* Handlers and deferred functions run to their end, and so does md_exit.  *)
IrqSpec ==
  /\ IrqInit /\ [][IrqNext]_irqVars
  /\ WF_irqVars(Schedule) /\ WF_irqVars(Run) /\ WF_irqVars(Return) /\ WF_irqVars(Exit)

-----------------------------------------------------------------------------
(* Properties                                                              *)

(* Unless an interrupt came too early, nothing is scheduled or runs that   *)
(* has not been made or that md_exit has taken down.                       *)
IrqTypeOK ==
  /\ kind \in Kinds
  /\ md \in {"out", "make", "init", "in", "sync", "free", "flush", "destroy"}
  /\ md = "init" => kind = "work"
  /\ irq_counter \in 0 .. MaxInterrupts
  /\ handler \in {"idle", "schedule"}
  /\ scheduled \in BOOLEAN /\ running \in BOOLEAN
  /\ unserved \in BOOLEAN /\ broken \in BOOLEAN
  /\ ~broken /\ (scheduled \/ running) => Made

(* Once md_exit has returned nothing of the module runs or will run,       *)
(* whenever the last interrupt came.                                       *)
NothingAfterUnload ==
  md = "out" /\ ~broken => handler = "idle" /\ ~scheduled /\ ~running

(* The deferred function runs after every interrupt, also one that comes   *)
(* while it runs or while the module is being unloaded.                    *)
EveryInterruptServed ==
  unserved ~> (~unserved \/ broken)
=============================================================================
