------------------------- MODULE KernelModules_proofs -------------------------
(***************************************************************************)
(* Proofs about the two kernel modules that take apart on unloading what   *)
(* others may still be using: VfsModule, for any number of objects and of  *)
(* mounts, and BottomHalf, for any number of interrupts.                   *)
(***************************************************************************)
EXTENDS BottomHalf, VfsModule, TLAPS

-----------------------------------------------------------------------------
(* VfsModule                                                               *)

Both == {"line", "cache"}

(* What is allocated at each call of md_init and md_exit: while loading    *)
(* the first i objects, while freeing those from j to i - 1.               *)
AllocInv ==
  /\ module = "out" => objects = {} /\ memory = {}
  /\ module = "create" => objects = {} /\ memory = {"line"} /\ i = 0 /\ j = 0
  /\ module = "alloc" =>
       objects = 0 .. i - 1 /\ memory = Both /\ i < number /\ j = 0
  /\ module \in {"register", "in"} =>
       objects = Positions /\ memory = Both /\ i = number /\ j = 0
  /\ module = "free" => objects = j .. i - 1 /\ memory = Both /\ j < i
  /\ module = "destroy" => objects = {} /\ memory = Both
  /\ module = "kfree" => objects = {} /\ memory = {"line"}
  /\ module = "unregister" => objects = {} /\ memory = {}

RegInv ==
  /\ module \in {"out", "create", "alloc", "register"} => ~registered
  /\ module = "in" => registered

(* A file system is mounted only while the module is there.                *)
RefInv == \A s \in Mounts : Referenced(s) => module = "in"

(* An inode gets its object in get_slab_mem and not before.                *)
UnownedInv ==
  \A s \in Mounts : mnt[s] \in {"idle", "inode", "test", "take"} =>
                      private[s] = None

(* As long as one call at a time is in get_slab_mem, cache_pos is still    *)
(* what it was when it was tested, and all objects before it are given.    *)
SlabInv ==
  ~raced =>
    /\ \A s, t \in Mounts : InSlab(s) /\ InSlab(t) => s = t
    /\ \A s \in Mounts :
         /\ mnt[s] = "take" => pos[s] = cache_pos
         /\ private[s] # None => private[s] < cache_pos /\ private[s] < number

PosInv == \A s \in Mounts : mnt[s] = "take" => pos[s] < number

ShareInv ==
  ~raced => \A s, t \in Mounts :
              private[s] # None /\ private[s] = private[t] => s = t

IInv ==
  /\ TypeOK /\ AllocInv /\ RegInv /\ RefInv
  /\ UnownedInv /\ PosInv /\ SlabInv /\ ShareInv

-----------------------------------------------------------------------------

LEMMA EmptyRange ==
  ASSUME NEW n \in Int
  PROVE  n .. n - 1 = {}
OBVIOUS

LEMMA InitInv == Init => IInv
<1> SUFFICES ASSUME Init PROVE IInv
  OBVIOUS
<1> USE NumberAssumption DEF Init
<1>1. TypeOK
  <2>1. objects \subseteq Positions /\ memory \subseteq {"line", "cache"}
    OBVIOUS
  <2>2. i \in 0 .. number /\ j \in 0 .. number /\ cache_pos \in Nat
    OBVIOUS
  <2>3. mnt \in [Mounts -> {"idle", "inode", "test", "take", "fill", "root",
                            "mounted", "dead"}]
    OBVIOUS
  <2> QED BY <2>1, <2>2, <2>3 DEF TypeOK, None
<1>2. AllocInv /\ RegInv
  BY DEF AllocInv, RegInv
<1>3. RefInv /\ UnownedInv /\ PosInv /\ SlabInv /\ ShareInv
  BY DEF RefInv, Referenced, UnownedInv, PosInv, SlabInv, ShareInv, InSlab
<1> QED BY <1>1, <1>2, <1>3 DEF IInv

(* Loading and unloading leave the mounts alone.                           *)
LEMMA MountsKept ==
  ASSUME RefInv, UnownedInv, PosInv, SlabInv, ShareInv,
         UNCHANGED <<cache_pos, mountVars, raced>>,
         \/ module' = "in"
         \/ module' = module
         \/ \A s \in Mounts : ~Referenced(s)
  PROVE  (RefInv /\ UnownedInv /\ PosInv /\ SlabInv /\ ShareInv)'
<1> USE DEF mountVars
<1>1. RefInv'
  BY DEF RefInv, Referenced
<1>2. UnownedInv' /\ PosInv'
  BY DEF UnownedInv, PosInv
<1>3. SlabInv' /\ ShareInv'
  BY DEF SlabInv, ShareInv, InSlab
<1> QED BY <1>1, <1>2, <1>3

LEMMA LoadInv == IInv /\ (Load \/ Unload) => IInv'
<1> SUFFICES ASSUME IInv, Load \/ Unload PROVE IInv'
  OBVIOUS
<1> USE NumberAssumption DEF IInv, Goto, allocVars, mountVars
<1>m. (RefInv /\ UnownedInv /\ PosInv /\ SlabInv /\ ShareInv)'
  <2>1. CASE Kmalloc
    <3>1. \A s \in Mounts : mnt[s] = "idle" /\ private[s] = None
      BY <2>1 DEF Kmalloc, RefInv, Referenced, UnownedInv
    <3> QED
      BY <2>1, <3>1 DEF Kmalloc, RefInv, Referenced, UnownedInv, PosInv,
         SlabInv, ShareInv, InSlab
  <2>2. CASE Load /\ ~Kmalloc
    <3>1. UNCHANGED <<cache_pos, mountVars, raced>>
      BY <2>2 DEF Load, CreateCache, CreateCacheFails, Alloc, AllocFails,
         Register, RegisterFails
    <3>2. module # "in"
      BY <2>2 DEF Load, CreateCache, CreateCacheFails, Alloc, AllocFails,
         Register, RegisterFails
    <3>3. \A s \in Mounts : ~Referenced(s)
      BY <3>2 DEF RefInv
    <3> QED BY <3>1, <3>3, MountsKept
  <2>3. CASE Unload
    <3>1. UNCHANGED <<cache_pos, mountVars, raced>>
      BY <2>3 DEF Unload, Rmmod, FreeObject, DestroyCache, Kfree, Unregister
    <3>2. \A s \in Mounts : ~Referenced(s)
      BY <2>3 DEF Unload, Rmmod, FreeObject, DestroyCache, Kfree, Unregister,
         RefInv
    <3> QED BY <3>1, <3>2, MountsKept
  <2> QED BY <2>1, <2>2, <2>3
<1>r. RegInv'
  BY DEF RegInv, Load, Unload, Kmalloc, CreateCache, CreateCacheFails, Alloc,
     AllocFails, Register, RegisterFails, Rmmod, FreeObject, DestroyCache,
     Kfree, Unregister
<1> SUFFICES TypeOK' /\ AllocInv'
  BY <1>m, <1>r
<1> USE DEF TypeOK, AllocInv, Positions, Both
<1>1. CASE Kmalloc
  <2>1. TypeOK'
    <3>1. objects' = {} /\ memory' = {"line"}
      BY <1>1 DEF Kmalloc
    <3>2. i' \in 0 .. number /\ j' \in 0 .. number /\ cache_pos' \in Nat
      BY <1>1 DEF Kmalloc
    <3>3. module' = "create" /\ raced' = FALSE
          /\ UNCHANGED <<registered, mountVars>>
      BY <1>1 DEF Kmalloc
    <3> QED BY <3>1, <3>2, <3>3
  <2>2. AllocInv'
    BY <1>1 DEF Kmalloc
  <2> QED BY <2>1, <2>2
<1>2. CASE CreateCache \/ CreateCacheFails
  <2>1. TypeOK'
    BY <1>2 DEF CreateCache, CreateCacheFails
  <2>2. AllocInv'
    <3>1. 0 .. 0 - 1 = {}
      BY EmptyRange
    <3>2. CASE CreateCache
      <4>1. memory' = Both /\ objects' = {} /\ i' = 0 /\ j' = 0
        BY <3>2 DEF CreateCache
      <4> QED BY <3>1, <3>2, <4>1 DEF CreateCache
    <3>3. CASE CreateCacheFails
      <4>1. memory' = {} /\ objects' = {}
        BY <3>3 DEF CreateCacheFails
      <4> QED BY <3>3, <4>1 DEF CreateCacheFails
    <3> QED BY <1>2, <3>2, <3>3
  <2> QED BY <2>1, <2>2
<1>3. CASE Alloc
  <2>1. objects' = 0 .. i' - 1 /\ i' \in 1 .. number
    BY <1>3 DEF Alloc
  <2> QED BY <1>3, <2>1 DEF Alloc
<1>4. CASE AllocFails
  BY <1>4 DEF AllocFails
<1>5. CASE Register \/ RegisterFails
  <2>1. TypeOK'
    BY <1>5 DEF Register, RegisterFails
  <2>2. AllocInv'
    BY <1>5 DEF Register, RegisterFails
  <2> QED BY <2>1, <2>2
<1>6. CASE Rmmod
  BY <1>6 DEF Rmmod
<1>7. CASE FreeObject
  <2>1. objects' = j' .. i' - 1 /\ j' \in 1 .. i'
    BY <1>7 DEF FreeObject
  <2>2. j' = i' => objects' = {}
    <3>1. i' \in Int
      BY <1>7 DEF FreeObject
    <3> QED BY <2>1, <3>1, EmptyRange
  <2>3. TypeOK'
    BY <1>7, <2>1 DEF FreeObject
  <2>4. AllocInv'
    BY <1>7, <2>1, <2>2 DEF FreeObject
  <2> QED BY <2>3, <2>4
<1>8. CASE DestroyCache \/ Kfree \/ Unregister
  BY <1>8 DEF DestroyCache, Kfree, Unregister
<1> QED
  BY <1>1, <1>2, <1>3, <1>4, <1>5, <1>6, <1>7, <1>8 DEF Load, Unload

LEMMA MountInv ==
  ASSUME NEW s \in Mounts, IInv, MountCall(s)
  PROVE  IInv'
<1> USE NumberAssumption DEF IInv, Move, allocVars
<1>0. AllocInv' /\ RegInv' /\ UNCHANGED <<module, objects>>
  BY DEF MountCall, Mount, NewInode, TestPos, TakeObject, Fill, MakeRoot,
     MakeRootFails, Umount, AllocInv, RegInv
<1> USE <1>0 DEF RefInv, Referenced, UnownedInv, PosInv, InSlab
<1>1. CASE Mount(s)
  <2>1. TypeOK'
    BY <1>1 DEF Mount, TypeOK
  <2>2. RefInv' /\ UnownedInv' /\ PosInv'
    BY <1>1 DEF Mount, TypeOK
  <2>3. SlabInv' /\ ShareInv'
    BY <1>1 DEF Mount, TypeOK, SlabInv, ShareInv
  <2> QED BY <2>1, <2>2, <2>3
<1>2. CASE NewInode(s)
  <2>1. TypeOK'
    BY <1>2 DEF NewInode, TypeOK
  <2>2. RefInv' /\ UnownedInv' /\ PosInv'
    BY <1>2 DEF NewInode, TypeOK
  <2>3. SlabInv' /\ ShareInv'
    BY <1>2 DEF NewInode, TypeOK, SlabInv, ShareInv
  <2> QED BY <2>1, <2>2, <2>3
<1>3. CASE TestPos(s)
  <2>1. TypeOK'
    BY <1>3 DEF TestPos, TypeOK
  <2>2. RefInv' /\ UnownedInv' /\ PosInv'
    BY <1>3 DEF TestPos, TypeOK
  <2>3. SlabInv' /\ ShareInv'
    BY <1>3 DEF TestPos, TypeOK, SlabInv, ShareInv
  <2> QED BY <2>1, <2>2, <2>3
(* Without a race the object that is taken is the one behind all given.    *)
<1>4. CASE TakeObject(s)
  <2> PICK read \in {pos[s], cache_pos} :
             /\ private' = [private EXCEPT ![s] = read]
             /\ cache_pos' = read + 1
    BY <1>4 DEF TakeObject
  <2>0. read \in Nat /\ read # None
    BY DEF TypeOK, None
  <2>1. TypeOK'
    BY <1>4, <2>0 DEF TakeObject, TypeOK
  <2>2. RefInv' /\ UnownedInv' /\ PosInv'
    BY <1>4 DEF TakeObject, TypeOK
  <2>3. ASSUME ~raced
        PROVE  /\ read = cache_pos /\ read < number
               /\ \A t \in Mounts : t # s => ~InSlab(t)
               /\ \A t \in Mounts : private[t] # None => private[t] < read
    BY <1>4, <2>3 DEF TakeObject, SlabInv
  <2>4. SlabInv' /\ ShareInv'
    <3> SUFFICES ASSUME ~raced PROVE (SlabInv /\ ShareInv)'
      BY <1>4 DEF TakeObject, SlabInv, ShareInv
    <3>1. \A t \in Mounts : t # s => private'[t] = private[t] /\ mnt'[t] = mnt[t]
      BY <1>4 DEF TakeObject, TypeOK
    <3>2. private'[s] = read /\ mnt'[s] = "fill"
      BY <1>4 DEF TakeObject, TypeOK
    <3>3. \A t \in Mounts : private[t] \in Nat \cup {None}
      BY DEF TypeOK
    <3>4. SlabInv'
      BY <2>0, <2>3, <3>1, <3>2, <3>3 DEF SlabInv, None
    <3>5. ShareInv'
      BY <2>0, <2>3, <3>1, <3>2, <3>3 DEF ShareInv, None
    <3> QED BY <3>4, <3>5
  <2> QED BY <2>1, <2>2, <2>4
<1>5. CASE Fill(s)
  <2>1. TypeOK'
    BY <1>5 DEF Fill, TypeOK
  <2>2. RefInv' /\ UnownedInv' /\ PosInv'
    BY <1>5 DEF Fill, TypeOK
  <2>3. SlabInv' /\ ShareInv'
    BY <1>5 DEF Fill, TypeOK, SlabInv, ShareInv
  <2> QED BY <2>1, <2>2, <2>3
<1>6. CASE MakeRoot(s) \/ MakeRootFails(s)
  <2>1. TypeOK'
    BY <1>6 DEF MakeRoot, MakeRootFails, TypeOK
  <2>2. RefInv' /\ UnownedInv' /\ PosInv'
    BY <1>6 DEF MakeRoot, MakeRootFails, TypeOK
  <2>3. SlabInv' /\ ShareInv'
    BY <1>6 DEF MakeRoot, MakeRootFails, TypeOK, SlabInv, ShareInv
  <2> QED BY <2>1, <2>2, <2>3
<1>7. CASE Umount(s)
  <2>1. TypeOK'
    BY <1>7 DEF Umount, TypeOK
  <2>2. RefInv' /\ UnownedInv' /\ PosInv'
    BY <1>7 DEF Umount, TypeOK
  <2>3. SlabInv' /\ ShareInv'
    BY <1>7 DEF Umount, TypeOK, SlabInv, ShareInv
  <2> QED BY <2>1, <2>2, <2>3
<1> QED
  BY <1>1, <1>2, <1>3, <1>4, <1>5, <1>6, <1>7 DEF MountCall

LEMMA StutterInv == IInv /\ UNCHANGED vars => IInv'
BY DEF IInv, TypeOK, AllocInv, RegInv, RefInv, Referenced, UnownedInv, PosInv,
   SlabInv, ShareInv, InSlab, vars, allocVars, mountVars

LEMMA Invariance == Spec => []IInv
<1>1. IInv /\ [Next]_vars => IInv'
  BY LoadInv, MountInv, StutterInv DEF Next
<1> QED BY <1>1, InitInv, PTL DEF Spec

-----------------------------------------------------------------------------

(* The state keeps its types, and the loops of md_init and md_exit stay    *)
(* inside the line, for any number of objects.                             *)
THEOREM TypeCorrect == Spec => []TypeOK
<1> QED BY Invariance, PTL DEF IInv

(* Roll-back and unloading free exactly what was allocated, each object    *)
(* once and before its cache.                                              *)
THEOREM Freed == Spec => []FreedExactly
<1>1. IInv => FreedExactly
  <2> SUFFICES ASSUME IInv PROVE FreedExactly
    OBVIOUS
  <2>1. module = "free" => j \in objects /\ "line" \in memory
    BY DEF IInv, TypeOK, AllocInv, Both
  <2> QED BY <2>1 DEF IInv, AllocInv, RegInv, FreedExactly
<1> QED BY <1>1, Invariance, PTL

(* As long as an inode is there its object is allocated, and no other      *)
(* inode has it, unless mounts overlapped in get_slab_mem.                 *)
THEOREM ObjectsOwned == Spec => []OwnObject
<1>1. IInv => OwnObject
  <2> SUFFICES ASSUME IInv, NEW s \in Owned
               PROVE  /\ private[s] \in objects \/ (raced /\ private[s] >= number)
                      /\ \A t \in Owned : private[s] = private[t] => s = t \/ raced
    BY DEF OwnObject
  <2> USE NumberAssumption DEF IInv, Owned
  <2>1. module = "in"
    BY DEF UnownedInv, RefInv, Referenced
  <2>2. objects = Positions
    BY <2>1 DEF AllocInv
  <2>3. private[s] \in Nat
    BY DEF TypeOK
  <2>4. ~raced => private[s] < number
    BY DEF SlabInv
  <2>5. private[s] \in objects \/ (raced /\ private[s] >= number)
    BY <2>2, <2>3, <2>4 DEF Positions
  <2> QED BY <2>5 DEF ShareInv
<1> QED BY <1>1, Invariance, PTL

-----------------------------------------------------------------------------
(* BottomHalf                                                              *)

(* The handler runs only between request_irq and free_irq ...              *)
HandlerInv == handler = "schedule" => Installed

(* ... and after the flush that follows free_irq nothing is left to run.   *)
FlushedInv == md = "destroy" => ~scheduled /\ ~running

IrqInv == IrqTypeOK /\ HandlerInv /\ FlushedInv

LEMMA IrqInitInv == IrqInit => IrqInv
<1> SUFFICES ASSUME IrqInit PROVE IrqInv
  OBVIOUS
<1> USE DEF IrqInit
<1>1. irq_counter \in 0 .. MaxInterrupts
  BY BoundAssumption
<1>2. IrqTypeOK
  BY <1>1 DEF IrqTypeOK, Made
<1>3. HandlerInv /\ FlushedInv
  BY DEF HandlerInv, FlushedInv
<1> QED BY <1>2, <1>3 DEF IrqInv

LEMMA IrqNextInv == IrqInv /\ [IrqNext]_irqVars => IrqInv'
<1> SUFFICES ASSUME IrqInv, [IrqNext]_irqVars PROVE IrqInv'
  OBVIOUS
<1> USE BoundAssumption
        DEF IrqInv, IrqTypeOK, HandlerInv, FlushedInv, Installed, Made, item
<1>1. CASE RequestIrq \/ CreateWorkqueue
  BY <1>1 DEF RequestIrq, CreateWorkqueue, NextCall
<1>2. CASE CreateWorkqueueFails
  BY <1>2 DEF CreateWorkqueueFails, NextCall
<1>3. CASE RmmodIrq \/ SynchronizeIrq
  BY <1>3 DEF RmmodIrq, SynchronizeIrq, NextCall
(* free_irq waits for the handler, so nothing can be scheduled after it.   *)
<1>4. CASE FreeIrq
  BY <1>4 DEF FreeIrq, NextCall
<1>5. CASE Flush
  BY <1>5 DEF Flush, NextCall
<1>6. CASE Destroy
  BY <1>6 DEF Destroy, NextCall
<1>7. CASE Interrupt
  BY <1>7 DEF Interrupt
<1>8. CASE Schedule
  <2>1. md' \notin {"destroy", "flush"}
    BY <1>8 DEF Schedule
  <2> QED BY <1>8, <2>1 DEF Schedule
<1>9. CASE Run \/ Return
  BY <1>9 DEF Run, Return
<1>10. CASE UNCHANGED irqVars
  BY <1>10 DEF irqVars
<1>11. CASE TaskletInit \/ InitWork
  <2>1. md' = "in" /\ scheduled' = FALSE /\ md \in {"make", "init"}
        /\ UNCHANGED <<kind, irq_counter, handler, running, unserved, broken>>
    BY <1>11 DEF TaskletInit, InitWork, NextCall
  <2> QED BY <2>1
<1> QED
  BY <1>1, <1>2, <1>3, <1>4, <1>5, <1>6, <1>7, <1>8, <1>9, <1>10, <1>11
  DEF IrqNext, Exit

LEMMA IrqInvariance == IrqSpec => []IrqInv
<1> QED BY IrqInitInv, IrqNextInv, PTL DEF IrqSpec

(* The state keeps its types; and unless an interrupt came before          *)
(* tasklet_init or INIT_WORK, nothing is scheduled or runs before it has   *)
(* been made or after it was taken down.                                   *)
THEOREM IrqTypeCorrect == IrqSpec => []IrqTypeOK
<1> QED BY IrqInvariance, PTL DEF IrqInv

(* When the module is out, its handler and its deferred function neither   *)
(* run nor are scheduled, whenever the interrupts came.                    *)
THEOREM QuietAfterUnload == IrqSpec => []NothingAfterUnload
<1>1. IrqInv => NothingAfterUnload
  BY DEF IrqInv, IrqTypeOK, HandlerInv, NothingAfterUnload, Installed, Made
<1> QED BY <1>1, IrqInvariance, PTL
=============================================================================
