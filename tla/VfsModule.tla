------------------------------ MODULE VfsModule -------------------------------
(***************************************************************************)
(* sem_6/lab8/vfs_md.c: a module that takes a number of objects from a     *)
(* slab cache of its own, registers a file system and gives each inode it  *)
(* makes one of the objects.  Loading can fail at every allocation and     *)
(* rolls back what it has done.                                            *)
(*                                                                         *)
(* A file system may be mounted by several calls of mount at once.  The    *)
(* kernel lets a call in while the module is loaded and counts a reference *)
(* for it until the file system is unmounted; rmmod is refused meanwhile.  *)
(*                                                                         *)
(* An operator that is named after another one, with a suffix, and that    *)
(* Next does not use is a fault the properties are known to catch.         *)
(***************************************************************************)
EXTENDS Integers

CONSTANTS
  Mounts,   (* the calls of mount, each with the super block it makes       *)
  number    (* 31: objects in the line                                      *)

ASSUME NumberAssumption == number \in Nat \ {0}

VARIABLES
  module,      (* the call that md_init or md_exit makes next               *)
  memory,      (* which of line and my_cache are allocated                  *)
  objects,     (* positions of the line whose object is allocated           *)
  i, j,        (* the loops                                                 *)
  registered,  (* myfs_type is known to the kernel                          *)
  cache_pos,
  mnt,         (* where each call of mount is                               *)
  inode,       (* inode[s]: new_inode gave an inode                         *)
  pos,         (* the value of cache_pos a call has tested                  *)
  private,     (* the object of the inode: its position in the line         *)
  raced        (* two calls were in get_slab_mem at the same time           *)

allocVars == <<memory, objects, i, j>>
mountVars == <<mnt, inode, pos, private>>
vars == <<module, allocVars, registered, cache_pos, mountVars, raced>>

None == -1
Positions == 0 .. number - 1

Init ==
  /\ module = "out"
  /\ memory = {} /\ objects = {} /\ i = 0 /\ j = 0
  /\ registered = FALSE /\ cache_pos = 0
  /\ mnt = [s \in Mounts |-> "idle"]
  /\ inode = [s \in Mounts |-> FALSE]
  /\ pos = [s \in Mounts |-> 0]
  /\ private = [s \in Mounts |-> None]
  /\ raced = FALSE

Goto(from, to) == module = from /\ module' = to

-----------------------------------------------------------------------------
(* md_init                                                                 *)

Kmalloc ==
  /\ Goto("out", "create")
  /\ memory' = {"line"} /\ i' = 0 /\ j' = 0
  /\ cache_pos' = 0 /\ raced' = FALSE
  /\ UNCHANGED <<objects, registered, mountVars>>

CreateCache ==
  /\ Goto("create", "alloc")
  /\ memory' = memory \cup {"cache"}
  /\ UNCHANGED <<objects, i, j, registered, cache_pos, mountVars, raced>>

CreateCacheFails ==
  /\ Goto("create", "out")
  /\ memory' = memory \ {"line"}
  /\ UNCHANGED <<objects, i, j, registered, cache_pos, mountVars, raced>>

Alloc ==
  /\ Goto("alloc", IF i + 1 = number THEN "register" ELSE "alloc")
  /\ objects' = objects \cup {i}
  /\ i' = i + 1
  /\ UNCHANGED <<memory, j, registered, cache_pos, mountVars, raced>>

(* The objects before the i-th, which could not be had, are freed.         *)
AllocFails_at ==
  /\ Goto("alloc", "free")
  /\ i' = i + 1
  /\ UNCHANGED <<memory, objects, j, registered, cache_pos, mountVars, raced>>

AllocFails ==
  /\ Goto("alloc", IF i = 0 THEN "destroy" ELSE "free")
  /\ UNCHANGED <<allocVars, registered, cache_pos, mountVars, raced>>

Register ==
  /\ Goto("register", "in")
  /\ registered' = TRUE
  /\ UNCHANGED <<allocVars, cache_pos, mountVars, raced>>

RegisterFails ==
  /\ Goto("register", "free")
  /\ UNCHANGED <<allocVars, registered, cache_pos, mountVars, raced>>

-----------------------------------------------------------------------------
(* md_exit frees everything before it unregisters the file system; the     *)
(* roll-back of md_init frees the same in the same order.                  *)

Referenced_no_owner(s) == FALSE
Referenced(s) == mnt[s] # "idle"

Rmmod ==
  /\ \A s \in Mounts : ~Referenced(s)
  /\ Goto("in", "free")
  /\ UNCHANGED <<allocVars, registered, cache_pos, mountVars, raced>>

FreeObject_past_end ==
  /\ Goto("free", IF j = i THEN "destroy" ELSE "free")
  /\ objects' = objects \ {j}
  /\ j' = j + 1
  /\ UNCHANGED <<memory, i, registered, cache_pos, mountVars, raced>>

FreeObject ==
  /\ Goto("free", IF j + 1 = i THEN "destroy" ELSE "free")
  /\ objects' = objects \ {j}
  /\ j' = j + 1
  /\ UNCHANGED <<memory, i, registered, cache_pos, mountVars, raced>>

DestroyCache ==
  /\ Goto("destroy", "kfree")
  /\ memory' = memory \ {"cache"}
  /\ UNCHANGED <<objects, i, j, registered, cache_pos, mountVars, raced>>

Kfree ==
  /\ Goto("kfree", IF registered THEN "unregister" ELSE "out")
  /\ memory' = memory \ {"line"}
  /\ UNCHANGED <<objects, i, j, registered, cache_pos, mountVars, raced>>

Unregister ==
  /\ Goto("unregister", "out")
  /\ registered' = FALSE
  /\ UNCHANGED <<allocVars, cache_pos, mountVars, raced>>

-----------------------------------------------------------------------------
(* myfs_mount and myfs_fill_sb                                             *)

Move(s, from, to) == mnt[s] = from /\ mnt' = [mnt EXCEPT ![s] = to]

InSlab(s) == mnt[s] \in {"test", "take"}

(* The kernel calls nothing in a module that is being unloaded.            *)
Mount(s) ==
  /\ module = "in" /\ registered
  /\ Move(s, "idle", "inode")
  /\ UNCHANGED <<module, allocVars, registered, cache_pos, inode, pos, private, raced>>

(* new_inode, which may give NULL; get_slab_mem is called all the same.    *)
NewInode(s) ==
  /\ Move(s, "inode", "test")
  /\ \E given \in BOOLEAN : inode' = [inode EXCEPT ![s] = given]
  /\ raced' = (raced \/ \E t \in Mounts \ {s} : InSlab(t))
  /\ UNCHANGED <<module, allocVars, registered, cache_pos, pos, private>>

(* get_slab_mem: the test of cache_pos ...                                 *)
TestPos(s) ==
  /\ pos' = [pos EXCEPT ![s] = cache_pos]
  /\ Move(s, "test", IF cache_pos >= number THEN "fill" ELSE "take")
  /\ UNCHANGED <<module, allocVars, registered, cache_pos, inode, private, raced>>

(* ... and its use, for which it may be read again or not.                 *)
TakeObject(s) ==
  /\ Move(s, "take", "fill")
  /\ \E read \in {pos[s], cache_pos} :
       /\ private' = [private EXCEPT ![s] = read]
       /\ cache_pos' = read + 1
  /\ UNCHANGED <<module, allocVars, registered, inode, pos, raced>>

(* The object is filled from the inode before anyone asks whether there is *)
(* one; without an object and an inode mount fails.                        *)
Fill(s) ==
  /\ Move(s, "fill", IF inode[s] THEN "root"
                     ELSE IF private[s] # None THEN "dead" ELSE "idle")
  /\ pos' = [pos EXCEPT ![s] = 0]
  /\ UNCHANGED <<module, allocVars, registered, cache_pos, inode, private, raced>>

MakeRoot(s) ==
  /\ Move(s, "root", "mounted")
  /\ UNCHANGED <<module, allocVars, registered, cache_pos, inode, pos, private, raced>>

(* d_make_root has put the inode when it fails; it is put once more, and   *)
(* the kernel kills the call.                                              *)
MakeRootFails(s) ==
  /\ Move(s, "root", "dead")
  /\ inode' = [inode EXCEPT ![s] = FALSE]
  /\ UNCHANGED <<module, allocVars, registered, cache_pos, pos, private, raced>>

(* kill_anon_super: the inode goes, its object is not given back.          *)
Umount(s) ==
  /\ Move(s, "mounted", "idle")
  /\ inode' = [inode EXCEPT ![s] = FALSE]
  /\ private' = [private EXCEPT ![s] = None]
  /\ UNCHANGED <<module, allocVars, registered, cache_pos, pos, raced>>

Load ==
  \/ Kmalloc \/ CreateCache \/ CreateCacheFails \/ Alloc \/ AllocFails
  \/ Register \/ RegisterFails

Unload == Rmmod \/ FreeObject \/ DestroyCache \/ Kfree \/ Unregister

MountCall(s) ==
  \/ Mount(s) \/ NewInode(s) \/ TestPos(s) \/ TakeObject(s) \/ Fill(s)
  \/ MakeRoot(s) \/ MakeRootFails(s) \/ Umount(s)

Next == Load \/ Unload \/ \E s \in Mounts : MountCall(s)

Spec == Init /\ [][Next]_vars

-----------------------------------------------------------------------------
(* Properties                                                              *)

(* The loops stay inside the line, on every path of md_init and md_exit.   *)
TypeOK ==
  /\ module \in {"out", "create", "alloc", "register", "in", "free",
                 "destroy", "kfree", "unregister"}
  /\ memory \subseteq {"line", "cache"}
  /\ objects \subseteq Positions
  /\ i \in 0 .. number /\ j \in 0 .. number
  /\ registered \in BOOLEAN
  /\ cache_pos \in Nat
  /\ mnt \in [Mounts -> {"idle", "inode", "test", "take", "fill", "root",
                         "mounted", "dead"}]
  /\ inode \in [Mounts -> BOOLEAN]
  /\ pos \in [Mounts -> Nat]
  /\ private \in [Mounts -> Nat \cup {None}]
  /\ raced \in BOOLEAN

(* Wherever loading fails, exactly what had been allocated is freed, each  *)
(* object once and before its cache, and so it is when the module is       *)
(* unloaded.                                                               *)
FreedExactly ==
  /\ module = "free" => j \in objects /\ "line" \in memory
  /\ module = "destroy" => objects = {}
  /\ module = "out" => objects = {} /\ memory = {} /\ ~registered

(* The object of an inode is allocated as long as the inode is there, even *)
(* though md_exit frees the objects before it unregisters the file system; *)
(* and no two inodes share one, unless two mounts were in get_slab_mem at  *)
(* the same time.                                                          *)
Owned == {s \in Mounts : private[s] # None}

OwnObject ==
  \A s \in Owned :
    /\ private[s] \in objects \/ (raced /\ private[s] >= number)
    /\ \A t \in Owned : private[s] = private[t] => s = t \/ raced
=============================================================================
