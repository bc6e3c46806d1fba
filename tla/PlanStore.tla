------------------------------ MODULE PlanStore ------------------------------
(***************************************************************************)
(* FilePlanStore (internal/store/file_plan_store.go): plans and events in    *)
(* memory under one lock, and a snapshot file that every writer replaces     *)
(* before it releases the lock.  MemoryPlanStore is this module without the  *)
(* file.                                                                    *)
(*                                                                          *)
(* What the maps s.plans and s.events contain is given by the sequence of    *)
(* writes they result from; so is what a file contains.  The stages of       *)
(* persistLocked that differ in what their failure leaves behind are steps   *)
(* of their own: the temporary file, the rename, and the sync of the         *)
(* directory, without which a power failure may undo the rename.             *)
(***************************************************************************)
EXTENDS Naturals, Sequences

CONSTANTS Plans,      \* plan IDs
          MaxWrites,  \* bound: writes in a behaviour
          MaxCrashes  \* bound: crashes in a behaviour

ASSUME StoreAssumption == MaxWrites \in Nat /\ MaxCrashes \in Nat

VARIABLES
  mem,     \* s.plans and s.events
  stage,   \* where the holder of the lock is, "free" when nobody holds it
  temp,    \* what the temporary file contains
  disk,    \* what the snapshot file contains
  synced,  \* what it contains for sure after a power failure
  acked,   \* how many writes the last one to return nil made (history variable)
  writes, crashes

vars == <<mem, stage, temp, disk, synced, acked, writes, crashes>>

Kinds == {"save", "update", "event"}
Writes == [plan : Plans, kind : Kinds, id : 0..MaxWrites]

Exists(p, content) ==
  \E i \in 1..Len(content) : content[i].plan = p /\ content[i].kind = "save"

-----------------------------------------------------------------------------
(* NewFilePlanStore on a missing file. *)
Init ==
  /\ mem = <<>> /\ temp = <<>> /\ disk = <<>> /\ synced = <<>>
  /\ stage = "free"
  /\ acked = 0 /\ writes = 0 /\ crashes = 0

(* UpdatePlan and AppendEvent refuse an unknown plan; SavePlan creates it.    *)
Accepted(p, kind) == kind = "save" \/ Exists(p, mem)

(* SavePlan, UpdatePlan (its callback succeeded) and AppendEvent change the   *)
(* memory under the lock; persistLocked comes next.                          *)
Write(p, kind) ==
  /\ stage = "free"
  /\ Accepted(p, kind)
  /\ writes < MaxWrites
  /\ writes' = writes + 1
  /\ mem' = Append(mem, [plan |-> p, kind |-> kind, id |-> writes])
  /\ stage' = "encode"
  /\ UNCHANGED <<temp, disk, synced, acked, crashes>>

(* MkdirAll, Marshal, CreateTemp, Chmod, Write, Sync and Close: the whole     *)
(* store is written, earlier writes that failed included. Mutant: only this  *)
(* write is added to the file.                                               *)
SnapshotOfChange == Append(disk, mem[Len(mem)])
Snapshot == mem
Encode ==
  /\ stage = "encode"
  /\ temp' = Snapshot
  /\ stage' = "rename"
  /\ UNCHANGED <<mem, disk, synced, acked, writes, crashes>>

Rename ==
  /\ stage = "rename"
  /\ disk' = temp
  /\ stage' = "syncdir"
  /\ UNCHANGED <<mem, temp, synced, acked, writes, crashes>>

(* The caller gets nil once the directory is synced.                         *)
SyncDir ==
  /\ stage = "syncdir"
  /\ synced' = disk
  /\ acked' = Len(mem)
  /\ stage' = "free"
  /\ UNCHANGED <<mem, temp, disk, writes, crashes>>

(* Any of these fails: the caller gets an error, and the memory stays as it   *)
(* is. Mutant: the error of the directory is not returned.                    *)
AckUnsynced == IF stage = "syncdir" THEN Len(mem) ELSE acked
AckOnFailure == acked
Fail ==
  /\ stage # "free"
  /\ stage' = "free"
  /\ acked' = AckOnFailure
  /\ UNCHANGED <<mem, temp, disk, synced, writes, crashes>>

(* The process dies and NewFilePlanStore loads the file.  A killed process    *)
(* leaves the file as it is; a power failure may leave the older one.        *)
Crash ==
  /\ crashes < MaxCrashes
  /\ crashes' = crashes + 1
  /\ \E content \in {disk, synced} :
       mem' = content /\ disk' = content /\ synced' = content
  /\ stage' = "free"
  /\ UNCHANGED <<temp, acked, writes>>

Next == \/ \E p \in Plans, kind \in Kinds : Write(p, kind)
        \/ Encode \/ Rename \/ SyncDir \/ Fail \/ Crash

Spec == Init /\ [][Next]_vars

-----------------------------------------------------------------------------
TypeOK ==
  /\ stage \in {"free", "encode", "rename", "syncdir"}
  /\ mem \in Seq(Writes) /\ temp \in Seq(Writes)
  /\ disk \in Seq(Writes) /\ synced \in Seq(Writes)
  /\ acked \in Nat /\ writes \in Nat /\ crashes \in Nat

(* s is what t was at an earlier time. *)
Precedes(s, t) == Len(s) <= Len(t) /\ \A i \in 1..Len(s) : s[i] = t[i]

(* The files are earlier states of the store, never a mixture: the snapshot   *)
(* is behind the memory, what is safe is behind the snapshot, and whatever   *)
(* has been confirmed to a caller is safe.                                   *)
FilesAreEarlierStates ==
  /\ Precedes(disk, mem)
  /\ Precedes(synced, disk)
  /\ acked <= Len(synced)
  /\ stage = "rename" => temp = mem
  /\ stage = "syncdir" => disk = mem

(* In memory and in whatever a restart may load, an update or an event comes  *)
(* after the save of its plan: recovery and replay never meet an orphan.     *)
NoOrphans ==
  \A content \in {mem, disk, synced} : \A i \in 1..Len(content) :
    content[i].kind # "save" =>
      \E j \in 1..i : content[j].plan = content[i].plan /\ content[j].kind = "save"

IInv == TypeOK /\ FilesAreEarlierStates /\ NoOrphans

(* A write that returned nil survives every later failure and crash, with     *)
(* all the writes before it, in their order.                                 *)
Log == INSTANCE DurableLog WITH log <- mem, kept <- acked
ImplementsLog == Log!Spec
=============================================================================
