--------------------------- MODULE PlanStoreProofs ---------------------------
(***************************************************************************)
(* Proofs about PlanStore for any plans and bounds: the inductive invariant  *)
(* behind "the files are earlier states of the memory", and that the store   *)
(* implements DurableLog.                                                    *)
(***************************************************************************)
EXTENDS PlanStore, SequenceTheorems, TLAPS

(* Appending keeps what was there. *)
LEMMA AppendShape ==
  ASSUME NEW S, NEW s \in Seq(S), NEW w \in S
  PROVE  /\ Append(s, w) \in Seq(S)
         /\ Len(Append(s, w)) = Len(s) + 1
         /\ \A i \in 1..Len(s) : Append(s, w)[i] = s[i]
         /\ Append(s, w)[Len(s) + 1] = w
  OBVIOUS

(* A crash can only take the end of the log away. *)
LEMMA PrefixIsSubSeq ==
  ASSUME NEW S, NEW s \in Seq(S), NEW t \in Seq(S), Precedes(s, t)
  PROVE  s = SubSeq(t, 1, Len(s))
  <1> DEFINE u == SubSeq(t, 1, Len(s))
  <1>1. Len(s) \in Nat /\ Len(t) \in Nat /\ Len(s) <= Len(t)
    BY DEF Precedes
  <1>2. /\ u \in Seq(S) /\ Len(u) = Len(s)
        /\ \A i \in 1..Len(s) : u[i] = t[i]
    BY <1>1
  <1>3. \A i \in 1..Len(s) : s[i] = u[i]
    BY <1>2 DEF Precedes
  <1> HIDE DEF u
  <1>4. s = u
    BY <1>2, <1>3, SeqEqual
  <1> QED BY <1>4 DEF u

(* The relation between the files and the memory is transitive. *)
LEMMA PrecedesTransitive ==
  ASSUME NEW S, NEW r \in Seq(S), NEW s \in Seq(S), NEW t \in Seq(S),
         Precedes(r, s), Precedes(s, t)
  PROVE  Precedes(r, t)
  BY DEF Precedes

LEMMA PrecedesReflexive ==
  ASSUME NEW S, NEW s \in Seq(S)
  PROVE  Precedes(s, s)
  BY DEF Precedes

LEMMA InitInvariant == Init => IInv
  <1> SUFFICES ASSUME Init PROVE IInv
    OBVIOUS
  <1>1. <<>> \in Seq(Writes) /\ Len(<<>>) = 0
    OBVIOUS
  <1>2. TypeOK
    BY <1>1 DEF Init, TypeOK
  <1>3. FilesAreEarlierStates
    BY <1>1 DEF Init, FilesAreEarlierStates, Precedes
  <1>4. NoOrphans
    BY <1>1 DEF Init, NoOrphans
  <1> QED BY <1>2, <1>3, <1>4 DEF IInv

(* A content without orphans has none after another accepted write. *)
LEMMA AppendKeepsPlans ==
  ASSUME NEW c \in Seq(Writes), NEW w \in Writes,
         \A i \in 1..Len(c) : c[i].kind # "save" =>
           \E j \in 1..i : c[j].plan = c[i].plan /\ c[j].kind = "save",
         w.kind # "save" => Exists(w.plan, c)
  PROVE  LET d == Append(c, w) IN
         \A i \in 1..Len(d) : d[i].kind # "save" =>
           \E j \in 1..i : d[j].plan = d[i].plan /\ d[j].kind = "save"
  <1> DEFINE d == Append(c, w)
  <1>1. /\ Len(d) = Len(c) + 1 /\ d[Len(c) + 1] = w
        /\ \A i \in 1..Len(c) : d[i] = c[i]
    BY AppendShape
  <1> HIDE DEF d
  <1> SUFFICES ASSUME NEW i \in 1..Len(d), d[i].kind # "save"
               PROVE  \E j \in 1..i : d[j].plan = d[i].plan /\ d[j].kind = "save"
    BY DEF d
  <1>2. Len(c) \in Nat
    OBVIOUS
  <1>3. CASE i \in 1..Len(c)
    <2>1. PICK j \in 1..i : c[j].plan = c[i].plan /\ c[j].kind = "save"
      BY <1>1, <1>3
    <2>2. j \in 1..Len(c)
      BY <1>2, <1>3
    <2> QED BY <1>1, <1>3, <2>1, <2>2
  <1>4. CASE i = Len(c) + 1
    <2>1. PICK j \in 1..Len(c) : c[j].plan = w.plan /\ c[j].kind = "save"
      BY <1>1, <1>4 DEF Exists
    <2>2. j \in 1..i
      BY <1>2, <1>4
    <2> QED BY <1>1, <1>4, <2>1, <2>2
  <1> QED BY <1>1, <1>2, <1>3, <1>4

LEMMA WriteStep ==
  ASSUME IInv, NEW p \in Plans, NEW kind \in Kinds, Write(p, kind)
  PROVE  IInv'
  <1> DEFINE w == [plan |-> p, kind |-> kind, id |-> writes]
  <1>1. w \in Writes /\ w.plan = p /\ w.kind = kind
    BY StoreAssumption DEF Writes, Write, IInv, TypeOK, StoreAssumption
  <1>2. mem \in Seq(Writes) /\ mem' = Append(mem, w)
    BY DEF IInv, TypeOK, Write
  <1>3. /\ mem' \in Seq(Writes) /\ Len(mem') = Len(mem) + 1
        /\ \A i \in 1..Len(mem) : mem'[i] = mem[i]
    BY <1>1, <1>2, AppendShape
  <1>4. TypeOK'
    BY <1>3 DEF IInv, TypeOK, Write
  <1>5. FilesAreEarlierStates'
    <2>1. Len(disk) \in Nat /\ Len(mem) \in Nat
      BY DEF IInv, TypeOK
    <2>2. Precedes(disk, mem)'
      BY <1>3, <2>1 DEF IInv, FilesAreEarlierStates, Precedes, Write
    <2> QED BY <2>2 DEF IInv, FilesAreEarlierStates, Write, Precedes
  <1>6. NoOrphans'
    <2>1. w.kind # "save" => Exists(w.plan, mem)
      BY <1>1 DEF Write, Accepted
    <2>2. \A i \in 1..Len(mem) : mem[i].kind # "save" =>
            \E j \in 1..i : mem[j].plan = mem[i].plan /\ mem[j].kind = "save"
      BY DEF IInv, NoOrphans
    <2> HIDE DEF w
    <2>3. \A i \in 1..Len(mem') : mem'[i].kind # "save" =>
            \E j \in 1..i : mem'[j].plan = mem'[i].plan /\ mem'[j].kind = "save"
      BY <1>1, <1>2, <2>1, <2>2, AppendKeepsPlans
    <2>4. disk' = disk /\ synced' = synced
      BY DEF Write
    <2>5. \A c \in {disk, synced} : \A i \in 1..Len(c) : c[i].kind # "save" =>
            \E j \in 1..i : c[j].plan = c[i].plan /\ c[j].kind = "save"
      BY DEF IInv, NoOrphans
    <2>6. {mem', disk', synced'} = {mem'} \cup {disk, synced}
      BY <2>4
    <2> DEFINE Kept(c) == \A i \in 1..Len(c) : c[i].kind # "save" =>
                 \E j \in 1..i : c[j].plan = c[i].plan /\ c[j].kind = "save"
    <2>7. Kept(mem') /\ \A c \in {disk, synced} : Kept(c)
      BY <2>3, <2>5
    <2> HIDE DEF Kept
    <2>8. \A c \in {mem', disk', synced'} : Kept(c)
      BY <2>6, <2>7
    <2> QED BY <2>8 DEF NoOrphans, Kept
  <1> QED BY <1>4, <1>5, <1>6 DEF IInv

(* A step of persistLocked, its failure or a crash moves a content that has   *)
(* no orphans to another place.                                              *)
LEMMA OtherSteps ==
  ASSUME IInv, Encode \/ Rename \/ SyncDir \/ Fail \/ Crash
  PROVE  IInv'
  <1> USE DEF IInv
  <1>1. /\ mem \in Seq(Writes) /\ temp \in Seq(Writes) /\ disk \in Seq(Writes)
        /\ synced \in Seq(Writes)
    BY DEF TypeOK
  <1>2. Precedes(mem, mem) /\ Precedes(disk, disk) /\ Precedes(synced, synced)
    BY <1>1, PrecedesReflexive
  <1>3. Precedes(synced, mem) /\ Len(synced) <= Len(disk)
        /\ Len(disk) <= Len(mem) /\ acked <= Len(synced)
    BY <1>1, PrecedesTransitive DEF FilesAreEarlierStates, Precedes
  <1>4. Len(mem) \in Nat /\ Len(disk) \in Nat /\ Len(synced) \in Nat /\ acked \in Nat
    BY <1>1 DEF TypeOK
  <1>5. TypeOK'
    BY <1>1, <1>4 DEF TypeOK, Encode, Rename, SyncDir, Fail, Crash, Snapshot,
                      AckOnFailure
  <1>6. FilesAreEarlierStates'
    <2>1. CASE Encode
      BY <2>1 DEF Encode, Snapshot, FilesAreEarlierStates, Precedes
    <2>2. CASE Rename
      <3>1. /\ disk' = mem /\ mem' = mem /\ synced' = synced /\ acked' = acked
            /\ stage' = "syncdir"
        BY <2>2 DEF Rename, FilesAreEarlierStates
      <3> QED BY <1>2, <1>3, <3>1 DEF FilesAreEarlierStates, Precedes
    <2>3. CASE SyncDir
      <3>1. /\ disk' = mem /\ mem' = mem /\ synced' = mem /\ acked' = Len(mem)
            /\ stage' = "free"
        BY <2>3 DEF SyncDir, FilesAreEarlierStates
      <3> QED BY <1>2, <1>4, <3>1 DEF FilesAreEarlierStates, Precedes
    <2>4. CASE Fail
      BY <2>4 DEF Fail, AckOnFailure, FilesAreEarlierStates, Precedes
    <2>5. CASE Crash
      <3>1. PICK c \in {disk, synced} : mem' = c /\ disk' = c /\ synced' = c
        BY <2>5 DEF Crash
      <3>2. acked <= Len(c) /\ Precedes(c, c)
        BY <1>2, <1>3, <1>4
      <3>5. acked' = acked /\ stage' = "free"
        BY <2>5 DEF Crash
      <3> QED BY <3>1, <3>2, <3>5 DEF FilesAreEarlierStates, Precedes
    <2> QED BY <2>1, <2>2, <2>3, <2>4, <2>5
  <1>7. NoOrphans'
    <2>1. {mem', disk', synced'} \subseteq {mem, disk, synced}
      BY DEF Encode, Rename, SyncDir, Fail, Crash, FilesAreEarlierStates
    <2> QED BY <2>1 DEF NoOrphans
  <1> QED BY <1>5, <1>6, <1>7

LEMMA NextInvariant == IInv /\ [Next]_vars => IInv'
  <1> SUFFICES ASSUME IInv, [Next]_vars PROVE IInv'
    OBVIOUS
  <1>1. CASE UNCHANGED vars
    BY <1>1 DEF IInv, TypeOK, FilesAreEarlierStates, Precedes, NoOrphans, vars
  <1>2. CASE \E p \in Plans, kind \in Kinds : Write(p, kind)
    BY <1>2, WriteStep
  <1>3. CASE Encode \/ Rename \/ SyncDir \/ Fail \/ Crash
    BY <1>3, OtherSteps
  <1> QED BY <1>1, <1>2, <1>3 DEF Next

(* The files of FilePlanStore are always earlier states of its memory, what   *)
(* was confirmed is safe, and no content has orphans.                        *)
THEOREM FilesFollowMemory == Spec => []IInv
  BY InitInvariant, NextInvariant, PTL DEF Spec

(* Whatever a restart loads, events and updates come after their plan. *)
THEOREM NothingIsOrphaned == Spec => []NoOrphans
  <1>1. IInv => NoOrphans
    BY DEF IInv
  <1> QED BY <1>1, FilesFollowMemory, PTL

(* FilePlanStore implements DurableLog: what it confirmed survives crashes    *)
(* and failures, with everything before it.                                  *)
THEOREM StoreImplementsLog == Spec => ImplementsLog
  <1>1. Init => Log!Init
    BY DEF Init, Log!Init
  <1>2. IInv /\ [Next]_vars => [Log!Next]_(Log!vars)
    <2> SUFFICES ASSUME IInv, [Next]_vars PROVE [Log!Next]_(Log!vars)
      OBVIOUS
    <2> USE DEF Log!vars
    <2>1. CASE UNCHANGED vars
      BY <2>1 DEF vars
    <2>2. CASE \E p \in Plans, kind \in Kinds : Write(p, kind)
      <3>1. PICK p \in Plans, kind \in Kinds : Write(p, kind)
        BY <2>2
      <3>2. [plan |-> p, kind |-> kind, id |-> writes] \in Writes
        BY <3>1, StoreAssumption DEF Writes, Write, IInv, TypeOK, StoreAssumption
      <3> QED BY <3>1, <3>2 DEF Write, Log!Next, Log!Apply
    <2>3. CASE Encode \/ Rename \/ Fail
      BY <2>3 DEF Encode, Rename, Fail, AckOnFailure
    <2>4. CASE SyncDir
      BY <2>4 DEF SyncDir, Log!Next, Log!Confirm
    <2>5. CASE Crash
      <3>1. PICK c \in {disk, synced} : mem' = c
        BY <2>5 DEF Crash
      <3>2. /\ mem \in Seq(Writes) /\ disk \in Seq(Writes)
            /\ synced \in Seq(Writes) /\ c \in Seq(Writes) /\ acked \in Nat
        BY DEF IInv, TypeOK
      <3>3. Precedes(disk, mem) /\ Precedes(synced, disk) /\ acked <= Len(synced)
        BY DEF IInv, FilesAreEarlierStates
      <3>4. Precedes(synced, mem) /\ Len(synced) <= Len(disk)
        BY <3>2, <3>3, PrecedesTransitive DEF Precedes
      <3>5. Precedes(c, mem) /\ acked <= Len(c)
        BY <3>2, <3>3, <3>4
      <3>6. c = SubSeq(mem, 1, Len(c)) /\ Len(c) \in acked..Len(mem)
        <4>1. c = SubSeq(mem, 1, Len(c))
          BY <3>2, <3>5, PrefixIsSubSeq
        <4> QED BY <3>2, <3>5, <4>1 DEF Precedes, IInv, TypeOK
      <3>7. acked' = acked
        BY <2>5 DEF Crash
      <3>8. Log!Lose
        BY <3>1, <3>6, <3>7 DEF Log!Lose
      <3> QED BY <3>8 DEF Log!Next
    <2> QED BY <2>1, <2>2, <2>3, <2>4, <2>5 DEF Next
  <1> QED BY <1>1, <1>2, FilesFollowMemory, PTL DEF Spec, ImplementsLog, Log!Spec
=============================================================================
