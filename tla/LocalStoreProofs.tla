-------------------------- MODULE LocalStoreProofs --------------------------
(***************************************************************************)
(* Proofs about LocalStore: for any number of callers, files and crashes   *)
(* StoreInv is inductive and implies PutDurable.                           *)
(***************************************************************************)
EXTENDS LocalStore, FiniteSetTheorems, SequenceTheorems, TLAPS

Calls == [pc : {"idle", "write", "sync", "rename", "sync_dir"}, inode : Nat]

\* The files are a function over 1 .. Len(inodes).
LEMMA Nodes ==
  ASSUME StoreTypes
  PROVE  /\ Len(inodes) \in Nat /\ DOMAIN inodes = 1 .. Len(inodes)
         /\ \A i \in 1 .. Len(inodes) : inodes[i] \in Inodes
<1>1. inodes \in Seq(Inodes)
  BY DEF StoreTypes
<1> QED
  BY <1>1, LenProperties, ElementOfSeq

\* A new file leaves the others alone.
LEMMA NodeAdded ==
  ASSUME StoreTypes, NEW x \in Inodes, inodes' = Append(inodes, x)
  PROVE  /\ inodes' \in Seq(Inodes) /\ Len(inodes') = Len(inodes) + 1
         /\ inodes'[Len(inodes) + 1] = x
         /\ \A i \in 1 .. Len(inodes) : inodes'[i] = inodes[i]
<1>1. inodes \in Seq(Inodes)
  BY DEF StoreTypes
<1> QED
  BY <1>1, AppendProperties

\* A change of one file leaves the others alone.
LEMMA NodeChanged ==
  ASSUME StoreTypes, NEW k \in 1 .. Len(inodes), NEW x \in Inodes, inodes' = [inodes EXCEPT ![k] = x]
  PROVE  /\ inodes' \in Seq(Inodes) /\ Len(inodes') = Len(inodes)
         /\ inodes'[k] = x
         /\ \A i \in 1 .. Len(inodes) : i # k => inodes'[i] = inodes[i]
<1>1. inodes \in Seq(Inodes)
  BY DEF StoreTypes
<1> QED
  BY <1>1, ExceptSeq

\* A step of one caller leaves the other calls alone.
LEMMA CallChanged ==
  ASSUME StoreTypes, NEW c \in Callers, NEW s \in Calls, calls' = [calls EXCEPT ![c] = s]
  PROVE  /\ calls' \in [Callers -> Calls] /\ calls'[c] = s
         /\ \A d \in Callers : d # c => calls'[d] = calls[d]
  BY DEF StoreTypes, Calls

\* Where a call goes on, its file stays the same.
LEMMA GotoCall ==
  ASSUME StoreTypes, NEW c \in Callers, NEW pc \in {"idle", "write", "sync", "rename", "sync_dir"},
         calls' = Goto(c, pc)
  PROVE  calls' = [calls EXCEPT ![c] = [pc |-> pc, inode |-> calls[c].inode]]
         /\ [pc |-> pc, inode |-> calls[c].inode] \in Calls
<1>1. calls[c] \in Calls /\ calls \in [Callers -> Calls]
  BY DEF StoreTypes, Calls
<1>2. [calls[c] EXCEPT !.pc = pc] = [pc |-> pc, inode |-> calls[c].inode]
  BY <1>1 DEF Calls
<1>3. Goto(c, pc) = [calls EXCEPT ![c] = [calls[c] EXCEPT !.pc = pc]]
  BY <1>1 DEF Goto
<1>4. [pc |-> pc, inode |-> calls[c].inode] \in Calls
  BY <1>1 DEF Calls
<1> QED
  BY <1>2, <1>3, <1>4

\* What each step of a call does to its file and to itself.
LEMMA PutWriteEffect ==
  ASSUME StoreTypes, NEW c \in Callers, PutWrite(c)
  PROVE  /\ inodes' \in Seq(Inodes) /\ Len(inodes') = Len(inodes) + 1
         /\ inodes'[Len(inodes) + 1] = [data |-> "whole", synced |-> FALSE, order |-> 0]
         /\ \A i \in 1 .. Len(inodes) : inodes'[i] = inodes[i]
         /\ calls' \in [Callers -> Calls] /\ calls'[c] = [pc |-> "sync", inode |-> Len(inodes) + 1]
         /\ \A d \in Callers : d # c => calls'[d] = calls[d]
         /\ kind = "put" /\ calls[c].pc = "idle"
         /\ UNCHANGED <<kind, entry, since, made, acked, crashes>>
<1> DEFINE x == [data |-> "whole", synced |-> FALSE, order |-> 0]
           s == [pc |-> "sync", inode |-> Len(inodes) + 1]
<1>1. x \in Inodes
  BY DEF Inodes
<1>2. s \in Calls
  BY Nodes DEF Calls
<1>3. /\ inodes' = Append(inodes, x) /\ calls' = [calls EXCEPT ![c] = s]
      /\ kind = "put" /\ calls[c].pc = "idle"
      /\ UNCHANGED <<kind, entry, since, made, acked, crashes>>
  BY DEF PutWrite
<1> HIDE DEF x, s
<1>4. /\ inodes' \in Seq(Inodes) /\ Len(inodes') = Len(inodes) + 1 /\ inodes'[Len(inodes) + 1] = x
      /\ \A i \in 1 .. Len(inodes) : inodes'[i] = inodes[i]
  BY <1>1, <1>3, NodeAdded
<1>5. /\ calls' \in [Callers -> Calls] /\ calls'[c] = s
      /\ \A d \in Callers : d # c => calls'[d] = calls[d]
  BY <1>2, <1>3, CallChanged
<1> QED
  BY <1>3, <1>4, <1>5, Zenon DEF x, s

\* put_if_absent has made the name, with nothing in the file yet.
LEMMA CreateEffect ==
  ASSUME StoreTypes, NEW c \in Callers, Create(c)
  PROVE  /\ inodes' \in Seq(Inodes) /\ Len(inodes') = Len(inodes) + 1
         /\ entry = 0 /\ entry' = Len(inodes) + 1 /\ since' = since \cup {entry'}
         /\ made' \in Nat /\ kind = "create" /\ calls[c].pc = "idle"
         /\ \A i \in 1 .. Len(inodes) : inodes'[i] = inodes[i]
         /\ calls' \in [Callers -> Calls] /\ calls'[c] = [pc |-> "write", inode |-> entry']
         /\ \A d \in Callers : d # c => calls'[d] = calls[d]
         /\ UNCHANGED <<kind, acked, crashes>>
<1> DEFINE x == [data |-> "empty", synced |-> FALSE, order |-> made + 1]
           s == [pc |-> "write", inode |-> Len(inodes) + 1]
<1>1. x \in Inodes /\ made + 1 \in Nat
  BY DEF Inodes, StoreTypes
<1>2. s \in Calls
  BY Nodes DEF Calls
<1>3. /\ inodes' = Append(inodes, x) /\ entry' = Len(inodes) + 1
      /\ entry = 0 /\ kind = "create" /\ since' = since \cup {entry'} /\ made' = made + 1
      /\ calls[c].pc = "idle"
      /\ UNCHANGED <<kind, acked, crashes>>
  BY DEF Create
<1>4. calls' = [calls EXCEPT ![c] = s] /\ s = [pc |-> "write", inode |-> entry']
  BY <1>3 DEF Create
<1> HIDE DEF x, s
<1>5. /\ inodes' \in Seq(Inodes) /\ Len(inodes') = Len(inodes) + 1
      /\ \A i \in 1 .. Len(inodes) : inodes'[i] = inodes[i]
  BY <1>1, <1>3, NodeAdded
<1>6. /\ calls' \in [Callers -> Calls] /\ calls'[c] = s
      /\ \A d \in Callers : d # c => calls'[d] = calls[d]
  BY <1>2, <1>4, CallChanged
<1> QED
  BY <1>1, <1>3, <1>4, <1>5, <1>6, Zenon

\* put_if_absent has written the file whole, or given up half-way.
LEMMA CreateWriteEffect ==
  ASSUME StoreTypes, NEW c \in Callers, CreateWrite(c)
  PROVE  /\ inodes' \in Seq(Inodes) /\ Len(inodes') = Len(inodes)
         /\ calls[c].pc = "write" /\ calls[c].inode \in 1 .. Len(inodes)
         /\ \A i \in 1 .. Len(inodes) : i # calls[c].inode => inodes'[i] = inodes[i]
         /\ \/ calls'[c] = Idle
            \/ /\ calls'[c] = [pc |-> "sync", inode |-> calls[c].inode]
               /\ inodes'[calls[c].inode].data = "whole"
         /\ calls' \in [Callers -> Calls] /\ \A d \in Callers : d # c => calls'[d] = calls[d]
         /\ UNCHANGED <<kind, entry, since, made, acked, crashes>>
<1>1. PICK data \in {"part", "whole"} :
         /\ inodes' = [inodes EXCEPT ![calls[c].inode].data = data]
         /\ calls' = IF data = "part" THEN [calls EXCEPT ![c] = Idle] ELSE Goto(c, "sync")
  BY DEF CreateWrite
<1>2. calls[c].pc = "write" /\ UNCHANGED <<kind, entry, since, made, acked, crashes>>
  BY DEF CreateWrite
<1>3. PICK k \in 1 .. Len(inodes) : k = calls[c].inode
  BY <1>2 DEF StoreTypes
<1> DEFINE x == [data |-> data, synced |-> inodes[k].synced, order |-> inodes[k].order]
<1>4. inodes[k] \in Inodes /\ DOMAIN inodes = 1 .. Len(inodes)
  BY Nodes
<1>5. x \in Inodes /\ [inodes[k] EXCEPT !.data = data] = x
  BY <1>4 DEF Inodes
<1>6. inodes' = [inodes EXCEPT ![k] = x]
  BY <1>1, <1>3, <1>4, <1>5
<1>7. x.data = data
  OBVIOUS
<1> HIDE DEF x
<1>8. /\ inodes' \in Seq(Inodes) /\ Len(inodes') = Len(inodes) /\ inodes'[k] = x
      /\ \A i \in 1 .. Len(inodes) : i # k => inodes'[i] = inodes[i]
  BY <1>5, <1>6, NodeChanged
<1>9. CASE data = "part"
  <2>1. calls' = [calls EXCEPT ![c] = Idle] /\ Idle \in Calls
    BY <1>1, <1>9 DEF Idle, Calls
  <2>2. calls' \in [Callers -> Calls] /\ calls'[c] = Idle /\ \A d \in Callers : d # c => calls'[d] = calls[d]
    BY <2>1, CallChanged
  <2> QED
    BY <1>2, <1>3, <1>8, <2>2
<1>10. CASE data = "whole"
  <2>1. calls' = Goto(c, "sync")
    BY <1>1, <1>10
  <2>2. PICK s \in Calls : s = [pc |-> "sync", inode |-> calls[c].inode] /\ calls' = [calls EXCEPT ![c] = s]
    BY <2>1, GotoCall
  <2>3. calls' \in [Callers -> Calls] /\ calls'[c] = s /\ \A d \in Callers : d # c => calls'[d] = calls[d]
    BY <2>2, CallChanged
  <2> QED
    BY <1>2, <1>3, <1>7, <1>8, <1>10, <2>2, <2>3
<1> QED
  BY <1>9, <1>10

\* The file of a call is synced, and otherwise as it was.
LEMMA SyncFileEffect ==
  ASSUME StoreTypes, NEW c \in Callers, SyncFile(c)
  PROVE  /\ inodes' \in Seq(Inodes) /\ Len(inodes') = Len(inodes)
         /\ calls[c].pc = "sync" /\ calls[c].inode \in 1 .. Len(inodes)
         /\ \A i \in 1 .. Len(inodes) : i # calls[c].inode => inodes'[i] = inodes[i]
         /\ inodes'[calls[c].inode].synced
         /\ inodes'[calls[c].inode].data = inodes[calls[c].inode].data
         /\ inodes'[calls[c].inode].order = inodes[calls[c].inode].order
         /\ calls'[c] = [pc |-> IF kind = "put" THEN "rename" ELSE "sync_dir", inode |-> calls[c].inode]
         /\ calls' \in [Callers -> Calls] /\ \A d \in Callers : d # c => calls'[d] = calls[d]
         /\ UNCHANGED <<kind, entry, since, made, acked, crashes>>
<1>0. PICK b \in BOOLEAN : b = TRUE
  OBVIOUS
<1>1. /\ inodes' = [inodes EXCEPT ![calls[c].inode].synced = b]
      /\ calls' = Goto(c, IF kind = "put" THEN "rename" ELSE "sync_dir")
      /\ calls[c].pc = "sync" /\ UNCHANGED <<kind, entry, since, made, acked, crashes>>
  BY <1>0, Zenon DEF SyncFile
<1>2. PICK k \in 1 .. Len(inodes) : k = calls[c].inode
  BY <1>1 DEF StoreTypes
<1> DEFINE x == [data |-> inodes[k].data, synced |-> b, order |-> inodes[k].order]
<1>3. inodes[k] \in Inodes /\ DOMAIN inodes = 1 .. Len(inodes)
  BY Nodes
<1>4. x \in Inodes /\ [inodes[k] EXCEPT !.synced = b] = x
  BY <1>3 DEF Inodes
<1>5. inodes' = [inodes EXCEPT ![k] = x]
  BY <1>1, <1>2, <1>3, <1>4
<1>6. x.data = inodes[k].data /\ x.synced /\ x.order = inodes[k].order
  BY <1>0
<1> HIDE DEF x
<1>7. /\ inodes' \in Seq(Inodes) /\ Len(inodes') = Len(inodes) /\ inodes'[k] = x
      /\ \A i \in 1 .. Len(inodes) : i # k => inodes'[i] = inodes[i]
  BY <1>4, <1>5, NodeChanged
<1>8. PICK pc \in {"rename", "sync_dir"} : pc = IF kind = "put" THEN "rename" ELSE "sync_dir"
  OBVIOUS
<1>9. PICK s \in Calls : s = [pc |-> pc, inode |-> calls[c].inode] /\ calls' = [calls EXCEPT ![c] = s]
  BY <1>1, <1>8, GotoCall
<1>10. calls' \in [Callers -> Calls] /\ calls'[c] = s /\ \A d \in Callers : d # c => calls'[d] = calls[d]
  BY <1>9, CallChanged
<1> QED
  BY <1>1, <1>2, <1>6, <1>7, <1>8, <1>9, <1>10

\* put has given its file the name of the object, as the latest entry made.
LEMMA RenameEffect ==
  ASSUME StoreTypes, NEW c \in Callers, Rename(c)
  PROVE  /\ inodes' \in Seq(Inodes) /\ Len(inodes') = Len(inodes)
         /\ calls[c].pc = "rename" /\ calls[c].inode \in 1 .. Len(inodes)
         /\ \A i \in 1 .. Len(inodes) : i # calls[c].inode => inodes'[i] = inodes[i]
         /\ inodes'[calls[c].inode].synced = inodes[calls[c].inode].synced
         /\ inodes'[calls[c].inode].data = inodes[calls[c].inode].data
         /\ inodes'[calls[c].inode].order = made + 1 /\ made' = made + 1
         /\ entry' = calls[c].inode /\ since' = since \cup {entry'}
         /\ calls'[c] = [pc |-> "sync_dir", inode |-> calls[c].inode]
         /\ calls' \in [Callers -> Calls] /\ \A d \in Callers : d # c => calls'[d] = calls[d]
         /\ UNCHANGED <<kind, acked, crashes>>
<1>1. /\ inodes' = [inodes EXCEPT ![calls[c].inode].order = made + 1]
      /\ calls' = Goto(c, "sync_dir") /\ entry' = calls[c].inode /\ since' = since \cup {entry'}
      /\ made' = made + 1 /\ calls[c].pc = "rename" /\ UNCHANGED <<kind, acked, crashes>>
  BY DEF Rename
<1>2. PICK k \in 1 .. Len(inodes) : k = calls[c].inode
  BY <1>1 DEF StoreTypes
<1> DEFINE x == [data |-> inodes[k].data, synced |-> inodes[k].synced, order |-> made + 1]
<1>3. inodes[k] \in Inodes /\ DOMAIN inodes = 1 .. Len(inodes) /\ made + 1 \in Nat
  BY Nodes DEF StoreTypes
<1>4. x \in Inodes /\ [inodes[k] EXCEPT !.order = made + 1] = x
  BY <1>3 DEF Inodes
<1>5. inodes' = [inodes EXCEPT ![k] = x]
  BY <1>1, <1>2, <1>3, <1>4
<1>6. x.data = inodes[k].data /\ x.synced = inodes[k].synced /\ x.order = made + 1
  OBVIOUS
<1> HIDE DEF x
<1>7. /\ inodes' \in Seq(Inodes) /\ Len(inodes') = Len(inodes) /\ inodes'[k] = x
      /\ \A i \in 1 .. Len(inodes) : i # k => inodes'[i] = inodes[i]
  BY <1>4, <1>5, NodeChanged
<1>8. PICK s \in Calls : s = [pc |-> "sync_dir", inode |-> calls[c].inode] /\ calls' = [calls EXCEPT ![c] = s]
  BY <1>1, GotoCall
<1>9. calls' \in [Callers -> Calls] /\ calls'[c] = s /\ \A d \in Callers : d # c => calls'[d] = calls[d]
  BY <1>8, CallChanged
<1> QED
  BY <1>1, <1>2, <1>6, <1>7, <1>8, <1>9

\* A call returns, with Ok or with an error.
LEMMA ReturnEffect ==
  ASSUME StoreTypes, NEW c \in Callers, SyncDir(c) \/ CallFails(c)
  PROVE  /\ calls' \in [Callers -> Calls] /\ calls'[c] = Idle
         /\ \A d \in Callers : d # c => calls'[d] = calls[d]
         /\ calls[c].pc # "idle" /\ calls[c].inode \in 1 .. Len(inodes)
         /\ UNCHANGED <<kind, inodes, entry, made, crashes>>
<1>1. calls' = [calls EXCEPT ![c] = Idle] /\ Idle \in Calls /\ calls[c].pc # "idle"
      /\ UNCHANGED <<kind, inodes, entry, made, crashes>>
  BY DEF SyncDir, CallFails, Idle, Calls
<1> QED
  BY <1>1, CallChanged DEF StoreTypes

\* A power failure damages no file that was synced, and ends every call.
LEMMA PowerFailsEffect ==
  ASSUME StoreTypes, PowerFails
  PROVE  /\ inodes' \in Seq(Inodes) /\ Len(inodes') = Len(inodes)
         /\ \A i \in 1 .. Len(inodes) : /\ inodes[i].synced => inodes'[i] = inodes[i]
                                        /\ inodes'[i].order = inodes[i].order
         /\ entry' \in since /\ since' = {entry'}
         /\ calls' \in [Callers -> Calls] /\ \A c \in Callers : calls'[c] = Idle
         /\ crashes' \in Nat /\ UNCHANGED <<kind, made, acked>>
<1>1. PICK lost \in SUBSET {i \in DOMAIN inodes : ~inodes[i].synced} :
         inodes' = [i \in DOMAIN inodes |->
                      IF i \in lost THEN [inodes[i] EXCEPT !.data = "part"] ELSE inodes[i]]
  BY DEF PowerFails
<1>2. Len(inodes) \in Nat /\ DOMAIN inodes = 1 .. Len(inodes) /\ \A i \in 1 .. Len(inodes) : inodes[i] \in Inodes
  BY Nodes
<1>3. \A i \in 1 .. Len(inodes) :
         /\ inodes'[i] \in Inodes /\ inodes'[i].order = inodes[i].order
         /\ inodes[i].synced => inodes'[i] = inodes[i]
  BY <1>1, <1>2 DEF Inodes
<1>4. inodes' \in [1 .. Len(inodes) -> Inodes]
  BY <1>1, <1>2, <1>3
<1>5. inodes' \in Seq(Inodes) /\ Len(inodes') = Len(inodes)
  <2>1. PICK n \in Nat : n = Len(inodes)
    BY <1>2
  <2>2. PICK q \in [1 .. n -> Inodes] : q = inodes'
    BY <1>4, <2>1
  <2>3. q \in Seq(Inodes) /\ Len(q) = n
    OBVIOUS
  <2> QED
    BY <2>1, <2>2, <2>3
<1>6. entry' \in since /\ since' = {entry'} /\ calls' = [c \in Callers |-> Idle] /\ crashes' = crashes + 1
      /\ UNCHANGED <<kind, made, acked>>
  BY DEF PowerFails
<1>7. Idle \in Calls /\ crashes' \in Nat
  BY <1>6 DEF Idle, Calls, StoreTypes
<1> QED
  BY <1>3, <1>5, <1>6, <1>7


\* The types are kept by every step.
LEMMA StepTypes ==
  ASSUME StoreTypes, StoreNext
  PROVE  StoreTypes'
<1>0. /\ Len(inodes) \in Nat /\ kind \in {"put", "create"}
      /\ since \subseteq 0 .. Len(inodes) /\ entry \in since
      /\ calls \in [Callers -> Calls] /\ made \in Nat /\ crashes \in Nat
      /\ \A c \in Callers : calls[c].pc # "idle" => calls[c].inode \in 1 .. Len(inodes)
      /\ acked \subseteq 1 .. Len(inodes) /\ inodes \in Seq(Inodes)
  BY Nodes DEF StoreTypes, Calls
<1> DEFINE Goal == /\ kind' \in {"put", "create"} /\ inodes' \in Seq(Inodes)
                   /\ since' \subseteq 0 .. Len(inodes') /\ entry' \in since'
                   /\ calls' \in [Callers -> Calls]
                   /\ \A c \in Callers : calls'[c].pc # "idle" => calls'[c].inode \in 1 .. Len(inodes')
                   /\ made' \in Nat /\ acked' \subseteq 1 .. Len(inodes') /\ crashes' \in Nat
<1>1. SUFFICES Goal
  BY DEF StoreTypes, Calls
<1>2. Idle.pc = "idle"
  BY DEF Idle
<1>3. CASE PowerFails
  BY <1>0, <1>2, <1>3, PowerFailsEffect
<1>4. ASSUME NEW c \in Callers, PutWrite(c)
      PROVE  Goal
  <2>1. /\ inodes' \in Seq(Inodes) /\ Len(inodes') = Len(inodes) + 1
        /\ calls' \in [Callers -> Calls] /\ calls'[c] = [pc |-> "sync", inode |-> Len(inodes) + 1]
        /\ \A d \in Callers : d # c => calls'[d] = calls[d]
        /\ UNCHANGED <<kind, entry, since, made, acked, crashes>>
    BY <1>4, PutWriteEffect
  <2>2. 0 .. Len(inodes) \subseteq 0 .. Len(inodes') /\ 1 .. Len(inodes) \subseteq 1 .. Len(inodes')
        /\ Len(inodes) + 1 \in 1 .. Len(inodes')
    BY <1>0, <2>1
  <2> QED
    BY <1>0, <2>1, <2>2
<1>5. ASSUME NEW c \in Callers, Create(c)
      PROVE  Goal
  <2>1. /\ inodes' \in Seq(Inodes) /\ Len(inodes') = Len(inodes) + 1
        /\ entry' = Len(inodes) + 1 /\ since' = since \cup {entry'} /\ made' \in Nat
        /\ calls' \in [Callers -> Calls] /\ calls'[c] = [pc |-> "write", inode |-> entry']
        /\ \A d \in Callers : d # c => calls'[d] = calls[d]
        /\ UNCHANGED <<kind, acked, crashes>>
    BY <1>5, CreateEffect
  <2>2. 0 .. Len(inodes) \subseteq 0 .. Len(inodes') /\ 1 .. Len(inodes) \subseteq 1 .. Len(inodes')
        /\ Len(inodes) + 1 \in 1 .. Len(inodes') /\ Len(inodes) + 1 \in 0 .. Len(inodes')
    BY <1>0, <2>1
  <2>3. \A d \in Callers : calls'[d].pc # "idle" => calls'[d].inode \in 1 .. Len(inodes')
    BY <1>0, <2>1, <2>2
  <2>4. since' \subseteq 0 .. Len(inodes') /\ acked' \subseteq 1 .. Len(inodes') /\ entry' \in since'
    BY <1>0, <2>1, <2>2
  <2> QED
    BY <1>0, <2>1, <2>3, <2>4
<1>6. ASSUME NEW c \in Callers, CreateWrite(c)
      PROVE  Goal
  <2>1. /\ inodes' \in Seq(Inodes) /\ Len(inodes') = Len(inodes)
        /\ calls[c].pc = "write" /\ calls[c].inode \in 1 .. Len(inodes)
        /\ calls'[c] = Idle \/ calls'[c] = [pc |-> "sync", inode |-> calls[c].inode]
        /\ calls' \in [Callers -> Calls] /\ \A d \in Callers : d # c => calls'[d] = calls[d]
        /\ UNCHANGED <<kind, entry, since, made, acked, crashes>>
    BY <1>6, CreateWriteEffect, Zenon
  <2>2. calls'[c].pc # "idle" => calls'[c].inode = calls[c].inode
    BY <1>2, <2>1
  <2>3. \A d \in Callers : calls'[d].pc # "idle" => calls'[d].inode \in 1 .. Len(inodes')
    BY <1>0, <2>1, <2>2
  <2> QED
    BY <1>0, <2>1, <2>3, Zenon
<1>7. ASSUME NEW c \in Callers, SyncFile(c)
      PROVE  Goal
  <2>1. /\ inodes' \in Seq(Inodes) /\ Len(inodes') = Len(inodes) /\ calls[c].inode \in 1 .. Len(inodes)
        /\ calls'[c] = [pc |-> IF kind = "put" THEN "rename" ELSE "sync_dir", inode |-> calls[c].inode]
        /\ calls' \in [Callers -> Calls] /\ \A d \in Callers : d # c => calls'[d] = calls[d]
        /\ UNCHANGED <<kind, entry, since, made, acked, crashes>>
    BY <1>7, SyncFileEffect, Zenon
  <2>2. \A d \in Callers : calls'[d].pc # "idle" => calls'[d].inode \in 1 .. Len(inodes')
    BY <1>0, <2>1
  <2> QED
    BY <1>0, <2>1, <2>2, Zenon
<1>8. ASSUME NEW c \in Callers, Rename(c)
      PROVE  Goal
  <2>1. /\ inodes' \in Seq(Inodes) /\ Len(inodes') = Len(inodes) /\ calls[c].inode \in 1 .. Len(inodes)
        /\ entry' = calls[c].inode /\ since' = since \cup {entry'} /\ made' = made + 1
        /\ calls' \in [Callers -> Calls] /\ calls'[c] = [pc |-> "sync_dir", inode |-> calls[c].inode]
        /\ \A d \in Callers : d # c => calls'[d] = calls[d]
        /\ UNCHANGED <<kind, acked, crashes>>
    BY <1>8, RenameEffect
  <2> QED
    BY <1>0, <2>1
<1>9. ASSUME NEW c \in Callers, SyncDir(c) \/ CallFails(c)
      PROVE  Goal
  <2>1. /\ calls' \in [Callers -> Calls] /\ calls'[c] = Idle
        /\ \A d \in Callers : d # c => calls'[d] = calls[d]
        /\ calls[c].pc # "idle" /\ calls[c].inode \in 1 .. Len(inodes)
        /\ UNCHANGED <<kind, inodes, entry, made, crashes>>
    BY <1>9, ReturnEffect
  <2>2. since' \in {since, {entry}} /\ acked' \in {acked, acked \cup {calls[c].inode}}
    BY <1>9 DEF SyncDir, CallFails
  <2> QED
    BY <1>0, <1>2, <2>1, <2>2
<1> HIDE DEF Goal
<1> QED
  BY <1>3, <1>4, <1>5, <1>6, <1>7, <1>8, <1>9 DEF StoreNext

\* put: an entry leads to a synced file, and no entry a crash may lead back to
\* is older than an acknowledged one.
LEMMA StepPut ==
  ASSUME StoreTypes, kind = "put", PutInv, StoreNext
  PROVE  PutInv'
<1>0. /\ Len(inodes) \in Nat /\ DOMAIN inodes = 1 .. Len(inodes)
      /\ \A i \in 1 .. Len(inodes) : inodes[i] \in Inodes /\ inodes[i].order \in Nat
      /\ since \subseteq 0 .. Len(inodes) /\ entry \in since
      /\ made \in Nat /\ acked \subseteq 1 .. Len(inodes)
      /\ \A c \in Callers : calls[c].pc # "idle" => calls[c].inode \in 1 .. Len(inodes)
  BY Nodes DEF StoreTypes, Inodes
<1>1. /\ Len(inodes') \in Nat /\ DOMAIN inodes' = 1 .. Len(inodes')
  BY StepTypes, LenProperties DEF StoreTypes
<1>2. Idle.pc = "idle"
  BY DEF Idle
<1>3. CASE PowerFails
  <2>1. /\ Len(inodes') = Len(inodes)
        /\ \A i \in 1 .. Len(inodes) : /\ inodes[i].synced => inodes'[i] = inodes[i]
                                       /\ inodes'[i].order = inodes[i].order
        /\ entry' \in since /\ since' = {entry'}
        /\ \A c \in Callers : calls'[c] = Idle
        /\ UNCHANGED <<kind, made, acked>>
    BY <1>3, PowerFailsEffect
  <2>2. \A i \in DOMAIN inodes' : inodes'[i].order <= made'
    BY <1>0, <1>1, <2>1 DEF PutInv
  <2>3. \A e \in since' \ {0} : Safe(e)'
    BY <1>0, <2>1 DEF PutInv, Safe
  <2>4. \A i \in acked' : /\ Safe(i)' /\ 0 \notin since'
                          /\ \A e \in since' : inodes'[i].order <= inodes'[e].order
    <3> SUFFICES ASSUME NEW i \in acked
                 PROVE  /\ Safe(i)' /\ 0 \notin since'
                        /\ \A e \in since' : inodes'[i].order <= inodes'[e].order
      BY <2>1
    <3>1. Safe(i) /\ 0 \notin since /\ inodes[i].order <= inodes[entry'].order
      BY <2>1 DEF PutInv
    <3>2. i \in 1 .. Len(inodes) /\ entry' \in 1 .. Len(inodes)
      BY <1>0, <2>1, <3>1
    <3>3. Safe(i)'
      BY <2>1, <3>1, <3>2 DEF Safe
    <3> QED
      BY <2>1, <3>1, <3>2, <3>3
  <2> QED
    BY <1>2, <2>1, <2>2, <2>3, <2>4 DEF PutInv
<1>4. ASSUME NEW c \in Callers, PutWrite(c)
      PROVE  PutInv'
  <2> DEFINE n == Len(inodes) + 1
  <2>1. /\ Len(inodes') = n /\ inodes'[n] = [data |-> "whole", synced |-> FALSE, order |-> 0]
        /\ \A i \in 1 .. Len(inodes) : inodes'[i] = inodes[i]
        /\ calls'[c] = [pc |-> "sync", inode |-> n]
        /\ \A d \in Callers : d # c => calls'[d] = calls[d]
        /\ UNCHANGED <<kind, entry, since, made, acked>>
    BY <1>4, PutWriteEffect
  <2>2. n \in Nat /\ n \notin 0 .. Len(inodes) /\ \A i \in 1 .. n : i \in 1 .. Len(inodes) \/ i = n
    BY <1>0
  <2>3. inodes'[n].data = "whole" /\ inodes'[n].order = 0 /\ calls'[c].pc = "sync" /\ calls'[c].inode = n
    BY <2>1
  <2> HIDE DEF n
  <2>4. \A i \in DOMAIN inodes' : inodes'[i].order <= made'
    <3> SUFFICES ASSUME NEW i \in 1 .. n PROVE inodes'[i].order <= made
      BY <1>1, <2>1
    <3>1. CASE i = n
      BY <1>0, <2>3, <3>1
    <3>2. CASE i \in 1 .. Len(inodes)
      BY <1>0, <2>1, <3>2 DEF PutInv
    <3> QED
      BY <2>2, <3>1, <3>2
  <2>5. \A e \in since' \ {0} : Safe(e)'
    <3> SUFFICES ASSUME NEW e \in since, e # 0 PROVE Safe(e)'
      BY <2>1
    <3>1. e \in 1 .. Len(inodes) /\ Safe(e)
      BY <1>0 DEF PutInv
    <3> QED
      BY <2>1, <3>1 DEF Safe
  <2>6. ASSUME NEW d \in Callers
        PROVE  /\ calls'[d].pc # "write"
               /\ calls'[d].pc # "idle" => inodes'[calls'[d].inode].data = "whole"
               /\ calls'[d].pc \in {"sync", "rename"} => calls'[d].inode \notin acked /\ calls'[d].inode \notin since
               /\ calls'[d].pc \in {"rename", "sync_dir"} => inodes'[calls'[d].inode].synced
               /\ calls'[d].pc = "sync_dir" =>
                     entry # 0 /\ inodes'[calls'[d].inode].order <= inodes'[entry].order
    <3>1. CASE d = c
      BY <1>0, <2>2, <2>3, <3>1
    <3>2. CASE d # c
      <4>1. calls'[d] = calls[d] /\ (calls[d].pc # "idle" =>
               calls[d].inode \in 1 .. Len(inodes) /\ inodes'[calls[d].inode] = inodes[calls[d].inode])
        BY <1>0, <2>1, <3>2
      <4>2. entry # 0 => inodes'[entry] = inodes[entry]
        BY <1>0, <2>1
      <4> QED
        BY <4>1, <4>2 DEF PutInv
    <3> QED
      BY <3>1, <3>2
  <2>7. \A d, e \in Callers :
          calls'[d].pc # "idle" /\ calls'[e].pc # "idle" /\ d # e => calls'[d].inode # calls'[e].inode
    <3>1. \A d \in Callers : d # c /\ calls'[d].pc # "idle" => calls'[d].inode # n
      BY <1>0, <2>1, <2>2
    <3> QED
      BY <2>1, <2>3, <3>1 DEF PutInv
  <2>8. \A i \in acked : /\ Safe(i)' /\ 0 \notin since
                         /\ \A e \in since : inodes'[i].order <= inodes'[e].order
    <3> SUFFICES ASSUME NEW i \in acked
                 PROVE  /\ Safe(i)' /\ 0 \notin since
                        /\ \A e \in since : inodes'[i].order <= inodes'[e].order
      OBVIOUS
    <3>1. Safe(i) /\ 0 \notin since /\ \A e \in since : inodes[i].order <= inodes[e].order
      BY DEF PutInv
    <3>2. inodes'[i] = inodes[i] /\ \A e \in since : inodes'[e] = inodes[e]
      BY <1>0, <2>1, <3>1
    <3> QED
      BY <3>1, <3>2 DEF Safe
  <2> QED
    BY <2>1, <2>4, <2>5, <2>6, <2>7, <2>8 DEF PutInv
<1>5. ASSUME NEW c \in Callers, SyncFile(c)
      PROVE  PutInv'
  <2>1. /\ Len(inodes') = Len(inodes) /\ calls[c].pc = "sync" /\ calls[c].inode \in 1 .. Len(inodes)
        /\ \A i \in 1 .. Len(inodes) : i # calls[c].inode => inodes'[i] = inodes[i]
        /\ inodes'[calls[c].inode].synced
        /\ inodes'[calls[c].inode].data = inodes[calls[c].inode].data
        /\ inodes'[calls[c].inode].order = inodes[calls[c].inode].order
        /\ calls'[c] = [pc |-> "rename", inode |-> calls[c].inode]
        /\ \A d \in Callers : d # c => calls'[d] = calls[d]
        /\ UNCHANGED <<kind, entry, since, made, acked>>
    BY <1>5, SyncFileEffect
  <2>2. calls'[c].pc = "rename" /\ calls'[c].inode = calls[c].inode
    BY <2>1
  <2>3. \A i \in 1 .. Len(inodes) : /\ inodes'[i].data = inodes[i].data /\ inodes'[i].order = inodes[i].order
                                    /\ inodes[i].synced => inodes'[i].synced
    BY <2>1
  <2>4. /\ inodes[calls[c].inode].data = "whole" /\ calls[c].inode \notin acked /\ calls[c].inode \notin since
    BY <2>1 DEF PutInv
  <2>5. \A i \in DOMAIN inodes' : inodes'[i].order <= made'
    BY <1>0, <1>1, <2>1, <2>3 DEF PutInv
  <2>6. \A e \in since' \ {0} : Safe(e)'
    BY <1>0, <2>1, <2>3 DEF PutInv, Safe
  <2>7. ASSUME NEW d \in Callers
        PROVE  /\ calls'[d].pc # "write"
               /\ calls'[d].pc # "idle" => inodes'[calls'[d].inode].data = "whole"
               /\ calls'[d].pc \in {"sync", "rename"} => calls'[d].inode \notin acked /\ calls'[d].inode \notin since
               /\ calls'[d].pc \in {"rename", "sync_dir"} => inodes'[calls'[d].inode].synced
               /\ calls'[d].pc = "sync_dir" =>
                     entry # 0 /\ inodes'[calls'[d].inode].order <= inodes'[entry].order
    <3>1. CASE d = c
      BY <2>1, <2>2, <2>3, <2>4, <3>1
    <3>2. CASE d # c
      <4>1. calls'[d] = calls[d] /\ (calls[d].pc # "idle" => calls[d].inode \in 1 .. Len(inodes))
        BY <1>0, <2>1, <3>2
      <4>2. entry # 0 => inodes'[entry].order = inodes[entry].order
        BY <1>0, <2>3
      <4> QED
        BY <2>3, <4>1, <4>2 DEF PutInv
    <3> QED
      BY <3>1, <3>2
  <2>8. \A d, e \in Callers :
          calls'[d].pc # "idle" /\ calls'[e].pc # "idle" /\ d # e => calls'[d].inode # calls'[e].inode
    BY <2>1, <2>2 DEF PutInv
  <2>9. \A i \in acked : /\ Safe(i)' /\ 0 \notin since
                         /\ \A e \in since : inodes'[i].order <= inodes'[e].order
    <3> SUFFICES ASSUME NEW i \in acked
                 PROVE  /\ Safe(i)' /\ 0 \notin since
                        /\ \A e \in since : inodes'[i].order <= inodes'[e].order
      OBVIOUS
    <3>1. Safe(i) /\ 0 \notin since /\ \A e \in since : inodes[i].order <= inodes[e].order
      BY DEF PutInv
    <3>2. i \in 1 .. Len(inodes) /\ \A e \in since : e \in 1 .. Len(inodes)
      BY <1>0, <3>1
    <3> QED
      BY <2>3, <3>1, <3>2 DEF Safe
  <2> QED
    BY <2>1, <2>5, <2>6, <2>7, <2>8, <2>9 DEF PutInv
<1>6. ASSUME NEW c \in Callers, Rename(c)
      PROVE  PutInv'
  <2>1. /\ Len(inodes') = Len(inodes) /\ calls[c].pc = "rename" /\ calls[c].inode \in 1 .. Len(inodes)
        /\ \A i \in 1 .. Len(inodes) : i # calls[c].inode => inodes'[i] = inodes[i]
        /\ inodes'[calls[c].inode].synced = inodes[calls[c].inode].synced
        /\ inodes'[calls[c].inode].data = inodes[calls[c].inode].data
        /\ inodes'[calls[c].inode].order = made + 1 /\ made' = made + 1
        /\ entry' = calls[c].inode /\ since' = since \cup {entry'}
        /\ calls'[c] = [pc |-> "sync_dir", inode |-> calls[c].inode]
        /\ \A d \in Callers : d # c => calls'[d] = calls[d]
        /\ UNCHANGED <<kind, acked>>
    BY <1>6, RenameEffect
  <2>2. calls'[c].pc = "sync_dir" /\ calls'[c].inode = calls[c].inode
    BY <2>1
  <2>3. PICK k : k = calls[c].inode
    OBVIOUS
  <2>4. /\ inodes[k].data = "whole" /\ inodes[k].synced /\ k \notin acked /\ k \notin since
        /\ k \in 1 .. Len(inodes) /\ k # 0
    BY <2>1, <2>3 DEF PutInv
  <2>5. inodes'[k].data = "whole" /\ inodes'[k].synced /\ inodes'[k].order = made + 1
        /\ \A i \in 1 .. Len(inodes) : i # k => inodes'[i] = inodes[i]
    BY <2>1, <2>3, <2>4
  <2>6. \A i \in 1 .. Len(inodes) : inodes'[i].order <= made + 1
    <3> SUFFICES ASSUME NEW i \in 1 .. Len(inodes) PROVE inodes'[i].order <= made + 1
      OBVIOUS
    <3>1. CASE i = k
      BY <1>0, <2>5, <3>1
    <3>2. CASE i # k
      BY <1>0, <2>5, <3>2 DEF PutInv
    <3> QED
      BY <3>1, <3>2
  <2>7. \A e \in since' \ {0} : Safe(e)'
    <3> SUFFICES ASSUME NEW e \in since', e # 0 PROVE Safe(e)'
      OBVIOUS
    <3>1. CASE e = k
      BY <2>5, <3>1 DEF Safe
    <3>2. CASE e # k
      BY <1>0, <2>1, <2>3, <2>5, <3>2 DEF Safe, PutInv
    <3> QED
      BY <3>1, <3>2
  <2>8. ASSUME NEW d \in Callers
        PROVE  /\ calls'[d].pc # "write"
               /\ calls'[d].pc # "idle" => inodes'[calls'[d].inode].data = "whole"
               /\ calls'[d].pc \in {"sync", "rename"} =>
                     calls'[d].inode \notin acked /\ calls'[d].inode \notin since'
               /\ calls'[d].pc \in {"rename", "sync_dir"} => inodes'[calls'[d].inode].synced
               /\ calls'[d].pc = "sync_dir" =>
                     entry' # 0 /\ inodes'[calls'[d].inode].order <= inodes'[entry'].order
    <3>1. CASE d = c
      BY <1>0, <2>1, <2>2, <2>3, <2>4, <2>5, <3>1
    <3>2. CASE d # c
      <4>1. calls'[d] = calls[d] /\ (calls[d].pc # "idle" =>
               calls[d].inode \in 1 .. Len(inodes) /\ calls[d].inode # k)
        BY <1>0, <2>1, <2>3, <3>2 DEF PutInv
      <4>2. calls[d].pc # "idle" => inodes'[calls[d].inode] = inodes[calls[d].inode]
        BY <2>5, <4>1
      <4>3. calls[d].pc # "idle" => inodes'[calls[d].inode].order <= inodes'[entry'].order
        BY <2>1, <2>3, <2>5, <2>6, <4>1
      <4> QED
        BY <2>1, <2>3, <2>4, <4>1, <4>2, <4>3 DEF PutInv
    <3> QED
      BY <3>1, <3>2
  <2>9. \A d, e \in Callers :
          calls'[d].pc # "idle" /\ calls'[e].pc # "idle" /\ d # e => calls'[d].inode # calls'[e].inode
    BY <2>1, <2>2 DEF PutInv
  <2>10. \A i \in acked : /\ Safe(i)' /\ 0 \notin since'
                          /\ \A e \in since' : inodes'[i].order <= inodes'[e].order
    <3> SUFFICES ASSUME NEW i \in acked
                 PROVE  /\ Safe(i)' /\ 0 \notin since'
                        /\ \A e \in since' : inodes'[i].order <= inodes'[e].order
      OBVIOUS
    <3>1. Safe(i) /\ 0 \notin since /\ \A e \in since : inodes[i].order <= inodes[e].order
      BY DEF PutInv
    <3>2. i \in 1 .. Len(inodes) /\ i # k /\ \A e \in since : e \in 1 .. Len(inodes) /\ e # k
      BY <1>0, <2>4, <3>1
    <3>3. inodes'[i] = inodes[i] /\ \A e \in since : inodes'[e] = inodes[e]
      BY <2>5, <3>2
    <3>4. inodes'[i].order <= inodes'[k].order
      BY <2>5, <2>6, <3>2
    <3> QED
      BY <2>1, <2>3, <2>4, <3>1, <3>3, <3>4 DEF Safe
  <2> QED
    BY <1>1, <2>1, <2>6, <2>7, <2>8, <2>9, <2>10 DEF PutInv
<1>7. ASSUME NEW c \in Callers, SyncDir(c) \/ CallFails(c)
      PROVE  PutInv'
  <2>1. /\ calls'[c] = Idle /\ calls[c].pc # "idle" /\ calls[c].inode \in 1 .. Len(inodes)
        /\ \A d \in Callers : d # c => calls'[d] = calls[d]
        /\ UNCHANGED <<kind, inodes, entry, made>>
    BY <1>7, ReturnEffect
  <2>2. \/ UNCHANGED <<since, acked>>
        \/ calls[c].pc = "sync_dir" /\ since' = {entry} /\ acked' = acked \cup {calls[c].inode}
    BY <1>7 DEF SyncDir, CallFails
  <2>3. since' \subseteq since /\ acked' \subseteq acked \cup {calls[c].inode}
    BY <1>0, <2>2
  <2>4. \A e \in since' \ {0} : Safe(e)'
    BY <2>1, <2>3 DEF PutInv, Safe
  <2>5. ASSUME NEW d \in Callers
        PROVE  /\ calls'[d].pc # "write"
               /\ calls'[d].pc # "idle" => inodes[calls'[d].inode].data = "whole"
               /\ calls'[d].pc \in {"sync", "rename"} =>
                     calls'[d].inode \notin acked' /\ calls'[d].inode \notin since'
               /\ calls'[d].pc \in {"rename", "sync_dir"} => inodes[calls'[d].inode].synced
               /\ calls'[d].pc = "sync_dir" =>
                     entry # 0 /\ inodes[calls'[d].inode].order <= inodes[entry].order
    <3>1. CASE d = c
      BY <1>2, <2>1, <3>1
    <3>2. CASE d # c
      <4>1. calls'[d] = calls[d] /\ (calls[d].pc # "idle" => calls[d].inode # calls[c].inode)
        BY <2>1, <3>2 DEF PutInv
      <4> QED
        BY <2>3, <4>1 DEF PutInv
    <3> QED
      BY <3>1, <3>2
  <2>6. \A d, e \in Callers :
          calls'[d].pc # "idle" /\ calls'[e].pc # "idle" /\ d # e => calls'[d].inode # calls'[e].inode
    BY <1>2, <2>1 DEF PutInv
  <2>7. \A i \in acked' : /\ Safe(i) /\ 0 \notin since'
                          /\ \A e \in since' : inodes[i].order <= inodes[e].order
    <3>1. CASE UNCHANGED <<since, acked>>
      BY <3>1 DEF PutInv
    <3>2. CASE calls[c].pc = "sync_dir" /\ since' = {entry} /\ acked' = acked \cup {calls[c].inode}
      <4>1. /\ entry # 0 /\ inodes[calls[c].inode].order <= inodes[entry].order
            /\ Safe(calls[c].inode)
        BY <3>2 DEF PutInv, Safe
      <4>2. \A i \in acked : Safe(i) /\ inodes[i].order <= inodes[entry].order
        BY <1>0 DEF PutInv
      <4> QED
        BY <3>2, <4>1, <4>2
    <3> QED
      BY <2>2, <3>1, <3>2
  <2>8. \A i \in acked' : Safe(i)'
    BY <2>1, <2>7 DEF Safe
  <2>9. \A i \in DOMAIN inodes' : inodes'[i].order <= made'
    BY <2>1 DEF PutInv
  <2> QED
    BY <2>1, <2>4, <2>5, <2>6, <2>7, <2>8, <2>9 DEF PutInv
<1>8. ASSUME NEW c \in Callers, Create(c) \/ CreateWrite(c)
      PROVE  PutInv'
  BY <1>8, CreateEffect, CreateWriteEffect DEF PutInv
<1> QED
  BY <1>3, <1>4, <1>5, <1>6, <1>7, <1>8 DEF StoreNext

\* An object written with put_if_absent keeps CreateInv: a name that a call has
\* made stays that call's own until a crash takes it back, and then nobody was
\* told of it.
LEMMA StepCreate ==
  ASSUME StoreTypes, CreateInv, kind = "create", StoreNext
  PROVE  CreateInv'
<1>0. /\ Len(inodes) \in Nat /\ since \subseteq 0 .. Len(inodes) /\ entry \in since
      /\ \A c \in Callers : calls[c].pc # "idle" => calls[c].inode \in 1 .. Len(inodes)
      /\ acked \subseteq 1 .. Len(inodes)
  BY Nodes, Zenon DEF StoreTypes
<1>1. Idle.pc = "idle"
  BY DEF Idle
<1>2. CASE PowerFails
  <2>1. /\ calls' = [c \in Callers |-> Idle] /\ UNCHANGED acked
        /\ entry' \in since /\ since' = {entry'}
        /\ \A i \in 1 .. Len(inodes) : inodes[i].synced => inodes'[i] = inodes[i]
    BY <1>2, PowerFailsEffect
  <2>2. \A i \in acked : i = entry' /\ since' = {entry'} /\ Safe(i)'
    BY <1>0, <2>1 DEF CreateInv, Safe
  <2>3. \A c \in Callers : calls'[c].pc = "idle"
    BY <1>1, <2>1
  <2> QED
    BY <2>1, <2>2, <2>3 DEF CreateInv
<1>3. ASSUME NEW c \in Callers, Create(c)
      PROVE  CreateInv'
  <2>1. /\ entry = 0 /\ calls[c].pc = "idle"
    BY <1>3 DEF Create
  <2>2. /\ calls'[c] = [pc |-> "write", inode |-> entry']
        /\ \A d \in Callers : d # c => calls'[d] = calls[d]
        /\ UNCHANGED acked
    BY <1>3, CreateEffect, Zenon
  <2>3. acked = {} /\ \A d \in Callers : calls[d].pc = "idle"
    BY <1>0, <2>1 DEF CreateInv
  <2>4. calls'[c].pc = "write" /\ calls'[c].inode = entry'
    BY <2>2
  <2>5. \A d \in Callers : calls'[d].pc # "idle" => d = c
    BY <2>2, <2>3
  <2> QED
    BY <2>2, <2>3, <2>4, <2>5 DEF CreateInv
<1>4. ASSUME NEW c \in Callers, CreateWrite(c)
      PROVE  CreateInv'
  <2>1. /\ calls[c].pc = "write" /\ calls[c].inode \in 1 .. Len(inodes)
        /\ \/ calls'[c] = Idle
           \/ /\ calls'[c] = [pc |-> "sync", inode |-> calls[c].inode]
              /\ inodes'[calls[c].inode].data = "whole"
        /\ \A d \in Callers : d # c => calls'[d] = calls[d]
        /\ UNCHANGED <<entry, since, acked>>
    BY <1>4, CreateWriteEffect, Zenon
  <2>2. calls[c].inode = entry /\ acked = {} /\ \A d \in Callers : d # c => calls[d].pc = "idle"
    BY <2>1 DEF CreateInv
  <2>3. \/ calls'[c].pc = "idle"
        \/ calls'[c].pc = "sync" /\ calls'[c].inode = entry /\ inodes'[entry].data = "whole"
    BY <1>1, <2>1, <2>2
  <2>4. \A d \in Callers : calls'[d].pc # "idle" => d = c
    BY <2>1, <2>2
  <2> QED
    BY <2>1, <2>2, <2>3, <2>4 DEF CreateInv
<1>5. ASSUME NEW c \in Callers, SyncFile(c)
      PROVE  CreateInv'
  <2>1. /\ calls[c].pc = "sync" /\ calls[c].inode \in 1 .. Len(inodes)
        /\ inodes'[calls[c].inode].synced
        /\ inodes'[calls[c].inode].data = inodes[calls[c].inode].data
        /\ calls'[c] = [pc |-> IF kind = "put" THEN "rename" ELSE "sync_dir", inode |-> calls[c].inode]
        /\ \A d \in Callers : d # c => calls'[d] = calls[d]
        /\ UNCHANGED <<entry, since, acked>>
    BY <1>5, SyncFileEffect, Zenon
  <2>2. /\ calls[c].inode = entry /\ acked = {} /\ inodes[entry].data = "whole"
        /\ \A d \in Callers : d # c => calls[d].pc = "idle"
    BY <2>1 DEF CreateInv
  <2>3. /\ calls'[c].pc = "sync_dir" /\ calls'[c].inode = entry
        /\ inodes'[entry].data = "whole" /\ inodes'[entry].synced
    BY <2>1, <2>2
  <2>4. \A d \in Callers : calls'[d].pc # "idle" => d = c
    BY <2>1, <2>2
  <2> QED
    BY <2>1, <2>2, <2>3, <2>4 DEF CreateInv
<1>6. ASSUME NEW c \in Callers, SyncDir(c) \/ CallFails(c)
      PROVE  CreateInv'
  <2>1. /\ calls'[c] = Idle /\ calls[c].pc # "idle"
        /\ \A d \in Callers : d # c => calls'[d] = calls[d]
        /\ UNCHANGED <<inodes, entry>>
    BY <1>6, ReturnEffect, Zenon
  <2>2. \/ UNCHANGED <<since, acked>>
        \/ calls[c].pc = "sync_dir" /\ since' = {entry} /\ acked' = acked \cup {calls[c].inode}
    BY <1>6 DEF SyncDir, CallFails
  <2>3. /\ calls[c].inode = entry /\ acked = {} /\ \A d \in Callers : d # c => calls[d].pc = "idle"
        /\ calls[c].pc = "sync_dir" => Safe(entry)
    BY <2>1 DEF CreateInv, Safe
  <2>4. \A d \in Callers : calls'[d].pc = "idle"
    BY <1>1, <2>1, <2>3
  <2>5. \A i \in acked' : i = entry /\ since' = {entry} /\ Safe(i)
    BY <2>2, <2>3
  <2>6. \A i \in acked' : Safe(i)'
    BY <2>1, <2>5 DEF Safe
  <2> QED
    BY <2>1, <2>4, <2>5, <2>6 DEF CreateInv
<1>7. ASSUME NEW c \in Callers, PutWrite(c) \/ Rename(c)
      PROVE  CreateInv'
  BY <1>7 DEF PutWrite, Rename, CreateInv
<1> QED
  BY <1>2, <1>3, <1>4, <1>5, <1>6, <1>7 DEF StoreNext

\* How an object is written does not change.
LEMMA KindStays ==
  ASSUME StoreNext
  PROVE  kind' = kind
  BY DEF StoreNext, PowerFails, PutWrite, Create, CreateWrite, SyncFile, Rename, SyncDir, CallFails

\* Before the first call there is no object, and nobody was told of one.
LEMMA StoreStarts ==
  ASSUME StoreInit
  PROVE  StoreInv
<1>1. inodes \in Seq(Inodes) /\ Len(inodes) = 0
  BY DEF StoreInit
<1>2. Idle.pc = "idle" /\ Idle \in Calls
  BY DEF Idle, Calls
<1>3. /\ calls = [c \in Callers |-> Idle] /\ kind \in {"put", "create"} /\ entry = 0 /\ since = {0}
      /\ made = 0 /\ acked = {} /\ crashes = 0
  BY DEF StoreInit
<1>4. \A c \in Callers : calls[c].pc = "idle"
  BY <1>2, <1>3
<1>5. StoreTypes
  BY <1>1, <1>2, <1>3, <1>4 DEF StoreTypes, Calls
<1>6. PutInv
  BY <1>1, <1>3, <1>4 DEF PutInv
<1>7. CreateInv
  BY <1>3, <1>4 DEF CreateInv
<1> QED
  BY <1>5, <1>6, <1>7 DEF StoreInv

\* The local store's calls, in any number and in any interleaving, with I/O
\* errors and power failures wherever they fall, keep StoreInv: only a synced
\* file is given the object's name by put, and a name that put_if_absent made is
\* never made again once its call has returned Ok.
THEOREM StoreInvariant == StoreSpec => []StoreInv
<1>1. StoreInit => StoreInv
  BY StoreStarts
<1>2. StoreInv /\ [StoreNext]_storeVars => StoreInv'
  <2> SUFFICES ASSUME StoreInv, [StoreNext]_storeVars PROVE StoreInv'
    OBVIOUS
  <2>1. CASE StoreNext
    <3>1. StoreTypes /\ kind \in {"put", "create"} /\ kind' = kind
      BY <2>1, KindStays DEF StoreInv, StoreTypes
    <3>2. StoreTypes'
      BY <2>1, <3>1, StepTypes
    <3>3. kind = "put" => PutInv'
      BY <2>1, <3>1, StepPut DEF StoreInv
    <3>4. kind = "create" => CreateInv'
      BY <2>1, <3>1, StepCreate DEF StoreInv
    <3> QED
      BY <3>1, <3>2, <3>3, <3>4 DEF StoreInv
  <2>2. CASE UNCHANGED storeVars
    BY <2>2 DEF storeVars, StoreInv, StoreTypes, PutInv, CreateInv, Safe
  <2> QED
    BY <2>1, <2>2
<1> QED
  BY <1>1, <1>2, PTL DEF StoreSpec

\* For any number of callers, files and power failures: whatever a put has
\* acknowledged, it or a later one is there whole, a get never finds a torn
\* object that was put, and one call of put_if_absent at most returns Ok.
THEOREM PutsDurable == StoreSpec => []PutDurable
<1>1. StoreInv => PutDurable
  <2> SUFFICES ASSUME StoreInv PROVE PutDurable
    OBVIOUS
  <2>1. entry \in since /\ entry \in 0 .. Len(inodes)
    BY DEF StoreInv, StoreTypes
  <2>2. \A i \in 1 .. Len(inodes) : inodes[i].order \in Nat
    BY Nodes DEF StoreInv, Inodes
  <2>3. kind = "put" => ObjectWhole /\ AckedDurable
    <3> SUFFICES ASSUME kind = "put" PROVE ObjectWhole /\ AckedDurable
      OBVIOUS
    <3>1. PutInv /\ acked \subseteq 1 .. Len(inodes)
      BY DEF StoreInv, StoreTypes
    <3>2. ObjectWhole
      BY <2>1, <3>1 DEF PutInv, ObjectWhole, Safe
    <3>3. AckedDurable
      BY <2>1, <2>2, <3>1 DEF PutInv, AckedDurable, Safe
    <3> QED
      BY <3>2, <3>3
  <2>4. kind = "create" => OneWinner
    <3> SUFFICES ASSUME kind = "create" PROVE OneWinner
      OBVIOUS
    <3>1. \A i \in acked : i = entry /\ Safe(i)
      BY DEF StoreInv, CreateInv
    <3>2. acked = {} \/ acked = {entry}
      BY <3>1
    <3>3. Cardinality(acked) <= 1
      <4>1. Cardinality(acked) = 0 \/ Cardinality(acked) = 1
        BY <3>2, FS_EmptySet, FS_Singleton, Zenon
      <4> QED
        BY <4>1
    <3> QED
      BY <3>1, <3>3 DEF OneWinner, Safe
  <2> QED
    BY <2>3, <2>4 DEF PutDurable
<1> QED
  BY <1>1, StoreInvariant, PTL
=============================================================================
