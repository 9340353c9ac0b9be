----------------------------- MODULE LocalStore -----------------------------
(***************************************************************************)
(* One object of the local file store under concurrent put, put_if_absent  *)
(* and get calls, I/O errors and power failures (store/local.rs).          *)
(*                                                                         *)
(* The file system is the one the code's comments reckon with: written     *)
(* data is durable after an fsync of the file, a directory entry after an  *)
(* fsync of the directory, and what was not synced may be there or not     *)
(* after a crash.  The temporary file of a put is an inode that no entry   *)
(* of the object leads to yet; its name is unique to the call.  An object  *)
(* is written with put (low_water.txt) or with put_if_absent (data files   *)
(* and manifests of a mirror), never with both.                            *)
(***************************************************************************)
EXTENDS Integers, Sequences, FiniteSets

CONSTANTS
    Callers,        \* tasks that write the object
    MaxInodes,      \* bound: files created
    MaxPowerFails   \* bound: crashes

ASSUME StoreAssumption == {MaxInodes, MaxPowerFails} \subseteq Nat

VARIABLES
    kind,      \* how the object is written: "put", "create" (put_if_absent)
    inodes,    \* the files: [data, synced, order]
    entry,     \* the inode the object's path leads to, 0 for none
    since,     \* what the entry was since the directory was last synced
    calls,     \* of each caller: [pc, inode]
    made,      \* history: entries made so far, by which inodes are ordered
    acked,     \* history: the inodes whose calls returned Ok
    crashes

storeVars == <<kind, inodes, entry, since, calls, made, acked, crashes>>

Idle == [pc |-> "idle", inode |-> 0]

StoreInit ==
    /\ kind \in {"put", "create"}
    /\ inodes = <<>> /\ entry = 0 /\ since = {0}
    /\ calls = [c \in Callers |-> Idle]
    /\ made = 0 /\ acked = {} /\ crashes = 0

Goto(c, pc) == [calls EXCEPT ![c].pc = pc]

\* put: the temporary file is written whole.
PutWrite(c) ==
    /\ kind = "put" /\ calls[c].pc = "idle" /\ Len(inodes) < MaxInodes
    /\ inodes' = Append(inodes, [data |-> "whole", synced |-> FALSE, order |-> 0])
    /\ calls' = [calls EXCEPT ![c] = [pc |-> "sync", inode |-> Len(inodes) + 1]]
    /\ UNCHANGED <<kind, entry, since, made, acked, crashes>>

\* put_if_absent: O_CREAT | O_EXCL under the final name, or AlreadyExists.
Create(c) ==
    /\ kind = "create" /\ calls[c].pc = "idle"
    /\ entry = 0 /\ Len(inodes) < MaxInodes
    /\ inodes' = Append(inodes, [data |-> "empty", synced |-> FALSE, order |-> made + 1])
    /\ made' = made + 1
    /\ entry' = Len(inodes) + 1 /\ since' = since \cup {entry'}
    /\ calls' = [calls EXCEPT ![c] = [pc |-> "write", inode |-> entry']]
    /\ UNCHANGED <<kind, acked, crashes>>

\* write_all, which may stop half-way with an error.
CreateWrite(c) ==
    /\ calls[c].pc = "write"
    /\ \E data \in {"part", "whole"} :
         /\ inodes' = [inodes EXCEPT ![calls[c].inode].data = data]
         /\ calls' = IF data = "part" THEN [calls EXCEPT ![c] = Idle] ELSE Goto(c, "sync")
    /\ UNCHANGED <<kind, entry, since, made, acked, crashes>>

SyncFile(c) ==
    /\ calls[c].pc = "sync"
    /\ inodes' = [inodes EXCEPT ![calls[c].inode].synced = TRUE]
    /\ calls' = Goto(c, IF kind = "put" THEN "rename" ELSE "sync_dir")
    /\ UNCHANGED <<kind, entry, since, made, acked, crashes>>

Rename(c) ==
    /\ calls[c].pc = "rename"
    /\ entry' = calls[c].inode /\ since' = since \cup {entry'}
    /\ inodes' = [inodes EXCEPT ![entry'].order = made + 1]
    /\ made' = made + 1
    /\ calls' = Goto(c, "sync_dir")
    /\ UNCHANGED <<kind, acked, crashes>>

NoDirSync(c) ==  \* mutant: the directory is not synced
    /\ calls[c].pc = "sync_dir"
    /\ acked' = acked \cup {calls[c].inode}
    /\ calls' = [calls EXCEPT ![c] = Idle]
    /\ UNCHANGED <<kind, inodes, entry, since, made, crashes>>
\* The parent directory is synced, and the call returns Ok.
SyncDir(c) ==
    /\ calls[c].pc = "sync_dir"
    /\ since' = {entry}
    /\ acked' = acked \cup {calls[c].inode}
    /\ calls' = [calls EXCEPT ![c] = Idle]
    /\ UNCHANGED <<kind, inodes, entry, made, crashes>>

CallFails(c) ==
    /\ calls[c].pc \in {"sync", "rename", "sync_dir"}
    /\ calls' = [calls EXCEPT ![c] = Idle]
    /\ UNCHANGED <<kind, inodes, entry, since, made, acked, crashes>>

\* Unsynced data may be lost in part, an unsynced entry may be an earlier one.
PowerFails ==
    /\ crashes < MaxPowerFails /\ crashes' = crashes + 1
    /\ \E e \in since : entry' = e /\ since' = {e}
    /\ \E lost \in SUBSET {i \in DOMAIN inodes : ~inodes[i].synced} :
         inodes' = [i \in DOMAIN inodes |->
                      IF i \in lost THEN [inodes[i] EXCEPT !.data = "part"] ELSE inodes[i]]
    /\ calls' = [c \in Callers |-> Idle]
    /\ UNCHANGED <<kind, made, acked>>

StoreNext ==
    \/ PowerFails
    \/ \E c \in Callers :
         \/ PutWrite(c) \/ Create(c) \/ CreateWrite(c)
         \/ SyncFile(c) \/ Rename(c) \/ SyncDir(c) \/ CallFails(c)

StoreSpec == StoreInit /\ [][StoreNext]_storeVars

----------------------------------------------------------------------------
\* A get finds no object or a whole one, whatever puts are in flight and
\* wherever a crash fell (put renames a synced file into place).
ObjectWhole == entry # 0 => inodes[entry].data = "whole"

\* Once a put has returned Ok its object, or one put later, is there for good.
AckedDurable ==
    \A i \in acked : /\ entry # 0
                     /\ inodes[entry].order >= inodes[i].order
                     /\ inodes[i].data = "whole"

\* Of all the calls of put_if_absent at most one returns Ok, crashes included,
\* and the object is then the one it wrote.
OneWinner == Cardinality(acked) <= 1 /\ (\A i \in acked : entry = i /\ inodes[i].data = "whole")

\* Wherever a crash falls, a get finds no object or a whole one and never less
\* than was acknowledged (put renames a synced file into place), and at most one
\* put_if_absent returns Ok, whose object then stays.
PutDurable ==
    /\ kind = "put" => ObjectWhole /\ AckedDurable
    /\ kind = "create" => OneWinner

----------------------------------------------------------------------------
\* The inductive invariant: the types,
Inodes == [data : {"empty", "part", "whole"}, synced : BOOLEAN, order : Nat]

StoreTypes ==
    /\ kind \in {"put", "create"} /\ inodes \in Seq(Inodes)
    /\ since \subseteq 0 .. Len(inodes) /\ entry \in since
    /\ calls \in [Callers -> [pc : {"idle", "write", "sync", "rename", "sync_dir"}, inode : Nat]]
    /\ \A c \in Callers : calls[c].pc # "idle" => calls[c].inode \in 1 .. Len(inodes)
    /\ made \in Nat /\ acked \subseteq 1 .. Len(inodes) /\ crashes \in Nat

\* A file that a crash leaves as it is.
Safe(i) == inodes[i].data = "whole" /\ inodes[i].synced

\* for put: only synced files get an entry, in the order of made, and an
\* acknowledged one is not above any entry a crash may lead back to,
PutInv ==
    /\ \A i \in DOMAIN inodes : inodes[i].order <= made
    /\ \A e \in since \ {0} : Safe(e)
    /\ \A c \in Callers : LET i == calls[c].inode IN
          /\ calls[c].pc # "write"
          /\ calls[c].pc # "idle" => inodes[i].data = "whole"
          /\ calls[c].pc \in {"sync", "rename"} => i \notin acked /\ i \notin since
          /\ calls[c].pc \in {"rename", "sync_dir"} => inodes[i].synced
          /\ calls[c].pc = "sync_dir" => entry # 0 /\ inodes[i].order <= inodes[entry].order
    /\ \A c, d \in Callers :
          calls[c].pc # "idle" /\ calls[d].pc # "idle" /\ c # d => calls[c].inode # calls[d].inode
    /\ \A i \in acked : /\ Safe(i) /\ 0 \notin since
                        /\ \A e \in since : inodes[i].order <= inodes[e].order

\* and for put_if_absent: one caller at a time has an entry, and none is made
\* once one is acknowledged.
CreateInv ==
    /\ \A c \in Callers : calls[c].pc # "idle" =>
          /\ calls[c].pc # "rename" /\ calls[c].inode = entry /\ acked = {}
          /\ calls[c].pc # "write" => inodes[entry].data = "whole"
          /\ calls[c].pc = "sync_dir" => inodes[entry].synced
    /\ \A c, d \in Callers : calls[c].pc # "idle" /\ calls[d].pc # "idle" => c = d
    /\ \A i \in acked : i = entry /\ since = {entry} /\ Safe(i)

StoreInv == StoreTypes /\ (kind = "put" => PutInv) /\ (kind = "create" => CreateInv)

============================================================================
