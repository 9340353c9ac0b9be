------------------------------ MODULE MCRemote ------------------------------
(***************************************************************************)
(* Replica, Mirror, LocalStore and CachedStore for TLC: the copies of a    *)
(* table and the stores they are kept in.  A behaviour is that of Mirror,  *)
(* of LocalStore or of one of the instances below, named by part; the      *)
(* variables of the first two then keep their values, and those of the     *)
(* other instances are 0.                                                  *)
(***************************************************************************)
EXTENDS Mirror, LocalStore

VARIABLES
    part,
    log, dropped, version, flushed, next_id, states, live, drains, readers, shown,  \* of Replica
    backend, cache, lru, clients, puts, restarts                    \* of CachedStore

replicaVars == <<log, dropped, version, flushed, next_id, states, live, drains, readers, shown>>
cachedVars == <<backend, cache, lru, clients, puts, restarts>>
remoteVars == <<part, replicaVars, vars, storeVars, cachedVars>>

\* A replica that advances, rebases and is swapped.
Follower == INSTANCE Replica WITH
    NumLevels <- 2, L0Trigger <- 2, L0Slowdown <- 4, LevelTarget <- 9, MaxInputRows <- 9,
    ChunkRows <- 2, TableKeys <- {1}, MaxSeq <- 3, Readers <- {}, MaxStates <- 2,
    Retained <- TRUE, StreamHeld <- TRUE, SwapAlone <- TRUE, DrainFails <- FALSE

\* The same with a reader on it.
Served == INSTANCE Replica WITH
    NumLevels <- 2, L0Trigger <- 2, L0Slowdown <- 4, LevelTarget <- 9, MaxInputRows <- 9,
    ChunkRows <- 2, TableKeys <- {1}, MaxSeq <- 2, Readers <- {"r1"}, MaxStates <- 2,
    Retained <- TRUE, StreamHeld <- TRUE, SwapAlone <- TRUE, DrainFails <- FALSE

\* A replica of two keys with streams that break off.
Failing == INSTANCE Replica WITH
    NumLevels <- 2, L0Trigger <- 2, L0Slowdown <- 4, LevelTarget <- 9, MaxInputRows <- 9,
    ChunkRows <- 2, TableKeys <- {1, 2}, MaxSeq <- 2, Readers <- {}, MaxStates <- 2,
    Retained <- TRUE, StreamHeld <- TRUE, SwapAlone <- TRUE, DrainFails <- TRUE

\* One client of the cache, with objects that change and are deleted.
Alone == INSTANCE CachedStore WITH
    Clients <- {"c1"}, Paths <- {"a", "b"}, MaxEntries <- 1, MaxPut <- 2, MaxCrash <- 0,
    Immutable <- FALSE, WriteWhole <- TRUE, crashes <- restarts

\* Two clients and a restart, with objects that are put once.
Shared == INSTANCE CachedStore WITH
    Clients <- {"c1", "c2"}, Paths <- {"a", "b"}, MaxEntries <- 1, MaxPut <- 1, MaxCrash <- 1,
    Immutable <- TRUE, WriteWhole <- TRUE, crashes <- restarts

ASSUME RemoteAssumption ==
    /\ Follower!LevelsAssumption /\ Follower!PrimaryAssumption /\ Follower!ReplicaAssumption
    /\ Served!LevelsAssumption /\ Served!PrimaryAssumption /\ Served!ReplicaAssumption
    /\ Failing!LevelsAssumption /\ Failing!PrimaryAssumption /\ Failing!ReplicaAssumption
    /\ MirrorAssumption
    /\ Alone!CacheAssumption /\ Shared!CacheAssumption

NoReplica ==
    /\ log = 0 /\ dropped = 0 /\ version = 0 /\ flushed = 0 /\ next_id = 0
    /\ states = 0 /\ live = 0 /\ drains = 0 /\ readers = 0 /\ shown = 0
StoreUnused == StoreInit /\ kind = "put"
NoCached == backend = 0 /\ cache = 0 /\ lru = 0 /\ clients = 0 /\ puts = 0 /\ restarts = 0

RemoteInit ==
    \/ /\ \/ part = "follower" /\ Follower!Init
          \/ part = "served" /\ Served!Init
          \/ part = "failing" /\ Failing!Init
       /\ Init /\ NoCached /\ StoreUnused
    \/ part = "uploads" /\ Init /\ NoReplica /\ NoCached /\ StoreUnused
    \/ part = "local" /\ StoreInit /\ NoReplica /\ NoCached /\ Init
    \/ /\ \/ part = "alone" /\ Alone!Init
          \/ part = "shared" /\ Shared!Init
       /\ NoReplica /\ Init /\ StoreUnused

RemoteNext ==
    /\ \/ /\ \/ part = "follower" /\ Follower!Next
             \/ part = "served" /\ Served!Next
             \/ part = "failing" /\ Failing!Next
          /\ UNCHANGED <<vars, storeVars, cachedVars>>
       \/ part = "uploads" /\ Next /\ UNCHANGED <<storeVars, replicaVars, cachedVars>>
       \/ part = "local" /\ StoreNext /\ UNCHANGED <<vars, replicaVars, cachedVars>>
       \/ /\ \/ part = "alone" /\ Alone!Next
             \/ part = "shared" /\ Shared!Next
          /\ UNCHANGED <<vars, storeVars, replicaVars>>
    /\ UNCHANGED part

RemoteSpec == RemoteInit /\ [][RemoteNext]_remoteVars

----------------------------------------------------------------------------
\* Replica: the row a replica answers for a key is the primary's at some point
\* not before its visible_seq, also after a stream that broke off, and
\* visible_seq never steps back over an advance, a rebase or a swap; a get that
\* overlaps these is not older than any visible_seq reported before the call.
ReplicaCurrent ==
    /\ part = "follower" =>
          Follower!TypeOK /\ Follower!ReplicaCurrent /\ Follower!VisibleMonotone
    /\ part = "failing" => Failing!ReplicaCurrent
    /\ part = "served" => Served!GetCurrent

\* CachedStore: a get answers with what the backend holds, or held at the call;
\* the LRU list is within its capacity and has a path once.
GetExact ==
    /\ part = "alone" => Alone!GetExact /\ Alone!LruSound
    /\ part = "shared" => Shared!GetExact

=============================================================================
