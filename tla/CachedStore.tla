----------------------------- MODULE CachedStore -----------------------------
(***************************************************************************)
(* The disk cache in front of a remote store (store/cached.rs).            *)
(*                                                                         *)
(* The contents of an object are a number, the content of its backend copy *)
(* after so many puts; 0 is no object.  A cache file outlives the process, *)
(* the LRU list does not.  Writing a cache file truncates it first: a      *)
(* reader in between, or a crash, gets Part of it.                         *)
(***************************************************************************)
EXTENDS Integers, Sequences, FiniteSets, SequencesExt

CONSTANTS
    Clients,      \* tasks that use the store
    Paths,        \* objects
    MaxEntries,   \* capacity of the LRU list
    MaxPut,       \* bound: puts of one path
    MaxCrash,     \* bound: restarts
    Immutable,    \* is every object put once, and never deleted?
    WriteWhole    \* does a cache file change in one step?

CacheAssumption ==
    MaxEntries \in Nat \ {0} /\ {MaxPut, MaxCrash} \subseteq Nat /\ {Immutable, WriteWhole} \subseteq BOOLEAN

VARIABLES
    backend,   \* the remote objects
    cache,     \* the cache files, 0 for none
    lru,       \* paths, least recently used first
    clients,   \* of each client: [pc, op, path, data, floor]
    puts,      \* history: number of puts per path
    crashes

vars == <<backend, cache, lru, clients, puts, crashes>>

Part == -1

Idle == [pc |-> "idle", op |-> "none", path |-> "none", data |-> 0, floor |-> 0]

Init ==
    /\ backend = [p \in Paths |-> 0] /\ cache = [p \in Paths |-> 0]
    /\ lru = <<>> /\ puts = [p \in Paths |-> 0] /\ crashes = 0
    /\ clients = [c \in Clients |-> Idle]

Without(p) == SelectSeq(lru, LAMBDA q : q # p)

\* LruCache::promote leaves an unknown path alone, put and push add the path
\* in front and drop the oldest one.
Promoted(p) == IF p \in Range(lru) THEN Append(Without(p), p) ELSE lru
Pushed(p) ==
    LET l == Append(Without(p), p)
    IN IF Len(l) > MaxEntries THEN Tail(l) ELSE l

\* push returns the entry it replaced, be it the oldest one or that of p itself.
Replaced(p) ==
    IF p \in Range(lru) THEN {p}
    ELSE IF Len(lru) = MaxEntries THEN {Head(lru)} ELSE {}

Begin(c, op, p) ==
    /\ clients[c].pc = "idle"
    /\ clients' = [clients EXCEPT ![c] = [pc |-> op, op |-> op, path |-> p, data |-> 0,
                                          floor |-> backend[p]]]
    /\ UNCHANGED <<backend, cache, lru, puts, crashes>>

\* get: the cache file if there is one,
GetCached(c) ==
    LET p == clients[c].path IN
    /\ clients[c].pc = "get"
    /\ IF cache[p] # 0
       THEN /\ clients' = [clients EXCEPT ![c].pc = "done", ![c].data = cache[p]]
            /\ lru' = Promoted(p)
       ELSE clients' = [clients EXCEPT ![c].pc = "fetch"] /\ UNCHANGED lru
    /\ UNCHANGED <<backend, cache, puts, crashes>>

\* else the backend, whose error ends the call,
Fetch(c) ==
    /\ clients[c].pc = "fetch"
    /\ clients' = [clients EXCEPT ![c].data = backend[clients[c].path],
                      ![c].pc = IF backend[clients[c].path] = 0 THEN "done" ELSE "write"]
    /\ UNCHANGED <<backend, cache, lru, puts, crashes>>

\* put writes to the backend first.
PutBackend(c) ==
    LET p == clients[c].path IN
    /\ clients[c].pc = "put" /\ puts[p] < MaxPut
    /\ Immutable => puts[p] = 0
    /\ puts' = [puts EXCEPT ![p] = @ + 1]
    /\ backend' = [backend EXCEPT ![p] = puts'[p]]
    /\ clients' = [clients EXCEPT ![c].pc = "write", ![c].data = puts'[p]]
    /\ UNCHANGED <<cache, lru, crashes>>

\* tokio::fs::write of the cache file.
WriteCache(c) ==
    LET p == clients[c].path IN
    /\ clients[c].pc \in {"write", "fill"}
    /\ LET begins == clients[c].pc = "write" /\ ~WriteWhole
       IN /\ cache' = [cache EXCEPT ![p] = IF begins THEN Part ELSE clients[c].data]
          /\ clients' = [clients EXCEPT ![c].pc = IF begins THEN "fill" ELSE "track"]
    /\ UNCHANGED <<backend, lru, puts, crashes>>

\* Under the lock: get also removes the cache file of the entry push returned,
\* put does not.
Track(c) ==
    LET p == clients[c].path IN
    /\ clients[c].pc = "track"
    /\ lru' = Pushed(p)
    /\ cache' = [q \in Paths |-> IF clients[c].op = "get" /\ q \in Replaced(p) THEN 0 ELSE cache[q]]
    /\ clients' = [clients EXCEPT ![c].pc = "done"]
    /\ UNCHANGED <<backend, puts, crashes>>

DeleteBackend(c) ==
    LET p == clients[c].path IN
    /\ clients[c].pc = "delete" /\ ~Immutable
    /\ backend' = [backend EXCEPT ![p] = 0]
    /\ clients' = [clients EXCEPT ![c].pc = "forget"]
    /\ UNCHANGED <<cache, lru, puts, crashes>>

KeepFile(c) ==  \* mutant: the cache file is not removed
    /\ clients[c].pc = "forget"
    /\ lru' = Without(clients[c].path)
    /\ clients' = [clients EXCEPT ![c].pc = "done"]
    /\ UNCHANGED <<backend, cache, puts, crashes>>
Forget(c) ==
    LET p == clients[c].path IN
    /\ clients[c].pc = "forget"
    /\ cache' = [cache EXCEPT ![p] = 0] /\ lru' = Without(p)
    /\ clients' = [clients EXCEPT ![c].pc = "done"]
    /\ UNCHANGED <<backend, puts, crashes>>

Return(c) ==
    /\ clients[c].pc = "done"
    /\ clients' = [clients EXCEPT ![c] = Idle]
    /\ UNCHANGED <<backend, cache, lru, puts, crashes>>

Restart ==
    /\ crashes < MaxCrash /\ crashes' = crashes + 1
    /\ lru' = <<>> /\ clients' = [c \in Clients |-> Idle]
    /\ UNCHANGED <<backend, cache, puts>>

Next ==
    \/ Restart
    \/ \E c \in Clients :
         \/ \E op \in {"get", "put", "delete"}, p \in Paths : Begin(c, op, p)
         \/ GetCached(c) \/ Fetch(c) \/ PutBackend(c) \/ WriteCache(c) \/ Track(c)
         \/ DeleteBackend(c) \/ Forget(c) \/ Return(c)

Spec == Init /\ [][Next]_vars

----------------------------------------------------------------------------
\* A get answers with what the backend holds, or held during the call: the cache
\* is not visible through the interface of the store.
GetExact ==
    \A c \in Clients : clients[c].pc = "done" /\ clients[c].op = "get" =>
        clients[c].data \in {clients[c].floor, backend[clients[c].path]}

\* The whole of a get's answer was put as one object.
GetWhole ==
    \A c \in Clients : clients[c].pc = "done" /\ clients[c].op = "get" =>
        clients[c].data # Part

\* The LRU list is within its capacity, and a path is in it once.
LruSound == Len(lru) <= MaxEntries /\ IsInjective(lru)

\* No more cache files are on disk than the capacity that was asked for, but for
\* the one each call is writing.
CacheBounded ==
    Cardinality({p \in Paths : cache[p] # 0})
        <= MaxEntries + Cardinality({c \in Clients : clients[c].pc \in {"fill", "track"}})

============================================================================
