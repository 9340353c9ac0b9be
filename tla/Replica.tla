------------------------------ MODULE Replica ------------------------------
(***************************************************************************)
(* A scale-out replica (replica/mod.rs): a read-only base opened at a      *)
(* committed version of the primary, and a tail of the operations streamed *)
(* from the primary's change feed since.                                   *)
(*                                                                         *)
(* A replica state is [base, read_seq, tail, visible, lock]; "states"      *)
(* holds every state that was built, "live" is the one the ArcSwap points  *)
(* to.  A call of advance, rebase or rebase_hotswap is a drain: it holds   *)
(* the write lock of one tail while it streams.                            *)
(***************************************************************************)
EXTENDS Primary

CONSTANTS
    Readers,     \* tasks that call Replica::get
    MaxStates,   \* bound: replica states built
    Retained,    \* does compaction leave what the replica has not read in L0?
    StreamHeld,  \* is no flush installed between the bound of a stream and its scan?
    SwapAlone,   \* does no advance or rebase overlap a hot swap?
    DrainFails   \* may the log source fail?

ReplicaAssumption ==
    /\ MaxStates \in Nat \ {0}
    /\ {Retained, StreamHeld, SwapAlone, DrainFails} \subseteq BOOLEAN

VARIABLES
    states,     \* the replica states built so far
    live,       \* index of the live one, 0 before Replica::open
    drains,     \* of "advance", "rebase", "swap": [pc, st, upper]
    readers,    \* of each reader: [pc, key, st, floor, answer]
    shown       \* history: the highest visible_seq a caller could have read

vars == <<primaryVars, states, live, drains, readers, shown>>

liveVars == <<live, shown>>

Drains == {"advance", "rebase", "swap"}

NoDrain == [pc |-> "idle", st |-> 0, upper |-> 0]
NoRead == [pc |-> "idle", key |-> {}, st |-> 0, floor |-> 0, answer |-> {}]

----------------------------------------------------------------------------
\* The read_seq of a read-only open: the highest sequence number in its files.
ReadSeqOf(v) == Max({0} \cup {SeqMax(f) : f \in v.files})

\* A base opened at v under a tail seeded at the base's read_seq.
FreshState(v) == [base |-> v, read_seq |-> ReadSeqOf(v), tail |-> {},
                  visible |-> ReadSeqOf(v), lock |-> "none"]

\* ReplicaTail::apply: the last writer wins.
TailApply(r, s) ==
    IF \E x \in s.tail : x.key = r.key /\ r.seq <= x.seq THEN s
    ELSE [s EXCEPT !.tail = {x \in @ : x.key # r.key} \cup {r}, !.visible = Max({@, r.seq})]

\* InProcessLogSource::stream: what the change feed finds after since, cut at upper.
Stream(since, upper) ==
    LET rows == InMemory(Len(log)) \cup UNION {Live(f) : f \in FilesAt(version, 0)}
    IN {r \in rows : r.seq > since /\ r.seq <= upper}

TailAdvance(s, upper) == FoldSet(TailApply, s, Stream(s.visible, upper))

\* Replica::get on one state: tail first, a delete there is final, else the base.
TailGet(s, k) == {x \in s.tail : x.key = k}
BaseGet(s, k) == Shown(PointGet(s.base, k, s.read_seq))
Answer(s, k) == IF TailGet(s, k) # {} THEN Shown(TailGet(s, k)) ELSE BaseGet(s, k)

----------------------------------------------------------------------------
Init ==
    /\ PrimaryInit
    /\ states = <<>> /\ live = 0
    /\ drains = [d \in Drains |-> NoDrain]
    /\ readers = [r \in Readers |-> NoRead]
    /\ shown = 0

Put ==
    /\ \E k \in TableKeys, op \in {"put", "del"} : Write(k, op, {})
    /\ UNCHANGED <<states, liveVars, drains, readers>>

Streaming == \E d \in Drains : drains[d].pc = "scan"

Flush ==
    /\ (FlushInstall /\ (StreamHeld => ~Streaming)) \/ FlushDrop
    /\ UNCHANGED <<states, liveVars, drains, readers>>

\* What a drain of a state in use may still ask for: all that its tail, or a
\* tail reset to its base, has not read.
Unread == UNION {Min({states[s].visible, states[s].read_seq}) + 1..Len(log) :
                   s \in ({live} \cup {drains[d].st : d \in Drains}) \ {0}}

Compaction ==
    /\ Compact(IF Retained THEN Unread ELSE {})
    /\ UNCHANGED <<states, liveVars, drains, readers>>

Open ==
    /\ live = 0
    /\ states' = <<FreshState(version)>> /\ live' = 1
    /\ shown' = ReadSeqOf(version)
    /\ UNCHANGED <<primaryVars, drains, readers>>

May(d) ==
    /\ live # 0 /\ drains[d].pc = "idle"
    /\ SwapAlone => IF d = "swap" THEN \A e \in Drains : drains[e].pc = "idle"
                    ELSE drains["swap"].pc = "idle"

\* advance locks the tail of the state it loads.
Advance ==
    /\ May("advance") /\ states[live].lock = "none"
    /\ states' = [states EXCEPT ![live].lock = "advance"]
    /\ drains' = [drains EXCEPT !["advance"] = [@ EXCEPT !.pc = "upper", !.st = live]]
    /\ UNCHANGED <<primaryVars, liveVars, readers>>

\* rebase refreshes the base under the old tail,
RebaseRefresh ==
    /\ May("rebase")
    /\ states' = [states EXCEPT ![live].base = version,
                                ![live].read_seq = Max({@, ReadSeqOf(version)})]
    /\ drains' = [drains EXCEPT !["rebase"] = [@ EXCEPT !.pc = "lock", !.st = live]]
    /\ UNCHANGED <<primaryVars, liveVars, readers>>

\* then empties the tail under its lock and fills it again.
Reset(s) == [s EXCEPT !.tail = {}, !.visible = s.read_seq, !.lock = "rebase"]

RebaseReset ==
    LET st == drains["rebase"].st IN
    /\ drains["rebase"].pc = "lock" /\ states[st].lock = "none"
    /\ states' = [states EXCEPT ![st] = Reset(@)]
    /\ drains' = [drains EXCEPT !["rebase"].pc = "upper"]
    /\ UNCHANGED <<primaryVars, liveVars, readers>>

\* rebase_hotswap builds a state of its own.
SwapCold ==  \* mutant: the new state is stored before its tail is warm
    /\ May("swap") /\ Len(states) < MaxStates
    /\ states' = Append(states, FreshState(version))
    /\ drains' = [drains EXCEPT !["swap"] = [@ EXCEPT !.pc = "store", !.st = Len(states) + 1]]
    /\ UNCHANGED <<primaryVars, liveVars, readers>>
SwapOpen ==
    /\ May("swap") /\ Len(states) < MaxStates
    /\ states' = Append(states, FreshState(version))
    /\ drains' = [drains EXCEPT !["swap"] = [@ EXCEPT !.pc = "upper", !.st = Len(states) + 1]]
    /\ UNCHANGED <<primaryVars, liveVars, readers>>

\* The live tail can be read again.
Shows == LET s == states'[live'] IN shown' = IF s.lock = "none" THEN Max({shown, s.visible}) ELSE shown

\* stream: the bound is the primary's read_seq when the stream opens.
DrainUpper(d) ==
    /\ drains[d].pc = "upper"
    /\ drains' = [drains EXCEPT ![d].pc = "scan", ![d].upper = Len(log)]
    /\ UNCHANGED <<primaryVars, states, liveVars, readers>>

DrainScan(d) ==
    LET st == drains[d].st IN
    /\ drains[d].pc = "scan"
    /\ states' = [states EXCEPT ![st] = [TailAdvance(@, drains[d].upper) EXCEPT !.lock = "none"]]
    /\ drains' = [drains EXCEPT ![d] = IF d = "swap" THEN [@ EXCEPT !.pc = "store"] ELSE NoDrain]
    /\ UNCHANGED <<primaryVars, live, readers>>
    /\ Shows

\* The source fails: advance and rebase keep the tail as it is, a hot swap
\* gives its state up.
DrainFail(d) ==
    /\ DrainFails /\ drains[d].pc = "scan"
    /\ states' = [states EXCEPT ![drains[d].st].lock = "none"]
    /\ drains' = [drains EXCEPT ![d] = NoDrain]
    /\ UNCHANGED <<primaryVars, live, readers>>
    /\ Shows

\* A hot swap that exceeds rebase_timeout leaves the live state alone.
SwapTimeout ==
    /\ drains["swap"].pc \in {"upper", "scan"}
    /\ drains' = [drains EXCEPT !["swap"] = NoDrain]
    /\ UNCHANGED <<primaryVars, states, liveVars, readers>>

SwapStore ==
    /\ drains["swap"].pc = "store"
    /\ live' = drains["swap"].st
    /\ drains' = [drains EXCEPT !["swap"] = NoDrain]
    /\ UNCHANGED <<primaryVars, states, readers>>
    /\ Shows

\* get: load the state, look into its tail under the lock, then into its base.
GetLoad(r, k) ==
    /\ live # 0 /\ readers[r].pc = "idle"
    /\ readers' = [readers EXCEPT ![r] = [NoRead EXCEPT !.pc = "tail", !.key = {k}, !.st = live,
                                                        !.floor = shown]]
    /\ UNCHANGED <<primaryVars, states, liveVars, drains>>

GetTail(r) ==
    LET s == states[readers[r].st] IN
    /\ readers[r].pc = "tail" /\ s.lock = "none"
    /\ \E k \in readers[r].key :
         readers' = [readers EXCEPT
             ![r].pc = IF TailGet(s, k) # {} THEN "done" ELSE "base",
             ![r].answer = Shown(TailGet(s, k))]
    /\ UNCHANGED <<primaryVars, states, liveVars, drains>>

GetBase(r) ==
    /\ readers[r].pc = "base"
    /\ \E k \in readers[r].key :
         readers' = [readers EXCEPT ![r].pc = "done",
                                    ![r].answer = BaseGet(states[readers[r].st], k)]
    /\ UNCHANGED <<primaryVars, states, liveVars, drains>>

GetReturn(r) ==
    /\ readers[r].pc = "done"
    /\ readers' = [readers EXCEPT ![r] = NoRead]
    /\ UNCHANGED <<primaryVars, states, liveVars, drains>>

Drain(d) == DrainUpper(d) \/ DrainScan(d)

Next ==
    \/ Put \/ Flush \/ Compaction \/ Open
    \/ Advance
    \/ RebaseRefresh \/ RebaseReset
    \/ SwapOpen \/ SwapStore \/ SwapTimeout
    \/ \E d \in Drains : Drain(d) \/ DrainFail(d)
    \/ \E r \in Readers : \/ \E k \in TableKeys : GetLoad(r, k)
                           \/ GetTail(r) \/ GetBase(r) \/ GetReturn(r)

Spec == Init /\ [][Next]_vars

\* The owner of the replica keeps calling advance, and the calls that began end.
FairSpec ==
    /\ Spec
    /\ WF_vars(Open) /\ SF_vars(Advance)
    /\ SF_vars(RebaseReset) /\ WF_vars(SwapStore)
    /\ \A d \in Drains : WF_vars(Drain(d))

----------------------------------------------------------------------------
TypeOK ==
    /\ live \in 0..Len(states)
    /\ \A s \in DOMAIN states : states[s].visible \in 0..MaxSeq /\ states[s].lock \in Drains \cup {"none"}
    /\ \A d \in Drains : drains[d].st \in 0..Len(states) /\ drains[d].upper \in 0..MaxSeq

RowIn(n, k) == {r \in Table(n) : r.key = k}

\* A replica is consistent up to its own visible_seq: whatever state is live,
\* the row it answers for a key is the primary's at some point of the history
\* not before visible_seq (Replica::get over tail and base).
ReplicaCurrent ==
    live # 0 =>
        \A k \in TableKeys : \E n \in states[live].visible..Len(log) :
            Answer(states[live], k) = RowIn(n, k)

\* So is every answer of a get that overlaps advances, rebases and swaps: it is
\* not older than any visible_seq reported before the call.
GetCurrent ==
    \A r \in Readers : readers[r].pc = "done" =>
        \A k \in readers[r].key : \E n \in readers[r].floor..Len(log) :
            readers[r].answer = RowIn(n, k)

\* visible_seq never steps back: a rebase or a hot swap catches up with what
\* the replica had shown before it takes over.
VisibleMonotone ==
    live # 0 /\ states[live].lock = "none" => states[live].visible = shown

\* Once writes stop, a replica that keeps advancing shows all of them.
ReplicaCatchesUp == []<>(live # 0 /\ states[live].visible = Len(log))

============================================================================
