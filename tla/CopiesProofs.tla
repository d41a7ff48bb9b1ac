----------------------------- MODULE CopiesProofs -----------------------------
(* Proofs about the caches that keep copies of rows, for any nodes, callers, keys, values,
   versions and faults. *)
EXTENDS Copies, Sequences, FiniteSetTheorems, WellFoundedInduction, TLAPS

(* A step is one of the cache that runs, and leaves the others alone. *)
LEMMA Steps ==
  ASSUME [Next]_vars
  PROVE  /\ [K!Next]_(K!vars) /\ [T!Next]_(T!vars) /\ [H!Next]_(H!vars) /\ [E!Next]_(E!vars)
         /\ [G!Next]_(G!vars) /\ [I!Next]_(I!vars)
  BY DEF Next, KV, TwoLevel, MultiLevel, HotKey, Evicting, Generic, Index, vars, kvars, tvars,
         mvars, hvars, evars, gvars, ivars, K!vars, T!vars, H!vars, E!vars, G!vars, I!vars

-----------------------------------------------------------------------------
(* CacheIndex.  CachedIsIndexed is not inductive: a call that stores its key must not be one whose
   registration has been forgotten, and neither must a goroutine that a call has left behind.
   So the same is said of the keys these have in hand. *)
IndexCallsTyped ==
  /\ icall \in [Callers -> [at : {"idle", "get", "load", "set"}, key : ManyKeys]]
  /\ ilate \in [Callers -> [at : {"idle", "set"}, key : ManyKeys, again : BOOLEAN]]
FlightIsIndexed ==
  \A c \in Callers : /\ ~I!At(c, "idle") => icall[c].key \in index \cup missed
                     /\ I!Pending(c) => ilate[c].key \in index \cup missed
IndexInv == IndexCallsTyped /\ FlightIsIndexed /\ I!CachedIsIndexed

(* A caller goes on with the key it has, or with none, and so does the goroutine it left. *)
LEMMA CallerMoves ==
  ASSUME IndexInv, NEW c \in Callers, UNCHANGED <<index, missed>>, cached' \subseteq index \cup missed,
         NEW d \in [at : {"idle", "get", "load", "set"}, key : ManyKeys],
         NEW w \in [at : {"idle", "set"}, key : ManyKeys, again : BOOLEAN],
         icall' = [icall EXCEPT ![c] = d], ilate' = [ilate EXCEPT ![c] = w],
         d.at # "idle" => d.key \in index \cup missed,
         w.at # "idle" => w.key \in index \cup missed
  PROVE  IndexInv'
<1> USE DEF IndexInv, IndexCallsTyped
<1>1. IndexCallsTyped'
  OBVIOUS
<1>2. I!CachedIsIndexed'
  BY DEF I!CachedIsIndexed
<1>3. ASSUME NEW b \in Callers
      PROVE  /\ icall'[b].at # "idle" => icall'[b].key \in index \cup missed
             /\ ilate'[b].at # "idle" => ilate'[b].key \in index \cup missed
  <2>1. CASE b = c
    BY <2>1
  <2>2. CASE b # c
    <3>1. icall'[b] = icall[b] /\ ilate'[b] = ilate[b]
      BY <2>2
    <3> QED BY <3>1 DEF FlightIsIndexed, I!At, I!Pending
  <2> QED BY <2>1, <2>2
<1>4. FlightIsIndexed'
  BY <1>3 DEF FlightIsIndexed, I!At, I!Pending
<1> QED BY <1>1, <1>2, <1>4

(* One step of a caller, of somebody who deletes, or of a TTL. *)
LEMMA IndexInvStep ==
  ASSUME ManyKeys # {}, IndexInv, [I!Next]_(I!vars)
  PROVE  IndexInv'
<1> USE DEF IndexInv, IndexCallsTyped, FlightIsIndexed, I!CachedIsIndexed, I!At, I!Pending
<1>0. /\ I!Idle \in [at : {"idle"}, key : ManyKeys]
      /\ I!NoWrite \in [at : {"idle"}, key : ManyKeys, again : BOOLEAN]
  BY DEF I!Idle, I!NoWrite
<1>1. ASSUME NEW c \in Callers, NEW k \in ManyKeys, I!Register(c, k) PROVE IndexInv'
  <2>1. IndexCallsTyped'
    BY <1>1 DEF I!Register
  <2>2. index \cup missed \subseteq index' \cup missed' /\ k \in index' \cup missed'
    BY <1>1 DEF I!Register
  <2>3. \A d \in Callers : d # c => icall'[d] = icall[d]
    BY <1>1 DEF I!Register
  <2>4. icall'[c].key = k
    BY <1>1 DEF I!Register
  <2>5. cached' = cached /\ ilate' = ilate
    BY <1>1 DEF I!Register
  <2> QED BY <2>1, <2>2, <2>3, <2>4, <2>5
<1>2. ASSUME NEW c \in Callers, I!Get(c) PROVE IndexInv'
  BY <1>0, <1>2 DEF I!Get, I!End, I!Goto
<1>3. ASSUME NEW c \in Callers, I!Load(c) PROVE IndexInv'
  <2> DEFINE d == [icall[c] EXCEPT !.at = "set"]
             w == [at |-> "set", key |-> icall[c].key, again |-> FALSE]
  <2>1. /\ UNCHANGED <<index, cached, missed>> /\ icall[c].key \in index \cup missed
        /\ \E e \in {d, I!Idle} : icall' = [icall EXCEPT ![c] = e]
        /\ \E x \in {w, ilate[c]} : ilate' = [ilate EXCEPT ![c] = x]
    BY <1>3 DEF I!Load, I!End, I!Goto, I!LeaveWrite
  <2>2. /\ d \in [at : {"idle", "get", "load", "set"}, key : ManyKeys] /\ d.key = icall[c].key
        /\ w \in [at : {"idle", "set"}, key : ManyKeys, again : BOOLEAN] /\ w.key = icall[c].key
        /\ ilate[c].at # "idle" => ilate[c].key \in index \cup missed
    OBVIOUS
  <2> HIDE DEF d, w
  <2>3. PICK e \in {d, I!Idle}, x \in {w, ilate[c]} :
          icall' = [icall EXCEPT ![c] = e] /\ ilate' = [ilate EXCEPT ![c] = x]
    BY <2>1
  <2>4. /\ e \in [at : {"idle", "get", "load", "set"}, key : ManyKeys]
        /\ e.at # "idle" => e.key \in index \cup missed
    <3>1. CASE e = d
      BY <2>1, <2>2, <3>1
    <3>2. CASE e = I!Idle
      BY <1>0, <3>2
    <3> QED BY <3>1, <3>2
  <2>5. /\ x \in [at : {"idle", "set"}, key : ManyKeys, again : BOOLEAN]
        /\ x.at # "idle" => x.key \in index \cup missed
    <3>1. CASE x = w
      BY <2>1, <2>2, <3>1
    <3>2. CASE x = ilate[c]
      BY <2>2, <3>2
    <3> QED BY <3>1, <3>2
  <2> QED BY <2>1, <2>3, <2>4, <2>5, CallerMoves
<1>4. ASSUME NEW c \in Callers, I!Set(c) PROVE IndexInv'
  <2> DEFINE w == [at |-> "set", key |-> icall[c].key, again |-> TRUE]
  <2>1. /\ UNCHANGED <<index, missed>> /\ icall[c].key \in index \cup missed
        /\ cached' \subseteq cached \cup {icall[c].key}
        /\ icall' = [icall EXCEPT ![c] = I!Idle]
        /\ ilate' = [ilate EXCEPT ![c] = w] \/ ilate' = [ilate EXCEPT ![c] = ilate[c]]
    BY <1>4 DEF I!Set, I!End, I!LeaveWrite, I!Write, I!WriteFails
  <2> HIDE DEF w
  <2>2. /\ w \in [at : {"set"}, key : ManyKeys, again : BOOLEAN] /\ w.key = icall[c].key
        /\ ilate[c].at # "idle" => ilate[c].key \in index \cup missed
    BY DEF w
  <2> QED BY <1>0, <2>1, <2>2, CallerMoves
<1>5. CASE I!DeleteByIndex
  <2>1. \A c \in Callers : /\ ~I!At(c, "idle") => icall[c].key \in I!InFlight
                           /\ I!Pending(c) => ilate[c].key \in I!InFlight
    BY DEF I!InFlight
  <2>2. cached' = cached \ index /\ missed' = missed \cup (index \cap I!InFlight)
        /\ icall' = icall /\ ilate' = ilate
    BY <1>5 DEF I!DeleteByIndex, I!Script
  <2> QED BY <2>1, <2>2
<1>6. ASSUME NEW ks \in SUBSET ManyKeys, I!DeleteByKeys(ks) PROVE IndexInv'
  BY <1>6 DEF I!DeleteByKeys
<1>7. ASSUME NEW k \in ManyKeys, I!Expire(k) PROVE IndexInv'
  BY <1>7 DEF I!Expire
<1>8. ASSUME NEW c \in Callers, I!SetLate(c) PROVE IndexInv'
  <2> DEFINE w == [at |-> "set", key |-> ilate[c].key, again |-> TRUE]
  <2>1. /\ UNCHANGED <<index, missed, icall>> /\ ilate[c].key \in index \cup missed
        /\ cached' \subseteq cached \cup {ilate[c].key}
        /\ icall' = [icall EXCEPT ![c] = icall[c]]
        /\ ilate' = [ilate EXCEPT ![c] = w] \/ ilate' = [ilate EXCEPT ![c] = I!NoWrite]
    BY <1>8 DEF I!SetLate, I!LeaveWrite, I!Write, I!WriteFails
  <2> HIDE DEF w
  <2>2. /\ w \in [at : {"set"}, key : ManyKeys, again : BOOLEAN] /\ w.key = ilate[c].key
        /\ icall[c].at # "idle" => icall[c].key \in index \cup missed
    BY DEF w
  <2> QED BY <1>0, <2>1, <2>2, CallerMoves
<1>9. CASE UNCHANGED I!vars
  BY <1>9 DEF I!vars
<1> HIDE DEF IndexInv, IndexCallsTyped, FlightIsIndexed, I!CachedIsIndexed, I!At, I!Pending
<1> QED
  BY <1>1, <1>2, <1>3, <1>4, <1>5, <1>6, <1>7, <1>8, <1>9 DEF I!Next

-----------------------------------------------------------------------------
(* GenericTTLCache: an entry is a version and whether its time is over. *)
Entries == [val : Nat, old : BOOLEAN]
GenericTyped ==
  /\ grow \in Nat /\ ginbox \subseteq Nodes /\ graced \in BOOLEAN
  /\ gm \in [Nodes -> Entries]
  /\ gcall \in [G!Agents -> [at : {"idle", "source", "lazy", "store", "change", "publish"},
                           val : Nat]]

Writer(a) == gcall[a].at \in {"change", "publish"}

(* A write that has not been raced is the only call there is, *)
WriterAlone ==
  \A a \in G!Agents : Writer(a) => ginbox = {} /\ \A b \in G!Agents \ {a} : gcall[b] = G!Idle
(* and nobody loads before all nodes have been told of it. *)
ToldInPeace == ginbox # {} => \A a \in G!Agents : gcall[a] = G!Idle
(* Then who loads has the row, *)
LoadedFresh == \A a \in G!Agents : G!At(a, "store") => gcall[a].val = grow
(* and a copy that is not the row is still to be deleted. *)
OldIsDoomed ==
  \A n \in Nodes : \/ gm[n].val \in {0, grow}
                   \/ n \in ginbox
                   \/ \E a \in G!Agents : G!At(a, "change") \/ (G!At(a, "publish") /\ a[1] # n)

Undisturbed == WriterAlone /\ ToldInPeace /\ LoadedFresh /\ OldIsDoomed
GenericInv == GenericTyped /\ (~graced => Undisturbed)

LEMMA NoneIsEntry == G!None \in Entries /\ G!None.val = 0
  BY DEF G!None, Entries

LEMMA GenericTypedStep == GenericTyped /\ [G!Next]_(G!vars) => GenericTyped'
<1> SUFFICES ASSUME GenericTyped, [G!Next]_(G!vars) PROVE GenericTyped'
  OBVIOUS
<1> USE DEF GenericTyped, G!At, G!Goto, G!End, G!Idle, G!Delete, G!Agents
<1>1. ASSUME NEW a \in G!Agents, G!Load(a) PROVE GenericTyped'
  BY <1>1 DEF G!Load, G!Writing
<1>2. ASSUME NEW a \in G!Agents, G!Write(a) PROVE GenericTyped'
  BY <1>2 DEF G!Write, G!Quiet
<1>3. ASSUME NEW a \in G!Agents, G!LazyDelete(a) PROVE GenericTyped'
  BY <1>3, NoneIsEntry DEF G!LazyDelete
<1>4. ASSUME NEW a \in G!Agents, G!Source(a) PROVE GenericTyped'
  BY <1>4 DEF G!Source
<1>5. ASSUME NEW a \in G!Agents, G!Store(a) PROVE GenericTyped'
  BY <1>5 DEF G!Store, Entries
<1>6. ASSUME NEW a \in G!Agents, G!Change(a) PROVE GenericTyped'
  <2>1. [val |-> grow, old |-> FALSE] \in Entries
    BY DEF Entries
  <2>2. gm' \in [Nodes -> Entries]
    BY <1>6, <2>1, NoneIsEntry DEF G!Change
  <2> QED BY <1>6, <2>2 DEF G!Change
<1>7. ASSUME NEW a \in G!Agents, G!Publish(a) PROVE GenericTyped'
  BY <1>7 DEF G!Publish
<1>8. ASSUME NEW n \in Nodes, G!Receive(n) \/ G!DeleteLocal(n) \/ G!Lapse(n) PROVE GenericTyped'
  <2>1. [gm[n] EXCEPT !.old = TRUE] \in Entries
    BY DEF Entries
  <2> QED BY <1>8, <2>1, NoneIsEntry DEF G!Receive, G!DeleteLocal, G!Lapse
<1>9. CASE UNCHANGED G!vars
  BY <1>9 DEF G!vars
<1> HIDE DEF GenericTyped, G!At, G!Goto, G!End, G!Idle, G!Delete, G!Agents
<1> QED
  BY <1>1, <1>2, <1>3, <1>4, <1>5, <1>6, <1>7, <1>8, <1>9 DEF G!Next, G!Step

(* Each step leaves a race behind it or disturbs nothing. *)
LEMMA UndisturbedStep ==
  ASSUME GenericInv, [G!Next]_(G!vars), ~graced'
  PROVE  Undisturbed'
<1> USE DEF GenericInv, GenericTyped, Entries, G!At, G!Goto, G!End, G!Idle, G!Delete, G!None,
            G!Agents, Writer, Undisturbed, WriterAlone, ToldInPeace, LoadedFresh, OldIsDoomed
<1>1. ASSUME NEW a \in G!Agents, G!Load(a) PROVE Undisturbed'
  <2>1. ~graced /\ ~G!Writing
    BY <1>1 DEF G!Load
  <2>2. ginbox = {} /\ \A b \in G!Agents : ~Writer(b)
    BY <2>1 DEF G!Writing
  <2> QED BY <1>1, <2>1, <2>2 DEF G!Load
<1>2. ASSUME NEW a \in G!Agents, G!Write(a) PROVE Undisturbed'
  <2>1. G!Quiet /\ ginbox' = {} /\ gcall' = [gcall EXCEPT ![a].at = "change"]
    BY <1>2 DEF G!Write, G!Quiet
  <2>2. \A b \in G!Agents \ {a} : gcall'[b] = G!Idle
    BY <2>1 DEF G!Quiet
  <2>3. gcall'[a].at = "change"
    BY <2>1
  <2> QED BY <2>1, <2>2, <2>3
<1>3. ASSUME NEW a \in G!Agents, G!LazyDelete(a) PROVE Undisturbed'
  BY <1>3 DEF G!LazyDelete
<1>4. ASSUME NEW a \in G!Agents, G!Source(a) PROVE Undisturbed'
  BY <1>4 DEF G!Source
<1>5. ASSUME NEW a \in G!Agents, G!Store(a) PROVE Undisturbed'
  <2>1. /\ gcall' = [gcall EXCEPT ![a] = G!Idle]
        /\ UNCHANGED <<grow, ginbox>>
        /\ gcall[a].at = "store"
    BY <1>5 DEF G!Store
  <2>2. WriterAlone' /\ ToldInPeace'
    BY <1>5, <2>1 DEF G!Store
  <2>3. LoadedFresh'
    BY <1>5, <2>1 DEF G!Store
  <2>4. OldIsDoomed'
    BY <1>5, <2>1 DEF G!Store
  <2> QED BY <2>2, <2>3, <2>4
<1>6. ASSUME NEW a \in G!Agents, G!Change(a) PROVE Undisturbed'
  BY <1>6 DEF G!Change
<1>7. ASSUME NEW a \in G!Agents, G!Publish(a) PROVE Undisturbed'
  BY <1>7 DEF G!Publish
<1>8. ASSUME NEW n \in Nodes, G!Receive(n) \/ G!DeleteLocal(n) \/ G!Lapse(n) PROVE Undisturbed'
  BY <1>8 DEF G!Receive, G!DeleteLocal, G!Lapse
<1>9. CASE UNCHANGED G!vars
  BY <1>9 DEF G!vars
<1> HIDE DEF GenericInv, GenericTyped, Entries, G!At, G!Goto, G!End, G!Idle, G!Delete, G!None,
             G!Agents, Writer, Undisturbed, WriterAlone, ToldInPeace, LoadedFresh, OldIsDoomed
<1> QED
  BY <1>1, <1>2, <1>3, <1>4, <1>5, <1>6, <1>7, <1>8, <1>9 DEF G!Next, G!Step

-----------------------------------------------------------------------------
(* TwoLevelHandler: the calls, and the goroutines that write later. *)
Levels == Values \cup {T!None}
TwoLevelCalls ==
  [op : {"idle", "get", "batch", "compute", "set", "del", "loaded"},
   at : {"end", "l1", "l2", "promote", "load"}, val : Levels]
TwoLevelTyped ==
  /\ tl1 \in Levels /\ tl2 \in Levels /\ truth \in Levels /\ raced \in BOOLEAN
  /\ tcall \in [Callers -> TwoLevelCalls]
  /\ late \in [{1, 2} \X Values -> Nat]
Placed ==
  \A p \in Callers : /\ (tcall[p].op = "idle") <=> (tcall[p] = T!Idle)
                     /\ T!At(p, "promote") => tcall[p].op = "get"
                     /\ T!At(p, "load") => tcall[p].op = "compute"
                     /\ tcall[p].op = "set" => tcall[p].val # T!None

(* A call that writes and has not been raced is the only one, with no goroutine alive, *)
WritesAlone ==
  \A p \in Callers : T!Op(p, T!Writes) =>
    late = T!NoLate /\ \A q \in Callers \ {p} : tcall[q] = T!Idle
(* and so is the goroutine that Set leaves behind for L2. *)
LateSetAlone ==
  \A v \in Values : late[<<2, v>>] > 0 => \A p \in Callers : tcall[p] = T!Idle
(* All that will be written is what was set last, *)
WillWriteTruth ==
  /\ \A t \in {1, 2} \X Values : late[t] > 0 => t[2] = truth
  /\ \A p \in Callers : T!At(p, "promote") \/ T!Op(p, {"set", "del", "loaded"})
                          => tcall[p].val = truth
(* and a level that has something else has its write before it. *)
L1Agrees ==
  \/ tl1 \in {T!None, truth}
  \/ \E p \in Callers : T!Op(p, {"set", "del", "loaded"}) /\ T!At(p, "l1")
L2Agrees ==
  \/ tl2 \in {T!None, truth}
  \/ \E p \in Callers : T!Op(p, {"set", "del", "loaded"})
  \/ \E v \in Values : late[<<2, v>>] > 0

Peaceful == WritesAlone /\ LateSetAlone /\ WillWriteTruth /\ L1Agrees /\ L2Agrees
TwoLevelInv == TwoLevelTyped /\ Placed /\ (~raced => Peaceful)

LEMMA TwoLevelTypedStep ==
  ASSUME TwoLevelTyped, Placed, [T!Next]_(T!vars)
  PROVE  TwoLevelTyped' /\ Placed'
<1> USE DEF TwoLevelTyped, TwoLevelCalls, Levels, T!At, T!Op, T!Goto, T!End, T!Idle,
            T!None
<1>1. ASSUME NEW p \in Callers, NEW op \in {"get", "batch", "compute", "set", "del"},
             NEW v \in Values \cup {T!None}, T!Begin(p, op, v)
      PROVE  TwoLevelTyped' /\ Placed'
  BY <1>1 DEF T!Begin, T!Note, Placed
<1>2. ASSUME NEW p \in Callers, T!Read1(p) PROVE TwoLevelTyped' /\ Placed'
  <2>1. \/ tcall' = [tcall EXCEPT ![p] = T!Idle]
        \/ tcall' = [tcall EXCEPT ![p].at = "l2"] /\ tcall[p].op # "idle"
    BY <1>2 DEF T!Read1
  <2>2. tcall' \in [Callers -> TwoLevelCalls]
    BY <2>1
  <2>3. Placed'
    BY <2>1 DEF Placed
  <2> QED BY <1>2, <2>2, <2>3 DEF T!Read1
<1>3. ASSUME NEW p \in Callers, T!Read2(p) PROVE TwoLevelTyped' /\ Placed'
  <2>1. late' \in [{1, 2} \X Values -> Nat]
    BY <1>3 DEF T!Read2, T!Late
  <2>2. \/ tcall' = [tcall EXCEPT ![p] = [op |-> "get", at |-> "promote", val |-> tl2]]
        \/ tcall' = [tcall EXCEPT ![p] = T!Idle]
        \/ tcall' = [tcall EXCEPT ![p].at = "load"] /\ tcall[p].op = "compute"
    BY <1>3 DEF T!Read2
  <2>3. tcall' \in [Callers -> TwoLevelCalls]
    BY <2>2
  <2>4. Placed'
    BY <2>2 DEF Placed
  <2> QED BY <1>3, <2>1, <2>3, <2>4 DEF T!Read2
<1>4. ASSUME NEW p \in Callers, T!Promote(p) PROVE TwoLevelTyped' /\ Placed'
  BY <1>4 DEF T!Promote, T!Fault, Placed
<1>5. ASSUME NEW p \in Callers, T!Load(p) PROVE TwoLevelTyped' /\ Placed'
  <2>1. CASE T!End(p) /\ UNCHANGED truth
    <3>1. tcall' \in [Callers -> TwoLevelCalls] /\ Placed'
      BY <2>1 DEF Placed
    <3> QED BY <1>5, <2>1, <3>1 DEF T!Load
  <2>2. ASSUME NEW v \in Values,
               tcall' = [tcall EXCEPT ![p] = [op |-> "loaded", at |-> "l1", val |-> v]],
               truth' = v
        PROVE  TwoLevelTyped' /\ Placed'
    <3>1. tcall' \in [Callers -> TwoLevelCalls] /\ Placed'
      BY <2>2 DEF Placed
    <3>2. raced' \in BOOLEAN
      BY <1>5 DEF T!Load
    <3> QED BY <1>5, <2>2, <3>1, <3>2 DEF T!Load
  <2> QED BY <1>5, <2>1, <2>2 DEF T!Load
<1>6. ASSUME NEW p \in Callers, T!Write1(p) PROVE TwoLevelTyped' /\ Placed'
  <2>1. late' \in [{1, 2} \X Values -> Nat]
    BY <1>6 DEF T!Write1, T!Late
  <2>2. /\ tcall[p].op \in {"set", "loaded"}
        /\ \/ tcall' = [tcall EXCEPT ![p] = T!Idle]
           \/ tcall' = [tcall EXCEPT ![p].at = "l2"]
    BY <1>6 DEF T!Write1
  <2>3. tcall' \in [Callers -> TwoLevelCalls]
    BY <2>2
  <2>4. Placed'
    BY <2>2 DEF Placed
  <2>5. raced' \in BOOLEAN /\ tl1' \in Levels
    BY <1>6 DEF T!Write1
  <2> QED BY <1>6, <2>1, <2>3, <2>4, <2>5 DEF T!Write1
<1>7. ASSUME NEW p \in Callers, T!Write2(p) PROVE TwoLevelTyped' /\ Placed'
  BY <1>7 DEF T!Write2, T!Fault, Placed
<1>8. ASSUME NEW p \in Callers, T!Del1(p) \/ T!Del2(p) PROVE TwoLevelTyped' /\ Placed'
  <2>1. CASE T!Del1(p)
    <3>1. tcall[p].op = "del" /\ tcall' = [tcall EXCEPT ![p].at = "l2"]
      BY <2>1 DEF T!Del1
    <3>2. tcall' \in [Callers -> TwoLevelCalls] /\ Placed'
      BY <3>1 DEF Placed
    <3> QED BY <2>1, <3>2 DEF T!Del1
  <2>2. CASE T!Del2(p)
    <3>1. tcall' \in [Callers -> TwoLevelCalls] /\ Placed'
      BY <2>2 DEF T!Del2, Placed
    <3> QED BY <2>2, <3>1 DEF T!Del2
  <2> QED BY <1>8, <2>1, <2>2
<1>9. ASSUME NEW t \in {1, 2} \X Values, T!WriteLate(t) PROVE TwoLevelTyped' /\ Placed'
  <2>1. late' \in [{1, 2} \X Values -> Nat]
    BY <1>9 DEF T!WriteLate
  <2>2. tl1' \in Levels /\ tl2' \in Levels /\ raced' \in BOOLEAN
    BY <1>9 DEF T!WriteLate
  <2> QED BY <1>9, <2>1, <2>2 DEF T!WriteLate, Placed
<1>10. CASE T!Lose
  BY <1>10 DEF T!Lose, Placed
<1>11. CASE UNCHANGED T!vars
  BY <1>11 DEF T!vars, Placed
<1> HIDE DEF TwoLevelTyped, TwoLevelCalls, Levels, T!At, T!Op, T!Goto, T!End, T!Idle,
             T!None
<1> QED
  BY <1>1, <1>2, <1>3, <1>4, <1>5, <1>6, <1>7, <1>8, <1>9, <1>10, <1>11 DEF T!Next

(* A call that reads, and GetOrCompute until it has loaded, may end or go on. *)
LEMMA ReaderGoesOn ==
  ASSUME TwoLevelTyped, Placed, Peaceful, UNCHANGED <<tl1, tl2, late, truth>>,
         NEW p \in Callers, tcall[p].op \in {"get", "batch", "compute"},
         tcall[p].at # "promote",
         \/ tcall' = [tcall EXCEPT ![p] = T!Idle]
         \/ \E l \in {"l2", "load"} : tcall' = [tcall EXCEPT ![p].at = l]
  PROVE  Peaceful'
<1> USE DEF TwoLevelTyped, Placed, TwoLevelCalls, T!At, T!Op, T!Idle, T!Writes
<1>1. \A q \in Callers \ {p} : tcall'[q] = tcall[q]
  OBVIOUS
<1>2. tcall[p] # T!Idle
  OBVIOUS
<1>3. tcall'[p].op \in {"idle", tcall[p].op} /\ tcall'[p].at # "promote"
  OBVIOUS
<1>4. tcall'[p] # T!Idle => tcall'[p].op = tcall[p].op
  OBVIOUS
<1>5. WritesAlone' /\ LateSetAlone'
  BY <1>1, <1>2, <1>3, <1>4 DEF Peaceful, WritesAlone, LateSetAlone
<1>6. WillWriteTruth'
  BY <1>1, <1>3 DEF Peaceful, WillWriteTruth
<1>7. L1Agrees' /\ L2Agrees'
  BY <1>1 DEF Peaceful, L1Agrees, L2Agrees
<1> QED
  BY <1>5, <1>6, <1>7 DEF Peaceful

(* Each step leaves a race behind it or keeps the peace. *)
LEMMA PeacefulStep ==
  ASSUME TwoLevelInv, [T!Next]_(T!vars), ~raced'
  PROVE  Peaceful'
<1> USE DEF TwoLevelInv, TwoLevelTyped, Placed, TwoLevelCalls, Levels, T!At, T!Op, T!Goto,
            T!End, T!Idle, T!None, T!Writes
<1> USE DEF Peaceful, WritesAlone, LateSetAlone, WillWriteTruth, L1Agrees, L2Agrees
<1>0. \A t \in {1, 2} \X Values : late = T!NoLate => late[t] = 0
  BY DEF T!NoLate
<1>1. ASSUME NEW p \in Callers, NEW op \in {"get", "batch", "compute", "set", "del"},
             NEW v \in Values \cup {T!None}, T!Begin(p, op, v)
      PROVE  Peaceful'
  <2>1. /\ tcall[p] = T!Idle /\ UNCHANGED <<tl1, tl2, late>> /\ (op = "set" <=> v # T!None)
        /\ tcall' = [tcall EXCEPT ![p] = [op |-> op, at |-> "l1", val |-> v]]
    BY <1>1 DEF T!Begin
  <2>2. CASE op \in {"set", "del"}
    <3>1. T!Others(p) = {} /\ late = T!NoLate /\ truth' = v
      BY <1>1, <2>2 DEF T!Begin, T!Note
    <3>2. \A q \in Callers \ {p} : tcall'[q] = T!Idle
      BY <2>1, <3>1 DEF T!Others
    <3>3. tcall'[p] = [op |-> op, at |-> "l1", val |-> v]
      BY <2>1
    <3> QED BY <1>0, <2>1, <2>2, <3>1, <3>2, <3>3
  <2>3. CASE op = "compute"
    <3>1. T!Others(p) = {} /\ late = T!NoLate /\ ~raced /\ truth' = truth
      BY <1>1, <2>3 DEF T!Begin, T!Note
    <3>2. \A q \in Callers \ {p} : tcall[q] = T!Idle /\ tcall'[q] = T!Idle
      BY <2>1, <3>1 DEF T!Others
    <3>3. tcall'[p] = [op |-> op, at |-> "l1", val |-> v]
      BY <2>1
    <3>4. v = T!None
      BY <2>1, <2>3
    <3>5. \A q \in Callers : ~T!At(q, "promote") /\ tcall[q].op \notin {"set", "del", "loaded"}
      BY <2>1, <3>2
    <3>6. WritesAlone' /\ LateSetAlone' /\ WillWriteTruth'
      BY <1>0, <2>1, <2>3, <3>1, <3>2, <3>3
    <3>7. tl1 \in {T!None, truth} /\ tl2 \in {T!None, truth}
      <4>1. ASSUME NEW w \in Values PROVE ~(late[<<2, w>>] > 0)
        <5>1. late[<<2, w>>] = 0
          BY <1>0, <3>1
        <5> QED BY <5>1
      <4>2. Peaceful
        BY <3>1
      <4>3. tl1 \in {T!None, truth} \/ \E q \in Callers : tcall[q].op \in {"set", "del", "loaded"}
        BY <4>2
      <4>4. \/ tl2 \in {T!None, truth}
            \/ \E q \in Callers : tcall[q].op \in {"set", "del", "loaded"}
            \/ \E w \in Values : late[<<2, w>>] > 0
        BY <4>2
      <4>5. tl1 \in {T!None, truth}
        BY <3>5, <4>3
      <4>6. tl2 \in {T!None, truth}
        BY <3>5, <4>1, <4>4
      <4> QED BY <4>5, <4>6
    <3> QED BY <2>1, <3>1, <3>6, <3>7
  <2>4. CASE op \in {"get", "batch"}
    <3>1. /\ late = T!NoLate /\ ~raced /\ truth' = truth
          /\ \A q \in T!Others(p) : tcall[q].op \notin T!Writes
      BY <1>1, <2>4 DEF T!Begin, T!Note
    <3>2. \A q \in Callers : tcall[q].op \notin T!Writes
      BY <2>1, <3>1 DEF T!Others
    <3>3. \A q \in Callers \ {p} : tcall'[q] = tcall[q]
      BY <2>1
    <3>4. tcall'[p] = [op |-> op, at |-> "l1", val |-> v]
      BY <2>1
    <3>5. \A q \in Callers : tcall'[q].op \notin T!Writes
      BY <2>4, <3>2, <3>3, <3>4
    <3>6. \A t \in {1, 2} \X Values : ~(late[t] > 0) /\ ~(late'[t] > 0)
      BY <1>0, <2>1, <3>1
    <3>7. WritesAlone'
      BY <3>5
    <3>8. LateSetAlone'
      <4>1. ASSUME NEW w \in Values PROVE ~(late'[<<2, w>>] > 0)
        BY <3>6
      <4> QED BY <4>1
    <3>9. WillWriteTruth'
      <4>1. \A q \in Callers : ~T!At(q, "promote")' \/ q # p
        BY <3>4
      <4>2. \A q \in Callers \ {p} : T!At(q, "promote") => tcall[q].val = truth
        BY <3>1
      <4>3. \A q \in Callers : T!At(q, "promote")' => tcall'[q].val = truth'
        BY <3>1, <3>3, <4>1, <4>2
      <4> QED BY <3>5, <3>6, <4>3
    <3>10. tl1 \in {T!None, truth} /\ tl2 \in {T!None, truth}
      <4>1. ASSUME NEW w \in Values PROVE ~(late[<<2, w>>] > 0)
        BY <3>6
      <4> QED BY <3>1, <3>2, <4>1
    <3> QED BY <2>1, <3>1, <3>7, <3>8, <3>9, <3>10
  <2> QED BY <2>2, <2>3, <2>4
<1>2. ASSUME NEW p \in Callers, T!Read1(p) PROVE Peaceful'
  <2>1. /\ UNCHANGED <<tl1, tl2, late, truth, raced>>
        /\ tcall[p].op \in {"get", "batch", "compute"} /\ tcall[p].at = "l1"
        /\ \/ tcall' = [tcall EXCEPT ![p] = T!Idle]
           \/ tcall' = [tcall EXCEPT ![p].at = "l2"]
    BY <1>2 DEF T!Read1
  <2> QED BY <2>1, ReaderGoesOn
<1>3. ASSUME NEW p \in Callers, T!Read2(p) PROVE Peaceful'
  <2>1. /\ UNCHANGED <<tl1, tl2, truth, raced>>
        /\ tcall[p].op \in {"get", "batch", "compute"} /\ tcall[p].at = "l2"
    BY <1>3 DEF T!Read2
  <2>2. CASE late' = late /\ (T!End(p) \/ T!Goto(p, "load"))
    BY <2>1, <2>2, ReaderGoesOn
  <2>3. tl2 # T!None => tl2 = truth
    <3>1. tcall[p] # T!Idle
      BY <2>1
    <3>2. ASSUME NEW q \in Callers PROVE tcall[q].op \notin {"set", "del", "loaded"}
      BY <2>1, <3>1
    <3> QED BY <2>1, <3>1, <3>2
  <2>4. ASSUME tl2 # T!None, UNCHANGED late,
               tcall' = [tcall EXCEPT ![p] = [op |-> "get", at |-> "promote", val |-> tl2]],
               tcall[p].op = "get"
        PROVE  Peaceful'
    <3>1. \A q \in Callers \ {p} : tcall'[q] = tcall[q]
      BY <2>4
    <3>2. tcall'[p] = [op |-> "get", at |-> "promote", val |-> truth]
      BY <2>3, <2>4
    <3>3. tcall[p] # T!Idle /\ tcall'[p] # T!Idle
      BY <2>1, <3>2
    <3> QED BY <2>1, <2>4, <3>1, <3>2, <3>3
  <2>5. ASSUME tl2 # T!None, T!Late(<<1, tl2>>), T!End(p) PROVE Peaceful'
    <3>1. \A q \in Callers \ {p} : tcall'[q] = tcall[q]
      BY <2>5
    <3>2. tcall'[p] = T!Idle /\ tcall[p] # T!Idle
      BY <2>1, <2>5
    <3>3. \A t \in {1, 2} \X Values : t # <<1, truth>> => late'[t] = late[t]
      BY <2>3, <2>5 DEF T!Late
    <3>4. ASSUME NEW q \in Callers \ {p}, tcall[q].op \in T!Writes PROVE FALSE
      <4>1. tcall[p] = T!Idle
        BY <2>1, <3>4
      <4> QED BY <3>2, <4>1
    <3>5. WritesAlone'
      BY <3>1, <3>2, <3>4
    <3>8. ASSUME NEW v \in Values PROVE late'[<<2, v>>] = 0
      <4>1. late'[<<2, v>>] = late[<<2, v>>]
        <5>1. <<2, v>> \in {1, 2} \X Values /\ <<2, v>> # <<1, truth>>
          OBVIOUS
        <5> QED BY ONLY <3>3, <5>1
      <4>2. ~(late[<<2, v>>] > 0)
        BY <2>1, <3>2
      <4> QED BY <4>1, <4>2
    <3>9. LateSetAlone'
      BY <3>8
    <3>6. WillWriteTruth'
      <4>1. truth' = truth
        BY <2>1
      <4>2. \A t \in {1, 2} \X Values : late'[t] > 0 => t[2] = truth
        <5>1. ASSUME NEW t \in {1, 2} \X Values, late'[t] > 0, t # <<1, truth>> PROVE t[2] = truth
          <6>1. late[t] > 0
            BY <3>3, <5>1
          <6> QED BY <2>1, <6>1
        <5> QED BY <5>1
      <4>3. \A q \in Callers \ {p} : tcall'[q] = tcall[q]
        BY <3>1
      <4> QED BY <2>1, <3>2, <4>1, <4>2, <4>3
    <3>7. L1Agrees' /\ L2Agrees'
      <4>1. truth' = truth /\ tl1' = tl1 /\ tl2' = tl2
        BY <2>1, <2>5
      <4>2. \A q \in Callers : tcall[q].op \notin {"set", "del", "loaded"}
        BY <2>1, <3>4
      <4>3. \A v \in Values : ~(late[<<2, v>>] > 0)
        BY <2>1, <3>2, <3>3
      <4>4. tl1 \in {T!None, truth} /\ tl2 \in {T!None, truth}
        BY <2>1, <4>2, <4>3
      <4> QED BY <4>1, <4>4
    <3> QED BY <3>5, <3>6, <3>7, <3>9
  <2> QED BY <1>3, <2>1, <2>2, <2>4, <2>5 DEF T!Read2
<1>4. ASSUME NEW p \in Callers, T!Promote(p) PROVE Peaceful'
  <2>1. /\ tcall[p].op = "get" /\ tcall[p].val = truth /\ tcall[p] # T!Idle
        /\ tcall' = [tcall EXCEPT ![p] = T!Idle]
        /\ UNCHANGED <<tl2, late, truth, raced>> /\ tl1' \in {tl1, truth}
    BY <1>4 DEF T!Promote
  <2>2. tcall'[p] = T!Idle /\ \A q \in Callers \ {p} : tcall'[q] = tcall[q]
    BY <2>1
  <2>3. \A q \in Callers : tcall[q].op \notin T!Writes
    BY <2>1
  <2>4. \A v \in Values : ~(late[<<2, v>>] > 0)
    BY <2>1
  <2>5. tl1 \in {T!None, truth} /\ tl2 \in {T!None, truth}
    BY <2>1, <2>3, <2>4
  <2>6. WritesAlone' /\ LateSetAlone' /\ L1Agrees' /\ L2Agrees'
    BY <2>1, <2>2, <2>3, <2>4, <2>5
  <2>7. WillWriteTruth'
    BY <2>1, <2>2
  <2> QED BY <2>6, <2>7
<1>5. ASSUME NEW p \in Callers, T!Load(p) PROVE Peaceful'
  <2>1. UNCHANGED <<tl1, tl2, late>> /\ tcall[p].at = "load" /\ tcall[p].op = "compute"
    BY <1>5 DEF T!Load
  <2>2. CASE T!End(p) /\ UNCHANGED <<truth, raced>>
    BY <2>1, <2>2, ReaderGoesOn
  <2>3. ASSUME NEW v \in Values,
               tcall' = [tcall EXCEPT ![p] = [op |-> "loaded", at |-> "l1", val |-> v]],
               truth' = v, raced' = (raced \/ T!Others(p) # {} \/ late # T!NoLate)
        PROVE  Peaceful'
    <3>1. late = T!NoLate /\ T!Others(p) = {}
      BY <2>3
    <3>2. \A q \in Callers \ {p} : tcall'[q] = T!Idle
      BY <2>3, <3>1 DEF T!Others
    <3>3. tcall'[p] = [op |-> "loaded", at |-> "l1", val |-> v]
      BY <2>3
    <3> QED BY <1>0, <2>1, <2>3, <3>1, <3>2, <3>3
  <2> QED BY <1>5, <2>2, <2>3 DEF T!Load
<1>6. ASSUME NEW p \in Callers, T!Write1(p) PROVE Peaceful'
  <2>1. /\ tcall[p].op \in {"set", "loaded"} /\ tcall[p].at = "l1"
        /\ tl1' = tcall[p].val /\ UNCHANGED <<tl2, truth, raced>>
    BY <1>6 DEF T!Write1
  <2>2. late = T!NoLate /\ \A q \in Callers \ {p} : tcall[q] = T!Idle
    BY <2>1
  <2>3. tcall[p].val = truth
    BY <2>1
  <2>4. CASE UNCHANGED late /\ T!Goto(p, "l2")
    <3>1. \A q \in Callers \ {p} : tcall'[q] = T!Idle
      BY <2>2, <2>4
    <3>2. tcall'[p].op = tcall[p].op /\ tcall'[p].at = "l2" /\ tcall'[p].val = truth
      BY <2>3, <2>4
    <3> QED BY <1>0, <2>1, <2>2, <2>3, <2>4, <3>1, <3>2
  <2>5. CASE T!Late(<<2, tcall[p].val>>) /\ T!End(p) /\ tcall[p].op = "set"
    <3>1. \A q \in Callers : tcall'[q] = T!Idle
      BY <2>2, <2>5
    <3>2. \A t \in {1, 2} \X Values : t # <<2, truth>> => late'[t] = 0
      BY <1>0, <2>2, <2>3, <2>5 DEF T!Late
    <3>3. WritesAlone' /\ LateSetAlone' /\ WillWriteTruth' /\ L1Agrees'
      BY <2>1, <2>3, <3>1, <3>2
    <3>4. truth \in Values /\ late'[<<2, truth>>] = late[<<2, truth>>] + 1
      BY <2>3, <2>5 DEF T!Late
    <3>5. late'[<<2, truth>>] > 0
      BY <3>4
    <3>6. L2Agrees'
      BY <2>1, <3>4, <3>5
    <3> QED BY <3>3, <3>6
  <2> QED BY <1>6, <2>4, <2>5 DEF T!Write1
<1>7. ASSUME NEW p \in Callers, T!Write2(p) PROVE Peaceful'
  BY <1>7 DEF T!Write2
<1>8. ASSUME NEW p \in Callers, T!Del1(p) PROVE Peaceful'
  BY <1>8 DEF T!Del1
<1>9. ASSUME NEW p \in Callers, T!Del2(p) PROVE Peaceful'
  BY <1>9 DEF T!Del2
<1>10. ASSUME NEW t \in {1, 2} \X Values, T!WriteLate(t) PROVE Peaceful'
  <2>1. /\ UNCHANGED <<tcall, truth, raced>> /\ late[t] > 0
        /\ \A u \in {1, 2} \X Values : (late'[u] > 0 => late[u] > 0)
                                       /\ (u # t => late'[u] = late[u])
        /\ \/ t[1] = 1 /\ tl1' = truth /\ UNCHANGED tl2
           \/ t[1] = 2 /\ tl2' = truth /\ UNCHANGED tl1
    BY <1>10 DEF T!WriteLate
  <2>2. \A q \in Callers : tcall[q].op \notin T!Writes
    BY <1>0, <2>1
  <2>3. WritesAlone' /\ LateSetAlone' /\ WillWriteTruth' /\ L1Agrees'
    BY <2>1, <2>2
  <2>4. L2Agrees'
    <3>1. CASE t[1] = 2
      BY <2>1, <3>1
    <3>2. CASE t[1] = 1
      <4>1. tl2' = tl2 /\ truth' = truth /\ \A v \in Values : late'[<<2, v>>] = late[<<2, v>>]
        BY <2>1, <3>2
      <4> QED BY <2>1, <2>2, <4>1
    <3> QED BY <3>1, <3>2
  <2> QED BY <2>3, <2>4
<1>11. CASE T!Lose
  BY <1>11 DEF T!Lose
<1>12. CASE UNCHANGED T!vars
  BY <1>12 DEF T!vars
<1> HIDE DEF TwoLevelInv, TwoLevelTyped, Placed, TwoLevelCalls, Levels, T!At, T!Op, T!Goto,
             T!End, T!Idle, T!None, T!Writes
<1> HIDE DEF Peaceful, WritesAlone, LateSetAlone, WillWriteTruth, L1Agrees, L2Agrees
<1> QED
  BY <1>1, <1>2, <1>3, <1>4, <1>5, <1>6, <1>7, <1>8, <1>9, <1>10, <1>11, <1>12 DEF T!Next

-----------------------------------------------------------------------------
(* KVCache: rows, and calls. *)
Maps == [Keys -> Nat]
KVCalls ==
  [pc : {"idle", "hmget", "store", "miss", "hgetall", "load", "wipe", "replace", "write", "drop",
         "pipe", "publish", "notfound"},
   op : {"get", "getmany", "set", "delete", "clear", "refresh", "swap"},
   keys : SUBSET Keys, data : Maps, todo : SUBSET Keys,
   then : {"end", "miss", "write", "pipe", "publish"}, gone : BOOLEAN]

(* A Get looks for rows that are there, unless one has gone during the call; and when it
   has got all that it loads, it has them, or has what there was in the hash. *)
Looks(c, s) == c.op = "get" /\ ~c.gone => c.keys \subseteq K!Has(s)
Partial(c, k) == k = "names" /\ K!Has(c.data) # {}
HasLoaded(c, k) ==
  c.op = "get" /\ ~c.gone
  /\ (c.pc = "write" \/ (c.pc \in {"store", "wipe"} /\ c.then # "miss"))
    => c.keys \subseteq K!Has(c.data) \/ Partial(c, k)
Sound(c, s, k) ==
  /\ Looks(c, s)
  /\ HasLoaded(c, k)
  /\ c.pc = "notfound" => c.gone \/ Partial(c, k)
  /\ c.pc = "hgetall" => k # "batch"
  /\ c.pc = "drop" => c.op = "delete"
  /\ c.pc = "replace" => c.op = "swap"

KVTyped ==
  /\ kind \in {"names", "ids", "batch"}
  /\ source \in Maps /\ redis \in Maps /\ version \in Nat
  /\ call \in [Procs -> KVCalls]
KVInv == KVTyped /\ \A p \in Procs : Sound(call[p], source, kind)

LEMMA MapFacts ==
  /\ K!Nothing \in Maps /\ \A k \in Keys : K!Nothing[k] = 0
  /\ \A s \in Maps : K!Has(s) \subseteq Keys
  /\ \A s, t \in Maps, ks \in SUBSET Keys : K!Over(s, ks, t) \in Maps
  BY DEF Maps, K!Nothing, K!None, K!Has, K!Over

LEMMA KVIdle == K!Idle \in KVCalls /\ \A s \in Maps : \A k : Sound(K!Idle, s, k)
<1>1. K!Idle \in KVCalls
  BY MapFacts DEF K!Idle, KVCalls
<1>2. K!Idle.keys = {} /\ K!Idle.pc = "idle"
  BY DEF K!Idle
<1> QED BY <1>1, <1>2 DEF Sound, Looks, HasLoaded, Partial

(* Where a call goes that may have nothing left to store. *)
LEMMA SettleSound ==
  ASSUME NEW c \in KVCalls, NEW s \in Maps, NEW k, NEW p, Sound(c, s, k),
         c.pc \in {"store", "write", "drop"}
  PROVE  K!Settle(p, c) \in KVCalls /\ Sound(K!Settle(p, c), s, k)
<1>1. CASE c.todo # {}
  BY <1>1 DEF K!Settle
<1>2. CASE c.todo = {} /\ c.then # "end"
  <2>1. K!Settle(p, c) = [c EXCEPT !.pc = c.then, !.then = "end"]
    BY <1>2 DEF K!Settle
  <2> DEFINE d == [c EXCEPT !.pc = c.then, !.then = "end"]
  <2>2. /\ d \in KVCalls /\ d.pc = c.then /\ d.op = c.op /\ d.keys = c.keys /\ d.gone = c.gone
        /\ d.data = c.data /\ d.pc \in {"miss", "write", "pipe", "publish"}
    BY <1>2 DEF KVCalls
  <2> HIDE DEF d
  <2>3. Sound(d, s, k)
    BY <2>2 DEF Sound, Looks, HasLoaded, Partial
  <2> QED BY <2>1, <2>2, <2>3 DEF d
<1>3. CASE c.todo = {} /\ c.then = "end" /\ c.op = "get" /\ ~(c.keys \subseteq K!Has(c.data))
  <2>1. K!Settle(p, c) = [c EXCEPT !.pc = "notfound"]
    BY <1>3 DEF K!Settle, K!Found
  <2> DEFINE d == [c EXCEPT !.pc = "notfound"]
  <2>2. /\ d \in KVCalls /\ d.pc = "notfound" /\ d.op = c.op /\ d.keys = c.keys
        /\ d.gone = c.gone /\ d.data = c.data
    BY DEF KVCalls
  <2> HIDE DEF d
  <2>3. c.gone \/ Partial(d, k)
    BY <1>3, <2>2 DEF Sound, HasLoaded, Partial, KVCalls
  <2>4. Sound(d, s, k)
    BY <2>2, <2>3 DEF Sound, Looks, HasLoaded, Partial
  <2> QED BY <2>1, <2>2, <2>4 DEF d
<1>4. CASE c.todo = {} /\ c.then = "end" /\ ~(c.op = "get" /\ ~(c.keys \subseteq K!Has(c.data)))
  <2>1. K!Settle(p, c) = K!Idle
    BY <1>4 DEF K!Settle, K!Found
  <2> QED BY <2>1, KVIdle
<1> QED BY <1>1, <1>2, <1>3, <1>4

(* One call goes on, and no row changes. *)
LEMMA CallGoesOn ==
  ASSUME KVInv, UNCHANGED <<kind, source, version>>, redis' \in Maps,
         NEW p \in Procs, NEW c \in KVCalls, Sound(c, source, kind),
         call' = [call EXCEPT ![p] = c]
  PROVE  KVInv'
<1>1. KVTyped'
  BY DEF KVInv, KVTyped
<1>2. ASSUME NEW q \in Procs PROVE Sound(call'[q], source', kind')
  <2>1. source' = source /\ kind' = kind /\ (q # p => call'[q] = call[q]) /\ call'[p] = c
    BY DEF KVInv, KVTyped
  <2>2. CASE q = p
    BY <2>1, <2>2
  <2>3. CASE q # p
    BY <2>1, <2>3 DEF KVInv
  <2> QED BY <2>2, <2>3
<1> QED BY <1>1, <1>2 DEF KVInv

LEMMA CallSettles ==
  ASSUME KVInv, UNCHANGED <<kind, source, version>>, redis' \in Maps,
         NEW p \in Procs, NEW c \in KVCalls, Sound(c, source, kind),
         c.pc \in {"store", "write", "drop"}, K!Continue(p, c)
  PROVE  KVInv'
<1>1. source \in Maps
  BY DEF KVInv, KVTyped
<1>2. K!Settle(p, c) \in KVCalls /\ Sound(K!Settle(p, c), source, kind)
  BY <1>1, SettleSound
<1> QED BY <1>2, CallGoesOn DEF K!Continue

(* Get and GetMany, until they store what they have found or go to the loader. *)
LEMMA GetKeepsSound ==
  ASSUME KVInv, NEW p \in Procs, NEW o \in {"get", "getmany"}, K!GetCall(p, o)
  PROVE  KVInv'
<1>1. PICK ks \in SUBSET Keys :
        LET missed1 == ks \ K!Has(local[K!Home(p)]) IN
          call' = [call EXCEPT ![p] =
            [K!Idle EXCEPT !.pc = "hmget", !.op = o, !.keys = missed1,
                           !.gone = \E k \in missed1 : source[k] = K!None]]
  BY DEF K!GetCall
<1> DEFINE ms == ks \ K!Has(local[K!Home(p)])
           c == [K!Idle EXCEPT !.pc = "hmget", !.op = o, !.keys = ms,
                               !.gone = \E k \in ms : source[k] = K!None]
<1>2. /\ c.pc = "hmget" /\ c.op = o /\ c.keys = ms /\ c.data = K!Nothing /\ c.todo = {}
      /\ c.then = "end" /\ c.gone = (\E k \in ms : source[k] = K!None)
  BY DEF K!Idle
<1>3. c \in KVCalls
  BY MapFacts DEF K!Idle, KVCalls
<1> HIDE DEF c
<1>4. ~c.gone => c.keys \subseteq K!Has(source)
  BY <1>2 DEF K!Has
<1>5. Sound(c, source, kind)
  BY <1>2, <1>4 DEF Sound, Looks, HasLoaded, Partial
<1>6. call' = [call EXCEPT ![p] = c] /\ UNCHANGED <<kind, source, version>> /\ redis' \in Maps
  BY <1>1 DEF K!GetCall, c, KVInv, KVTyped
<1> QED BY <1>3, <1>5, <1>6, CallGoesOn

(* A step of a call that only goes somewhere else. *)
LEMMA GoesElsewhere ==
  ASSUME KVInv, UNCHANGED <<kind, source, version>>, redis' \in Maps,
         NEW p \in Procs,
         NEW l \in {"miss", "hgetall", "load", "wipe"}, K!Goto(p, l),
         l = "hgetall" => kind # "batch", l = "wipe" => call[p].op # "get"
  PROVE  KVInv'
<1> DEFINE c == [call[p] EXCEPT !.pc = l]
<1>1. call[p] \in KVCalls /\ Sound(call[p], source, kind)
  BY DEF KVInv, KVTyped
<1>2. /\ c \in KVCalls /\ c.pc = l /\ c.op = call[p].op /\ c.keys = call[p].keys
      /\ c.gone = call[p].gone /\ c.data = call[p].data
  BY <1>1 DEF KVCalls
<1>3. call' = [call EXCEPT ![p] = c]
  BY DEF K!Goto, KVInv, KVTyped
<1> HIDE DEF c
<1>4. Sound(c, source, kind)
  BY <1>1, <1>2 DEF Sound, Looks, HasLoaded, Partial
<1> QED BY <1>2, <1>3, <1>4, CallGoesOn

LEMMA CallEnds ==
  ASSUME KVInv, UNCHANGED <<kind, source, version>>, redis' \in Maps, NEW p \in Procs, K!End(p)
  PROVE  KVInv'
<1>1. K!Idle \in KVCalls /\ Sound(K!Idle, source, kind)
  BY KVIdle DEF KVInv, KVTyped
<1> QED BY <1>1, CallGoesOn DEF K!End

LEMMA HMGetKeepsSound ==
  ASSUME KVInv, NEW p \in Procs, K!HMGet(p)
  PROVE  KVInv'
<1> DEFINE hits == call[p].keys \cap K!Has(redis)
           c == [call[p] EXCEPT !.data = K!Over(redis, hits, @), !.todo = hits, !.pc = "store",
                   !.then = IF hits = call[p].keys THEN "end" ELSE "miss"]
<1>1. /\ UNCHANGED <<kind, source, version>> /\ redis' \in Maps
      /\ redis \in Maps /\ call[p] \in KVCalls /\ Sound(call[p], source, kind)
  BY DEF K!HMGet, KVInv, KVTyped
<1>2. CASE K!Goto(p, IF K!Op(p, "getmany") /\ kind # "batch" THEN "hgetall" ELSE "miss")
  <2>1. CASE K!Op(p, "getmany") /\ kind # "batch"
    BY <1>1, <1>2, <2>1, GoesElsewhere
  <2>2. CASE ~(K!Op(p, "getmany") /\ kind # "batch")
    BY <1>1, <1>2, <2>2, GoesElsewhere
  <2> QED BY <2>1, <2>2
<1>3. CASE K!Continue(p, c)
  <2>1. hits \in SUBSET Keys /\ K!Over(redis, hits, call[p].data) \in Maps
    BY <1>1, MapFacts DEF KVCalls
  <2>2. /\ c \in KVCalls /\ c.pc = "store" /\ c.op = call[p].op /\ c.keys = call[p].keys
        /\ c.gone = call[p].gone /\ c.data = K!Over(redis, hits, call[p].data)
        /\ c.then # "miss" => hits = call[p].keys
    BY <1>1, <2>1 DEF KVCalls
  <2>3. c.then # "miss" => c.keys \subseteq K!Has(c.data)
    BY <2>1, <2>2 DEF K!Has, K!Over
  <2> HIDE DEF c
  <2>4. Sound(c, source, kind)
    BY <1>1, <2>2, <2>3 DEF Sound, Looks, HasLoaded, Partial
  <2> QED BY <1>1, <1>3, <2>2, <2>4, CallSettles
<1> QED BY <1>2, <1>3 DEF K!HMGet

LEMMA MissKeepsSound ==
  ASSUME KVInv, NEW p \in Procs, K!Miss(p)
  PROVE  KVInv'
<1> DEFINE missing == call[p].keys \ K!Has(call[p].data)
           next == IF missing \cap K!Has(source) = {} THEN "end" ELSE "write"
           c == [call[p] EXCEPT !.keys = missing, !.data = K!Over(source, missing, K!Nothing),
                   !.todo = missing \cap K!Has(source), !.pc = "store", !.then = next]
<1>1. /\ UNCHANGED <<kind, source, version>> /\ redis' \in Maps
      /\ source \in Maps /\ call[p] \in KVCalls /\ Sound(call[p], source, kind)
  BY DEF K!Miss, KVInv, KVTyped
<1>2. CASE kind = "batch" /\ K!Continue(p, c)
  <2>1. missing \in SUBSET Keys /\ K!Over(source, missing, K!Nothing) \in Maps
        /\ missing \cap K!Has(source) \in SUBSET Keys
    BY <1>1, MapFacts DEF KVCalls
  <2>2. /\ c \in KVCalls /\ c.pc = "store" /\ c.op = call[p].op /\ c.keys = missing
        /\ c.gone = call[p].gone /\ c.data = K!Over(source, missing, K!Nothing)
    BY <1>1, <2>1 DEF KVCalls
  <2>3. c.keys \subseteq K!Has(source) => c.keys \subseteq K!Has(c.data)
    BY <2>1, <2>2 DEF K!Has, K!Over
  <2> HIDE DEF c
  <2>4. Sound(c, source, kind)
    BY <1>1, <2>2, <2>3 DEF Sound, Looks, HasLoaded, Partial
  <2> QED BY <1>1, <1>2, <2>2, <2>4, CallSettles
<1>3. CASE kind # "batch" /\ K!Goto(p, "hgetall")
  BY <1>1, <1>3, GoesElsewhere
<1>4. CASE K!End(p)
  BY <1>1, <1>4, CallEnds
<1> QED BY <1>2, <1>3, <1>4 DEF K!Miss, K!Loads

(* LoadAll, Refresh and RefreshAndSwap. *)
LEMMA LoadKeepsSound ==
  ASSUME KVInv, NEW p \in Procs, K!HGetAll(p) \/ K!Load(p) \/ K!Replace(p) \/ K!Wipe(p)
  PROVE  KVInv'
<1>1. /\ UNCHANGED <<kind, source, version>> /\ redis' \in Maps
      /\ source \in Maps /\ redis \in Maps /\ call[p] \in KVCalls
      /\ Sound(call[p], source, kind)
  BY DEF K!HGetAll, K!Load, K!Replace, K!Wipe, KVInv, KVTyped, KVCalls
<1>2. CASE K!HGetAll(p)
  <2> DEFINE c == [call[p] EXCEPT !.data = redis, !.todo = K!Has(redis), !.pc = "wipe"]
  <2>1. CASE /\ kind # "ids" /\ redis # K!Nothing
             /\ call' = [call EXCEPT ![p].data = redis, ![p].todo = K!Has(redis),
                                     ![p].pc = "wipe"]
    <3>1. kind # "batch"
      BY <1>1, <1>2 DEF K!HGetAll, K!At, Sound
    <3>2. K!Has(redis) \in SUBSET Keys
      BY <1>1, MapFacts
    <3>3. /\ c \in KVCalls /\ c.pc = "wipe" /\ c.op = call[p].op /\ c.keys = call[p].keys
          /\ c.gone = call[p].gone /\ c.data = redis
      BY <1>1, <3>2 DEF KVCalls
    <3>4. call' = [call EXCEPT ![p] = c]
      BY <2>1 DEF KVInv, KVTyped
    <3>5. kind = "names"
      BY <2>1, <3>1 DEF KVInv, KVTyped
    <3> HIDE DEF c
    <3>6. K!Has(c.data) # {}
      <4>1. PICK k \in Keys : redis[k] # 0
        BY <1>1, <2>1, MapFacts DEF Maps, K!Nothing, K!None
      <4> QED BY <3>3, <4>1 DEF K!Has, K!None
    <3>7. Sound(c, source, kind)
      BY <1>1, <3>3, <3>5, <3>6 DEF Sound, Looks, HasLoaded, Partial
    <3> QED BY <1>1, <3>3, <3>4, <3>7, CallGoesOn
  <2>2. CASE K!Goto(p, "load")
    BY <1>1, <2>2, GoesElsewhere
  <2> QED BY <1>2, <2>1, <2>2 DEF K!HGetAll
<1>3. CASE K!Load(p)
  <2>1. CASE K!End(p)
    BY <1>1, <2>1, CallEnds
  <2> DEFINE l == IF K!Op(p, "swap") THEN "replace" ELSE "wipe"
             t == IF K!Op(p, "swap") THEN "publish" ELSE "write"
             c == [call[p] EXCEPT !.data = source, !.todo = K!Has(source), !.pc = l, !.then = t]
  <2>2. CASE call' = [call EXCEPT ![p].data = source, ![p].todo = K!Has(source),
                                  ![p].pc = l, ![p].then = t]
    <3>1. K!Has(source) \in SUBSET Keys
      BY <1>1, MapFacts
    <3>2. /\ c \in KVCalls /\ c.pc = l /\ c.op = call[p].op /\ c.keys = call[p].keys
          /\ c.gone = call[p].gone /\ c.data = source
      BY <1>1, <3>1 DEF KVCalls
    <3>3. call' = [call EXCEPT ![p] = c]
      BY <2>2 DEF KVInv, KVTyped
    <3>4. l \in {"replace", "wipe"} /\ (l = "replace" => call[p].op = "swap")
      BY DEF K!Op
    <3> HIDE DEF c, l
    <3>5. Sound(c, source, kind)
      BY <1>1, <3>2, <3>4 DEF Sound, Looks, HasLoaded, Partial
    <3> QED BY <1>1, <3>2, <3>3, <3>5, CallGoesOn
  <2> QED BY <1>3, <2>1, <2>2 DEF K!Load
<1>4. CASE K!Replace(p)
  <2>1. call[p].op = "swap"
    BY <1>1, <1>4 DEF K!Replace, K!At, Sound
  <2> QED BY <1>1, <1>4, <2>1, GoesElsewhere, CallEnds DEF K!Replace
<1>5. CASE K!Wipe(p)
  <2> DEFINE c == [call[p] EXCEPT !.pc = "store"]
  <2>1. /\ c \in KVCalls /\ c.pc = "store" /\ c.op = call[p].op /\ c.keys = call[p].keys
        /\ c.gone = call[p].gone /\ c.data = call[p].data /\ c.then = call[p].then
    BY <1>1 DEF KVCalls
  <2>2. call[p].pc = "wipe" /\ K!Continue(p, c)
    BY <1>5 DEF K!Wipe, K!At
  <2> HIDE DEF c
  <2>3. Sound(c, source, kind)
    BY <1>1, <2>1, <2>2 DEF Sound, Looks, HasLoaded, Partial
  <2> QED BY <1>1, <2>1, <2>2, <2>3, CallSettles
<1> QED BY <1>2, <1>3, <1>4, <1>5

(* One entry stored or dropped, and what is written to Redis then. *)
LEMMA StoreKeepsSound ==
  ASSUME KVInv, NEW p \in Procs, K!Store(p) \/ K!Drop(p) \/ K!Write(p)
  PROVE  KVInv'
<1>1. /\ UNCHANGED <<kind, source, version>>
      /\ source \in Maps /\ redis \in Maps /\ call[p] \in KVCalls
      /\ Sound(call[p], source, kind)
  BY DEF K!Store, K!Drop, K!Write, KVInv, KVTyped
<1>2. ASSUME NEW k \in call[p].todo, K!Continue(p, [call[p] EXCEPT !.todo = @ \ {k}]),
             call[p].pc \in {"store", "drop"}, redis' = redis
      PROVE  KVInv'
  <2> DEFINE c == [call[p] EXCEPT !.todo = @ \ {k}]
  <2>1. /\ c \in KVCalls /\ c.pc = call[p].pc /\ c.op = call[p].op /\ c.keys = call[p].keys
        /\ c.gone = call[p].gone /\ c.data = call[p].data /\ c.then = call[p].then
    BY <1>1 DEF KVCalls
  <2>2. K!Continue(p, c)
    BY <1>2
  <2> HIDE DEF c
  <2>3. Sound(c, source, kind)
    BY <1>1, <2>1 DEF Sound, Looks, HasLoaded, Partial
  <2> QED BY <1>1, <1>2, <2>1, <2>2, <2>3, CallSettles
<1>3. CASE K!Write(p)
  <2> DEFINE c == [call[p] EXCEPT !.then = "end"]
  <2>1. /\ c \in KVCalls /\ c.pc = call[p].pc /\ c.op = call[p].op /\ c.keys = call[p].keys
        /\ c.gone = call[p].gone /\ c.data = call[p].data
    BY <1>1 DEF KVCalls
  <2>2. call[p].pc = "write" /\ K!Continue(p, c)
    BY <1>3 DEF K!Write, K!At
  <2>3. redis' \in Maps
    BY <1>1, <1>3, MapFacts DEF K!Write, KVCalls
  <2> HIDE DEF c
  <2>5. Sound(c, source, kind)
    BY <1>1, <2>1, <2>2 DEF Sound, Looks, HasLoaded, Partial
  <2> QED BY <1>1, <2>1, <2>2, <2>3, <2>5, CallSettles
<1> QED BY <1>2, <1>3 DEF K!Store, K!Drop, K!At

(* The application: rows that come make no Get look in vain, and rows that go are noted. *)
LEMMA WritesKeepSound ==
  ASSUME Written \subseteq Keys, KVInv, NEW p \in Procs, K!WriteRows(p)
  PROVE  KVInv'
<1>1. PICK ks \in SUBSET Written :
        LET new == [k \in Keys |-> IF k \in ks THEN version' ELSE K!None] IN
          /\ source' = K!Over(new, ks, source)
          /\ call' = [call EXCEPT ![p] = [K!Idle EXCEPT !.pc = "store", !.op = "set",
                        !.keys = ks, !.data = new, !.todo = ks, !.then = "pipe"]]
  BY DEF K!WriteRows
<1> DEFINE new == [k \in Keys |-> IF k \in ks THEN version' ELSE K!None]
           c == [K!Idle EXCEPT !.pc = "store", !.op = "set", !.keys = ks, !.data = new,
                               !.todo = ks, !.then = "pipe"]
<1>2. /\ version' = version + 1 /\ version \in Nat /\ UNCHANGED <<kind, redis>>
      /\ source \in Maps /\ redis \in Maps /\ call \in [Procs -> KVCalls]
  BY DEF K!WriteRows, KVInv, KVTyped
<1>3. new \in Maps
  BY <1>2 DEF Maps, K!None
<1>4. c \in KVCalls /\ c.op = "set" /\ c.pc = "store"
  BY <1>3, MapFacts DEF KVCalls, K!Idle
<1>5. source' = K!Over(new, ks, source) /\ call' = [call EXCEPT ![p] = c]
  BY <1>1
<1>6. source' \in Maps
  BY <1>2, <1>3, <1>5, MapFacts
<1>7. K!Has(source) \subseteq K!Has(source')
  <2>1. ASSUME NEW k \in Keys, source[k] # 0 PROVE source'[k] # 0
    BY <1>2, <1>5, <2>1 DEF K!Over, K!None
  <2> QED BY <2>1 DEF K!Has, K!None
<1> HIDE DEF c, new
<1>8. KVTyped'
  BY <1>2, <1>4, <1>5, <1>6 DEF KVInv, KVTyped
<1>9. ASSUME NEW q \in Procs PROVE Sound(call'[q], source', kind')
  <2>1. CASE q = p
    BY <1>2, <1>4, <1>5, <2>1 DEF Sound, Looks, HasLoaded, Partial
  <2>2. CASE q # p
    <3>1. call'[q] = call[q] /\ Sound(call[q], source, kind)
      BY <1>5, <2>2, <1>2 DEF KVInv
    <3> QED BY <1>2, <1>7, <3>1 DEF Sound, Looks
  <2> QED BY <2>1, <2>2
<1> QED BY <1>8, <1>9 DEF KVInv

LEMMA DeletesKeepSound ==
  ASSUME Written \subseteq Keys, KVInv, NEW p \in Procs, K!DeleteRows(p)
  PROVE  KVInv'
<1>1. PICK ks \in SUBSET Written :
        /\ source' = K!Over(K!Nothing, ks, source)
        /\ call' = [q \in Procs |->
             IF q = p THEN [K!Idle EXCEPT !.pc = "drop", !.op = "delete", !.keys = ks,
                                          !.todo = ks, !.then = "pipe"]
             ELSE IF call[q].keys \cap ks # {} THEN [call[q] EXCEPT !.gone = TRUE]
             ELSE call[q]]
  BY DEF K!DeleteRows
<1> DEFINE c == [K!Idle EXCEPT !.pc = "drop", !.op = "delete", !.keys = ks,
                               !.todo = ks, !.then = "pipe"]
<1>2. /\ version' = version + 1 /\ version \in Nat /\ UNCHANGED <<kind, redis>>
      /\ source \in Maps /\ redis \in Maps /\ call \in [Procs -> KVCalls]
  BY DEF K!DeleteRows, KVInv, KVTyped
<1>3. c \in KVCalls /\ c.op = "delete" /\ c.pc = "drop"
  BY MapFacts DEF KVCalls, K!Idle
<1>4. source' \in Maps
  BY <1>1, <1>2, MapFacts
<1>5. K!Has(source) \ ks \subseteq K!Has(source')
  BY <1>1, <1>2 DEF K!Has, K!None, K!Over
<1>6. /\ call'[p] = c
      /\ \A q \in Procs : q # p /\ call[q].keys \cap ks # {}
                            => call'[q] = [call[q] EXCEPT !.gone = TRUE]
      /\ \A q \in Procs : q # p /\ call[q].keys \cap ks = {} => call'[q] = call[q]
  BY <1>1
<1>7. \A q \in Procs : call'[q] = IF q = p THEN c ELSE call'[q]
  BY <1>6
<1> HIDE DEF c
<1>8. ASSUME NEW q \in Procs
      PROVE  call'[q] \in KVCalls /\ Sound(call'[q], source', kind')
  <2>1. CASE q = p
    BY <1>2, <1>3, <1>6, <2>1 DEF Sound, Looks, HasLoaded, Partial
  <2>2. CASE q # p /\ call[q].keys \cap ks # {}
    <3> DEFINE d == [call[q] EXCEPT !.gone = TRUE]
    <3>1. call'[q] = d /\ call[q] \in KVCalls /\ Sound(call[q], source, kind)
      BY <1>2, <1>6, <2>2 DEF KVInv
    <3>2. d \in KVCalls /\ d.gone /\ d.pc = call[q].pc /\ d.op = call[q].op
      BY <3>1 DEF KVCalls
    <3> HIDE DEF d
    <3> QED BY <1>2, <3>1, <3>2 DEF Sound, Looks, HasLoaded, Partial
  <2>3. CASE q # p /\ call[q].keys \cap ks = {}
    <3>1. call'[q] = call[q] /\ call[q] \in KVCalls /\ Sound(call[q], source, kind)
      BY <1>2, <1>6, <2>3 DEF KVInv
    <3> QED BY <1>2, <1>5, <2>3, <3>1 DEF Sound, Looks
  <2> QED BY <2>1, <2>2, <2>3
<1>9. call' \in [Procs -> KVCalls]
  BY <1>1, <1>8
<1> QED BY <1>2, <1>4, <1>8, <1>9 DEF KVInv, KVTyped

LEMMA OthersKeepSound ==
  ASSUME KVInv, NEW p \in Procs,
         \/ K!ClearCall(p) \/ K!RefreshCall(p, "refresh") \/ K!RefreshCall(p, "swap")
         \/ K!Pipe(p) \/ K!PublishClear(p) \/ K!NotFound(p)
  PROVE  KVInv'
<1>1. redis \in Maps /\ source \in Maps /\ call[p] \in KVCalls
  BY DEF KVInv, KVTyped
<1>2. ASSUME NEW c \in KVCalls, c.pc \in {"pipe", "load"}, c.op # "get",
             UNCHANGED <<kind, source, redis, version>>, call' = [call EXCEPT ![p] = c]
      PROVE  KVInv'
  <2>1. Sound(c, source, kind)
    BY <1>2 DEF Sound, Looks, HasLoaded, Partial
  <2> QED BY <1>1, <1>2, <2>1, CallGoesOn
<1>3. CASE K!ClearCall(p)
  <2> DEFINE c == [K!Idle EXCEPT !.pc = "pipe", !.op = "clear", !.keys = Keys]
  <2>1. c \in KVCalls /\ c.pc = "pipe" /\ c.op = "clear"
    BY MapFacts DEF KVCalls, K!Idle
  <2>2. call' = [call EXCEPT ![p] = c] /\ UNCHANGED <<kind, source, redis, version>>
    BY <1>3 DEF K!ClearCall
  <2> HIDE DEF c
  <2> QED BY <1>2, <2>1, <2>2
<1>4. ASSUME NEW o \in {"refresh", "swap"}, K!RefreshCall(p, o) PROVE KVInv'
  <2> DEFINE c == [K!Idle EXCEPT !.pc = "load", !.op = o]
  <2>1. c \in KVCalls /\ c.pc = "load" /\ c.op = o
    BY MapFacts DEF KVCalls, K!Idle
  <2>2. call' = [call EXCEPT ![p] = c] /\ UNCHANGED <<kind, source, redis, version>>
    BY <1>4 DEF K!RefreshCall
  <2> HIDE DEF c
  <2> QED BY <1>2, <2>1, <2>2
<1>5. CASE K!Pipe(p)
  <2>1. redis' \in Maps
    BY <1>1, <1>5, MapFacts DEF K!Pipe, KVCalls
  <2> QED BY <1>5, <2>1, CallEnds DEF K!Pipe
<1>6. CASE K!PublishClear(p) \/ K!NotFound(p)
  BY <1>1, <1>6, CallEnds DEF K!PublishClear, K!NotFound
<1> QED BY <1>3, <1>4, <1>5, <1>6

LEMMA KVStep ==
  ASSUME Written \subseteq Keys, KVInv, [K!Next]_(K!vars)
  PROVE  KVInv'
<1>1. ASSUME NEW p \in Procs, K!Begin(p) PROVE KVInv'
  BY <1>1, GetKeepsSound, WritesKeepSound, DeletesKeepSound, OthersKeepSound DEF K!Begin
<1>2. ASSUME NEW p \in Procs, K!Step(p) PROVE KVInv'
  BY <1>2, HMGetKeepsSound, MissKeepsSound, LoadKeepsSound, StoreKeepsSound, OthersKeepSound
  DEF K!Step
<1>3. ASSUME UNCHANGED <<kind, source, version, call>>, redis' \in Maps PROVE KVInv'
  BY <1>3 DEF KVInv, KVTyped
<1>4. ASSUME NEW n \in Nodes, K!Receive(n) PROVE KVInv'
  BY <1>3, <1>4 DEF K!Receive, KVInv, KVTyped
<1>5. CASE K!Expire
  BY <1>3, <1>5, MapFacts DEF K!Expire
<1>6. CASE UNCHANGED K!vars
  BY <1>3, <1>6 DEF K!vars, KVInv, KVTyped
<1> QED BY <1>1, <1>2, <1>4, <1>5, <1>6 DEF K!Next

(* Get of kv_cache.go answers "not found" only for a key whose row has been missing at some
   time during the call or, where K is string and there is a KVLoader, for one that was
   missing from a hash that had others when LoadAll took it for the whole table. *)
THEOREM RowsAreFound ==
  ASSUME Written \subseteq Keys, Kinds \subseteq {"names", "ids", "batch"}
  PROVE  Spec => []GetFindsRow
<1>1. Init => KVInv
  <2> SUFFICES ASSUME K!Init PROVE KVInv
    BY DEF Init
  <2>1. KVTyped
    BY MapFacts, KVIdle DEF K!Init, KVTyped, Maps
  <2> QED BY <2>1, KVIdle DEF K!Init, KVInv, KVTyped
<1>2. KVInv /\ [Next]_vars => KVInv'
  BY Steps, KVStep
<1>3. KVInv => GetFindsRow
  BY DEF KVInv, Sound, Partial, GetFindsRow, K!GetFindsRow, K!At
<1> QED BY <1>1, <1>2, <1>3, PTL DEF Spec

-----------------------------------------------------------------------------
(* HotKeyCache as several instances and as one alone: HotKeyProofs is about either, under
   names of its own for what HotKey defines. *)
HP == INSTANCE HotKeyProofs WITH Keys <- FewKeys, Values <- Rows,
        source <- hsource, redis <- hredis, agent <- hagent, faults <- hfaults
EP == INSTANCE HotKeyProofs WITH Nodes <- Alone, Called <- Alone, Keys <- ManyKeys,
        Values <- Rows, MaxFaults <- NoFaults,
        source <- esource, redis <- eredis, localCache <- elocal, accessOrder <- eorder,
        stopped <- estopped, agent <- eagent, changes <- echanges, faults <- efaults

LEMMA SameHotKey ==
  /\ H!Init => HP!Init
  /\ [H!Next]_(H!vars) => [HP!Next]_(HP!vars)
  /\ HP!KeysEvictable => H!KeysEvictable
  BY DEF H!Init, HP!Init, H!Next, HP!Next, H!vars, HP!vars, H!KeysEvictable, HP!KeysEvictable,
    H!ChangeSource, HP!ChangeSource, H!Expire, HP!Expire, H!Agents, HP!Agents, H!Step, HP!Step,
    H!BeginRefresh, HP!BeginRefresh, H!Cleanup, HP!Cleanup, H!Stop, HP!Stop,
    H!BeginLoadAll, HP!BeginLoadAll, H!CallSetAll, HP!CallSetAll, H!Clear, HP!Clear,
    H!Delete, HP!Delete, H!Set, HP!Set, H!GetRedis, HP!GetRedis, H!Load, HP!Load,
    H!Put, HP!Put, H!Store, HP!Store, H!RefreshSetAll, HP!RefreshSetAll, H!Save, HP!Save,
    H!SetEx, HP!SetEx, H!Del, HP!Del, H!Change, HP!Change, H!Fault, HP!Fault, H!At, HP!At,
    H!Goto, HP!Goto, H!Take, HP!Take, H!End, HP!End, H!Idle, HP!Idle, H!Empty, HP!Empty,
    H!Maps, HP!Maps, H!KeysOf, HP!KeysOf, H!Replace, HP!Replace, H!local, HP!local,
    H!FirstThere, HP!FirstThere, H!SetToSeqs, HP!SetToSeqs, H!Cardinality, HP!Cardinality

LEMMA SameEvicting ==
  /\ E!Init => EP!Init
  /\ [E!Next]_(E!vars) => [EP!Next]_(EP!vars)
  /\ EP!KeysEvictable => E!KeysEvictable
  BY DEF E!Init, EP!Init, E!Next, EP!Next, E!vars, EP!vars, E!KeysEvictable, EP!KeysEvictable,
    E!ChangeSource, EP!ChangeSource, E!Expire, EP!Expire, E!Agents, EP!Agents, E!Step, EP!Step,
    E!BeginRefresh, EP!BeginRefresh, E!Cleanup, EP!Cleanup, E!Stop, EP!Stop,
    E!BeginLoadAll, EP!BeginLoadAll, E!CallSetAll, EP!CallSetAll, E!Clear, EP!Clear,
    E!Delete, EP!Delete, E!Set, EP!Set, E!GetRedis, EP!GetRedis, E!Load, EP!Load,
    E!Put, EP!Put, E!Store, EP!Store, E!RefreshSetAll, EP!RefreshSetAll, E!Save, EP!Save,
    E!SetEx, EP!SetEx, E!Del, EP!Del, E!Change, EP!Change, E!Fault, EP!Fault, E!At, EP!At,
    E!Goto, EP!Goto, E!Take, EP!Take, E!End, EP!End, E!Idle, EP!Idle, E!Empty, EP!Empty,
    E!Maps, EP!Maps, E!KeysOf, EP!KeysOf, E!Replace, EP!Replace, E!local, EP!local,
    E!FirstThere, EP!FirstThere, E!SetToSeqs, EP!SetToSeqs, E!Cardinality, EP!Cardinality

(* Every key of a local map of a HotKeyCache has a place in accessOrder: cleanupExpired of
   hotkey.go can reach it. *)
THEOREM KeysCanBeEvicted ==
  ASSUME HP!IsFiniteSet(FewKeys), EP!IsFiniteSet(ManyKeys), Called \subseteq Nodes
  PROVE  Spec => []KeysEvictable
<1> DEFINE Inv == HP!Typed /\ HP!Places /\ EP!Typed /\ EP!Places
<1>1. Init => Inv
  BY SameHotKey, SameEvicting, HP!PlacesInit, EP!PlacesInit DEF Init
<1>2. Inv /\ [Next]_vars => Inv'
  BY Steps, SameHotKey, SameEvicting, HP!PlacesStep, EP!PlacesStep
<1>3. Inv => KeysEvictable
  BY SameHotKey, SameEvicting, HP!PlacesSuffice, EP!PlacesSuffice DEF KeysEvictable
<1> QED BY <1>1, <1>2, <1>3, PTL DEF Spec

-----------------------------------------------------------------------------
(* When no write is under way and the last one ran alone, no level and no copy has what was
   there before it (twolevel.go, generic_cache.go); and what is cached is reached by the
   next DeleteByIndex (cache_index.go), but for a key whose registration was lost, or deleted
   while a call or the goroutine it left behind was still to write the key (wrapper.go). *)
THEOREM NoOldCopyIsServed ==
  ASSUME ManyKeys # {}
  PROVE  Spec => []QuietLevelsAgree
<1> DEFINE Inv == TwoLevelInv /\ GenericInv /\ IndexInv
<1>1. Init => Inv
  <2> SUFFICES ASSUME Init PROVE Inv
    OBVIOUS
  <2>1. IndexInv
    BY DEF Init, I!Init, IndexInv, IndexCallsTyped, FlightIsIndexed, I!CachedIsIndexed,
           I!Idle, I!NoWrite, I!At, I!Pending
  <2>2. GenericTyped
    BY NoneIsEntry DEF Init, G!Init, GenericTyped, G!Idle
  <2>3. Undisturbed
    BY NoneIsEntry DEF Init, G!Init, Undisturbed, WriterAlone, ToldInPeace, LoadedFresh, OldIsDoomed,
                       Writer, G!At, G!Idle
  <2>4. TwoLevelTyped /\ Placed
    BY DEF Init, T!Init, TwoLevelTyped, Placed, TwoLevelCalls, Levels, T!Idle, T!None, T!At, T!NoLate
  <2>5. Peaceful
    BY DEF Init, T!Init, Peaceful, WritesAlone, LateSetAlone, WillWriteTruth, L1Agrees, L2Agrees,
           T!Idle, T!None, T!At, T!Op, T!NoLate, T!Writes
  <2> QED BY <2>1, <2>2, <2>3, <2>4, <2>5 DEF GenericInv, TwoLevelInv
<1>2. Inv /\ [Next]_vars => Inv'
  BY Steps, IndexInvStep, GenericTypedStep, UndisturbedStep, TwoLevelTypedStep, PeacefulStep
  DEF GenericInv, TwoLevelInv
<1>3. Inv => QuietLevelsAgree
  <2> SUFFICES ASSUME Inv PROVE T!QuietLevelsAgree /\ G!QuietCopiesFresh /\ I!CachedIsIndexed
    BY DEF QuietLevelsAgree
  <2>1. I!CachedIsIndexed
    BY DEF IndexInv
  <2>2. G!QuietCopiesFresh
    <3> SUFFICES ASSUME G!Quiet, ~graced, NEW n \in Nodes PROVE G!Served(n) \in {0, grow}
      BY DEF G!QuietCopiesFresh
    <3>1. \A a \in G!Agents : gcall[a].at = "idle"
      BY DEF G!Quiet, G!Idle
    <3>2. gm[n].val \in {0, grow}
      BY <3>1 DEF GenericInv, Undisturbed, OldIsDoomed, G!Quiet, G!At
    <3> QED BY <3>2 DEF G!Served
  <2>3. T!QuietLevelsAgree
    <3> SUFFICES ASSUME ~raced, late = T!NoLate, \A p \in Callers : tcall[p] = T!Idle
                 PROVE  {tl1, tl2} \subseteq {T!None, truth}
      BY DEF T!QuietLevelsAgree
    <3>1. \A p \in Callers : tcall[p].op = "idle"
      BY DEF T!Idle
    <3>2. \A v \in Values : ~(late[<<2, v>>] > 0)
      BY DEF T!NoLate
    <3> QED
      BY <3>1, <3>2 DEF TwoLevelInv, Peaceful, L1Agrees, L2Agrees, T!Op
  <2> QED BY <2>1, <2>2, <2>3
<1> QED BY <1>1, <1>2, <1>3, PTL DEF Spec
=============================================================================
