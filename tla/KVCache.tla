------------------------------ MODULE KVCache ------------------------------
(***************************************************************************)
(* kv_cache.go: KVCache, one dictionary on several nodes.                  *)
(*                                                                         *)
(* Every node keeps a local map in front of one Redis hash in front of a   *)
(* table of the application.  Values are versions of rows; encoding and    *)
(* decoding give back what went in.  The application changes its table     *)
(* and then calls Set or Delete.  A process is a goroutine inside one      *)
(* call: a caller, or the autoRefresh goroutine of a node.                 *)
(***************************************************************************)
EXTENDS Naturals, FiniteSets

CONSTANTS
  Nodes, Keys,
  Procs,        \* goroutines
  HomeOf,       \* [Procs -> Nodes]
  May,          \* [Kinds -> [Procs -> sets of the operations a process calls]]
  Kinds,        \* caches: "names" (K is string, with a KVLoader), "ids" (K is no string:
                \* invalidations name no key of it), "batch" (string, with a BatchLoader)
  Written,      \* bound: keys whose rows change
  MaxVersion,   \* bound: versions of the rows
  MaxFaults     \* bound: commands, loads and messages that fail

VARIABLES
  kind,     \* which of Kinds the cache is
  source,   \* [Keys -> version of the row, or None]
  redis,    \* [Keys -> version in the hash, or None]
  local,    \* [Nodes -> [Keys -> version in the local map, or None]]
  inbox,    \* [Nodes -> invalidation messages delivered and not handled]
  call,     \* [Procs -> where the call is, which it is, the keys it is about, the
            \* values it holds, the keys still to store or delete locally, what
            \* comes then, and whether a row it looks for has been absent (history)]
  version,  \* the newest version of any row
  faults    \* failures so far

vars == <<kind, source, redis, local, inbox, call, version, faults>>

None == 0
Nothing == [k \in Keys |-> None]
Has(map) == {k \in Keys : map[k] # None}
Over(new, ks, old) == [k \in Keys |-> IF k \in ks THEN new[k] ELSE old[k]]
Idle == [pc |-> "idle", op |-> "get", keys |-> {}, data |-> Nothing, todo |-> {},
         then |-> "end", gone |-> FALSE]
Init ==
  /\ kind \in Kinds
  /\ source = [k \in Keys |-> 1]
  /\ redis = Nothing
  /\ local = [n \in Nodes |-> Nothing]
  /\ inbox = [n \in Nodes |-> {}]
  /\ call = [p \in Procs |-> Idle]
  /\ version = 1 /\ faults = 0

At(p, l) == call[p].pc = l
Op(p, o) == call[p].op = o
Home(p) == HomeOf[p]
Goto(p, l) == call' = [call EXCEPT ![p].pc = l]
End(p) == call' = [call EXCEPT ![p] = Idle]
Fault == faults < MaxFaults /\ faults' = faults + 1
Enter(p, o) == At(p, "idle") /\ o \in May[kind][p]

(* A Get that looks into the local map again when all is loaded (mutated). *)
FoundLocally(p, c) == c.keys \subseteq Has(local[Home(p)])

(* What a Get answers comes from the values it holds. *)
Found(p, c) == c.keys \subseteq Has(c.data)

(* Where a call goes that has nothing left to store or delete. *)
Settle(p, c) ==
  CASE c.todo # {} -> c
    [] c.todo = {} /\ c.then # "end" -> [c EXCEPT !.pc = c.then, !.then = "end"]
    [] c.todo = {} /\ c.then = "end" ->
         IF c.op = "get" /\ ~Found(p, c) THEN [c EXCEPT !.pc = "notfound"] ELSE Idle
Continue(p, c) == call' = [call EXCEPT ![p] = Settle(p, c)]

(* PUBLISH: every node but the sender that is subscribed gets the message. *)
Publish(p, op, ks) ==
  inbox' = [n \in Nodes |-> IF n = Home(p) THEN inbox[n]
                            ELSE inbox[n] \cup {[op |-> op, keys |-> ks]}]

-----------------------------------------------------------------------------
(* Get and GetMany: what the local map has is returned at once. *)
GetCall(p, o) ==
  /\ Enter(p, o)
  /\ \E ks \in SUBSET Keys \ {{}} :
       /\ o = "get" => Cardinality(ks) = 1
       /\ LET missed == ks \ Has(local[Home(p)]) IN
            /\ missed # {}
            /\ call' = [call EXCEPT ![p] =
                 [Idle EXCEPT !.pc = "hmget", !.op = o, !.keys = missed,
                              !.gone = \E k \in missed : source[k] = None]]
  /\ UNCHANGED <<kind, source, redis, local, inbox, version, faults>>

(* HGET, HMGET: hits go to the local map one at a time, then come the misses.  When
   the command fails, GetMany without a BatchLoader loads everything. *)
HMGet(p) ==
  /\ At(p, "hmget")
  /\ \/ LET hits == call[p].keys \cap Has(redis) IN
          /\ Continue(p, [call[p] EXCEPT
               !.data = Over(redis, hits, @), !.todo = hits, !.pc = "store",
               !.then = IF hits = call[p].keys THEN "end" ELSE "miss"])
          /\ UNCHANGED faults
     \/ Fault /\ Goto(p, IF Op(p, "getmany") /\ kind # "batch" THEN "hgetall" ELSE "miss")
  /\ UNCHANGED <<kind, source, redis, local, inbox, version>>

(* A loader's answer, to be stored from l on: the rows as they are, or an error. *)
Loads(p, ks, l, then) ==
  \/ /\ Continue(p, [call[p] EXCEPT !.keys = ks, !.data = Over(source, ks, Nothing),
                                    !.todo = ks \cap Has(source), !.pc = l, !.then = then])
     /\ UNCHANGED faults
  \/ Fault /\ End(p)

(* Missed in both: a BatchLoader is asked for the missing keys, and what it finds goes
   to the local map and to Redis; without one Get loads everything, and GetMany
   returns what it has. *)
Miss(p) ==
  /\ At(p, "miss")
  /\ LET missing == call[p].keys \ Has(call[p].data) IN
     \/ /\ kind = "batch"
        /\ Loads(p, missing, "store", IF missing \cap Has(source) = {} THEN "end" ELSE "write")
     \/ /\ kind # "batch"
        /\ IF Op(p, "get") THEN Goto(p, "hgetall") ELSE End(p)
        /\ UNCHANGED faults
  /\ UNCHANGED <<kind, source, redis, local, inbox, version>>

(* LoadAll: all of the hash, if K is string and there is any; else the table, and the
   table too when HGETALL fails. *)
HGetAll(p) ==
  /\ At(p, "hgetall")
  /\ LET restores == kind # "ids" /\ redis # Nothing IN
     \/ /\ restores
        /\ call' = [call EXCEPT ![p].data = redis, ![p].todo = Has(redis), ![p].pc = "wipe"]
        /\ UNCHANGED faults
     \/ ~restores /\ Goto(p, "load") /\ UNCHANGED faults
     \/ restores /\ Fault /\ Goto(p, "load")
  /\ UNCHANGED <<kind, source, redis, local, inbox, version>>

(* loadFromSource and RefreshAndSwap begin with the loader.  (keys stays what it was
   for a Get, whose answer is looked up in all that was loaded.) *)
Load(p) ==
  /\ At(p, "load")
  /\ \/ /\ call' = [call EXCEPT ![p].data = source, ![p].todo = Has(source),
                                ![p].pc = IF Op(p, "swap") THEN "replace" ELSE "wipe",
                                ![p].then = IF Op(p, "swap") THEN "publish" ELSE "write"]
        /\ UNCHANGED faults
     \/ Fault /\ End(p)
  /\ UNCHANGED <<kind, source, redis, local, inbox, version>>

(* replaceRedis: the hash becomes what was loaded, in one script. *)
Replace(p) ==
  /\ At(p, "replace")
  /\ \/ redis' = call[p].data /\ Goto(p, "wipe") /\ UNCHANGED faults
     \/ Fault /\ End(p) /\ UNCHANGED redis
  /\ UNCHANGED <<kind, source, local, inbox, version>>

(* localCache.Clear; then the entries one by one. *)
Wipe(p) ==
  /\ At(p, "wipe")
  /\ local' = [local EXCEPT ![Home(p)] = Nothing]
  /\ Continue(p, [call[p] EXCEPT !.pc = "store"])
  /\ UNCHANGED <<kind, source, redis, inbox, version, faults>>

Store(p) ==
  /\ At(p, "store")
  /\ \E k \in call[p].todo :
       /\ local' = [local EXCEPT ![Home(p)][k] = call[p].data[k]]
       /\ Continue(p, [call[p] EXCEPT !.todo = @ \ {k}])
  /\ UNCHANGED <<kind, source, redis, inbox, version, faults>>

(* writeManyToRedis: nobody is told, and its error is ignored. *)
Write(p) ==
  /\ At(p, "write")
  /\ \/ redis' = Over(call[p].data, Has(call[p].data), redis) /\ UNCHANGED faults
     \/ Fault /\ UNCHANGED redis
  /\ Continue(p, [call[p] EXCEPT !.then = "end"])
  /\ UNCHANGED <<kind, source, local, inbox, version>>

(* The application writes rows and calls Set or SetMany, or deletes them and calls
   Delete or DeleteMany.  A row that goes is noted in the calls that look for it. *)
WriteRows(p) ==
  /\ Enter(p, "set") /\ version < MaxVersion
  /\ version' = version + 1
  /\ \E ks \in SUBSET Written \ {{}} :
       LET new == [k \in Keys |-> IF k \in ks THEN version' ELSE None] IN
       /\ source' = Over(new, ks, source)
       /\ call' = [call EXCEPT ![p] = [Idle EXCEPT !.pc = "store", !.op = "set", !.keys = ks,
                                       !.data = new, !.todo = ks, !.then = "pipe"]]
  /\ UNCHANGED <<kind, redis, local, inbox, faults>>

DeleteRows(p) ==
  /\ Enter(p, "delete") /\ version < MaxVersion
  /\ version' = version + 1
  /\ \E ks \in SUBSET Written \ {{}} :
       /\ source' = Over(Nothing, ks, source)
       /\ call' = [q \in Procs |->
            IF q = p THEN [Idle EXCEPT !.pc = "drop", !.op = "delete", !.keys = ks,
                                       !.todo = ks, !.then = "pipe"]
            ELSE IF call[q].keys \cap ks # {} THEN [call[q] EXCEPT !.gone = TRUE]
            ELSE call[q]]
  /\ UNCHANGED <<kind, redis, local, inbox, faults>>

Drop(p) ==
  /\ At(p, "drop")
  /\ \E k \in call[p].todo :
       /\ local' = [local EXCEPT ![Home(p)][k] = None]
       /\ Continue(p, [call[p] EXCEPT !.todo = @ \ {k}])
  /\ UNCHANGED <<kind, source, redis, inbox, version, faults>>

ClearCall(p) ==
  /\ Enter(p, "clear")
  /\ local' = [local EXCEPT ![Home(p)] = Nothing]
  /\ call' = [call EXCEPT ![p] = [Idle EXCEPT !.pc = "pipe", !.op = "clear", !.keys = Keys]]
  /\ UNCHANGED <<kind, source, redis, inbox, version, faults>>

(* The pipeline: HSET, HDEL or DEL, and PUBLISH; the connection may break before it
   or in the middle. *)
Pipe(p) ==
  /\ At(p, "pipe")
  /\ LET op == IF Op(p, "clear") THEN "clear" ELSE "invalidate"
         ks == IF Op(p, "clear") THEN {} ELSE call[p].keys
         written == Over(call[p].data, call[p].keys, redis) IN
     \/ redis' = written /\ Publish(p, op, ks) /\ UNCHANGED faults
     \/ Fault /\ redis' \in {redis, written} /\ UNCHANGED inbox
  /\ End(p)
  /\ UNCHANGED <<kind, source, local, version>>

(* Refresh and autoRefresh; RefreshAndSwap.  Neither without a KVLoader. *)
RefreshCall(p, o) ==
  /\ Enter(p, o) /\ kind # "batch"
  /\ call' = [call EXCEPT ![p] = [Idle EXCEPT !.pc = "load", !.op = o]]
  /\ UNCHANGED <<kind, source, redis, local, inbox, version, faults>>

(* The end of RefreshAndSwap: the other nodes are told to clear. *)
PublishClear(p) ==
  /\ At(p, "publish")
  /\ \/ Publish(p, "clear", {}) /\ UNCHANGED faults
     \/ Fault /\ UNCHANGED inbox
  /\ End(p)
  /\ UNCHANGED <<kind, source, redis, local, version>>

NotFound(p) ==
  /\ At(p, "notfound")
  /\ End(p)
  /\ UNCHANGED <<kind, source, redis, local, inbox, version, faults>>

(* The subscription's handler, or a message that a broken connection loses. *)
Receive(n) ==
  \E m \in inbox[n] :
    /\ inbox' = [inbox EXCEPT ![n] = @ \ {m}]
    /\ \/ /\ local' = [local EXCEPT ![n] =
                         IF m.op = "clear" THEN Nothing
                         ELSE IF kind # "ids" THEN Over(Nothing, m.keys, @) ELSE @]
          /\ UNCHANGED faults
       \/ Fault /\ UNCHANGED local
    /\ UNCHANGED <<kind, source, redis, call, version>>

(* The TTL of the hash. *)
Expire ==
  /\ redis # Nothing
  /\ redis' = Nothing
  /\ UNCHANGED <<kind, source, local, inbox, call, version, faults>>

-----------------------------------------------------------------------------
Step(p) == HMGet(p) \/ Miss(p) \/ HGetAll(p) \/ Load(p) \/ Replace(p) \/ Wipe(p) \/ Store(p)
             \/ Write(p) \/ Drop(p) \/ Pipe(p) \/ PublishClear(p) \/ NotFound(p)
Begin(p) ==
  \/ GetCall(p, "get") \/ GetCall(p, "getmany") \/ WriteRows(p) \/ DeleteRows(p)
  \/ ClearCall(p) \/ RefreshCall(p, "refresh") \/ RefreshCall(p, "swap")
Next ==
  \/ \E p \in Procs : Begin(p) \/ Step(p)
  \/ \E n \in Nodes : Receive(n)
  \/ Expire

Refreshers == {p \in Procs : \E k \in Kinds : "refresh" \in May[k][p]}

(* The ticker of autoRefresh goes on for ever, and its goroutine runs; a call may stop
   anywhere, and a message may never come. *)
Spec ==
  /\ Init /\ [][Next]_vars
  /\ \A p \in Refreshers : WF_vars(Step(p)) /\ WF_vars(RefreshCall(p, "refresh"))

-----------------------------------------------------------------------------
(* Get answers "not found" only for a key whose row was missing at some time during the
   call; with a K that is string and a KVLoader also for one that was missing from a
   hash that had others, for LoadAll takes such a hash for the whole table. *)
GetFindsRow ==
  \A p \in Procs :
    At(p, "notfound") => call[p].gone \/ (kind = "names" /\ Has(call[p].data) # {})

Refreshed == {HomeOf[p] : p \in Refreshers}

(* Refresh sets right what races, lost invalidations, failed writes and stale writes of
   Redis have spoilt: once the rows have ceased to change, no running node keeps an
   outdated copy of a row for ever. *)
RefreshHeals ==
  \A n \in Refreshed, k \in Keys :
    <>[](kind # "batch" /\ source[k] # None
           => local[n][k] \in {None, source[k]})
=============================================================================
