----------------------------- MODULE CacheIndex -----------------------------
(***************************************************************************)
(* cache_index.go: CacheIndexManager and CacheWrapperWithIndex.  A key is  *)
(* written to an index set before the wrapped function looks for it, loads *)
(* it and caches it, once more 100 ms later in a goroutine; a script       *)
(* deletes what an index lists and the index.                              *)
(***************************************************************************)
EXTENDS Naturals

CONSTANTS
  Callers,
  Keys,         \* cached keys, all of one index
  MaxFaults     \* bound: commands Redis does not answer

VARIABLES
  index,     \* the index set
  cached,    \* keys that are cached
  call,      \* [Callers -> where the call of the wrapped function is, and its key]
  late,      \* [Callers -> the write its last call has left to a goroutine, and whether
             \* that is the second one; at most one of a caller at a time]
  missed,    \* history: keys whose place in the index was lost before they were cached
  faults

vars == <<index, cached, call, late, missed, faults>>

Idle == [at |-> "idle", key |-> CHOOSE k \in Keys : TRUE]
NoWrite == [at |-> "idle", key |-> CHOOSE k \in Keys : TRUE, again |-> FALSE]
Init ==
  /\ index = {} /\ cached = {} /\ missed = {}
  /\ call = [c \in Callers |-> Idle] /\ late = [c \in Callers |-> NoWrite] /\ faults = 0

At(c, l) == call[c].at = l
Goto(c, l) == call' = [call EXCEPT ![c].at = l]
End(c) == call' = [call EXCEPT ![c] = Idle]
Pending(c) == late[c].at = "set"
LeaveWrite(c, k, again) == late' = [late EXCEPT ![c] = [at |-> "set", key |-> k, again |-> again]]
InFlight == {call[c].key : c \in {c \in Callers : ~At(c, "idle")}}
              \cup {late[c].key : c \in {c \in Callers : Pending(c)}}

(* SAdd's error is not looked at. *)
Register(c, k) ==
  /\ At(c, "idle") /\ ~Pending(c)
  /\ call' = [call EXCEPT ![c] = [at |-> "get", key |-> k]]
  /\ \/ index' = index \cup {k} /\ missed' = missed \ {k} /\ UNCHANGED faults
     \/ /\ faults < MaxFaults /\ faults' = faults + 1
        /\ missed' = missed \cup ({k} \ index)
        /\ UNCHANGED index
  /\ UNCHANGED <<cached, late>>

(* The wrapped function: a hit ends it, but not with ForceRefresh, and so does an error. *)
Get(c) ==
  /\ At(c, "get")
  /\ \/ call[c].key \in cached /\ End(c) /\ UNCHANGED faults
     \/ Goto(c, "load") /\ UNCHANGED faults
     \/ faults < MaxFaults /\ faults' = faults + 1 /\ End(c)
  /\ UNCHANGED <<index, cached, late, missed>>

(* What has been loaded is cached at once or, with UseAsync, in a goroutine; a load that
   fails ends the call. *)
Load(c) ==
  /\ At(c, "load")
  /\ \/ (Goto(c, "set") \/ End(c)) /\ UNCHANGED late
     \/ End(c) /\ LeaveWrite(c, call[c].key, FALSE)
  /\ UNCHANGED <<index, cached, missed, faults>>

(* updateCache: DEL and SET, of which either may fail.  When SET has not, a goroutine does
   both once more. *)
Write(k) == cached' = cached \cup {k} /\ UNCHANGED faults
WriteFails(k) ==
  /\ faults < MaxFaults /\ faults' = faults + 1
  /\ cached' \in {cached, cached \ {k}}

Set(c) ==
  /\ At(c, "set")
  /\ \/ Write(call[c].key) /\ LeaveWrite(c, call[c].key, TRUE)
     \/ WriteFails(call[c].key) /\ UNCHANGED late
  /\ End(c)
  /\ UNCHANGED <<index, missed>>

SetLate(c) ==
  /\ Pending(c)
  /\ \/ /\ Write(late[c].key)
        /\ IF late[c].again THEN late' = [late EXCEPT ![c] = NoWrite]
                            ELSE LeaveWrite(c, late[c].key, TRUE)
     \/ WriteFails(late[c].key) /\ late' = [late EXCEPT ![c] = NoWrite]
  /\ UNCHANGED <<index, call, missed>>

(* The script: everything the index lists goes, and so does the index. *)
Script ==
  /\ cached' = cached \ index
  /\ index' = {}

DeleteByIndex ==
  /\ index # {}
  /\ Script
  /\ missed' = missed \cup (index \cap InFlight)
  /\ UNCHANGED <<call, late, faults>>

DeleteByKeys(ks) ==
  /\ cached \cap ks # {}
  /\ cached' = cached \ ks
  /\ UNCHANGED <<index, call, late, missed, faults>>

(* The TTL of a cached key; its name stays in the index, which has no TTL. *)
Expire(k) ==
  /\ k \in cached
  /\ cached' = cached \ {k}
  /\ UNCHANGED <<index, call, late, missed, faults>>

Next ==
  \/ \E c \in Callers :
       (\E k \in Keys : Register(c, k)) \/ Get(c) \/ Load(c) \/ Set(c) \/ SetLate(c)
  \/ DeleteByIndex
  \/ \E ks \in SUBSET Keys : DeleteByKeys(ks)
  \/ \E k \in Keys : Expire(k)

Spec == Init /\ [][Next]_vars

-----------------------------------------------------------------------------
(* The next DeleteByIndex reaches whatever is cached, except a key whose registration was
   lost, or was deleted while a call of the function or the goroutine such a call left
   behind was still to write the key; the next call of the function makes up for that. *)
CachedIsIndexed == cached \subseteq index \cup missed
=============================================================================
