----------------------------- MODULE GenericTTL -----------------------------
(***************************************************************************)
(* generic_cache.go: GenericTTLCache with PubSub, one key on several       *)
(* nodes.  There is no second level: a reader that misses goes to the      *)
(* source and stores what it found; a writer changes the source and then   *)
(* deletes its copy, or stores the new one, and tells the other nodes.     *)
(***************************************************************************)
EXTENDS Naturals

CONSTANTS
  Nodes,
  Callers,      \* goroutines of a node
  MaxVersion,   \* bound: versions of the row
  MaxFaults     \* bound: messages that are lost

VARIABLES
  row,       \* the version at the source
  m,         \* [Nodes -> the entry: a version, or None, and whether its time is over]
  inbox,     \* nodes that have an invalidation to handle
  call,      \* [Nodes \X Callers -> where the call is, and the version it holds]
  raced,     \* history: since the last write that ran alone, one has not, or was not told
  faults

vars == <<row, m, inbox, call, raced, faults>>

None == [val |-> 0, old |-> FALSE]
Idle == [at |-> "idle", val |-> 0]
Agents == Nodes \X Callers

Init ==
  /\ row = 1 /\ m = [n \in Nodes |-> None] /\ inbox = {}
  /\ call = [a \in Agents |-> Idle] /\ raced = FALSE /\ faults = 0

At(a, l) == call[a].at = l
Goto(a, l) == call' = [call EXCEPT ![a].at = l]
End(a) == call' = [call EXCEPT ![a] = Idle]
Delete(n) == m' = [m EXCEPT ![n] = None]
Quiet == inbox = {} /\ \A a \in Agents : call[a] = Idle
Writing == inbox # {} \/ \E a \in Agents : call[a].at \in {"change", "publish"}

(* Load: a live entry is the answer; one whose time is over is deleted in a step of its
   own, whatever is there by then. *)
Load(a) ==
  /\ call[a] = Idle
  /\ \/ m[a[1]].val = 0 /\ Goto(a, "source")
     \/ m[a[1]].old /\ Goto(a, "lazy")
  /\ raced' = (raced \/ Writing)
  /\ UNCHANGED <<row, m, inbox, faults>>

LazyDelete(a) ==
  /\ At(a, "lazy")
  /\ Delete(a[1])
  /\ Goto(a, "source")
  /\ UNCHANGED <<row, inbox, raced, faults>>

Source(a) ==
  /\ At(a, "source")
  /\ call' = [call EXCEPT ![a] = [at |-> "store", val |-> row]]
  /\ UNCHANGED <<row, m, inbox, raced, faults>>

Store(a) ==
  /\ At(a, "store")
  /\ m' = [m EXCEPT ![a[1]] = [val |-> call[a].val, old |-> FALSE]]
  /\ End(a)
  /\ UNCHANGED <<row, inbox, raced, faults>>

(* The application writes the row, and after it calls Delete or Clear, or Store and
   Invalidate. *)
Write(a) ==
  /\ call[a] = Idle /\ row < MaxVersion
  /\ row' = row + 1
  /\ raced' = ~Quiet
  /\ Goto(a, "change")
  /\ UNCHANGED <<m, inbox, faults>>

Change(a) ==
  /\ At(a, "change")
  /\ \/ Delete(a[1])
     \/ m' = [m EXCEPT ![a[1]] = [val |-> row, old |-> FALSE]]
  /\ Goto(a, "publish")
  /\ UNCHANGED <<row, inbox, raced, faults>>

(* publishInvalidation only warns when it fails, and so does a subscription that is not
   there. *)
Publish(a) ==
  /\ At(a, "publish")
  /\ \/ inbox' = inbox \cup (Nodes \ {a[1]}) /\ UNCHANGED <<raced, faults>>
     \/ faults < MaxFaults /\ faults' = faults + 1 /\ raced' = TRUE /\ UNCHANGED inbox
  /\ End(a)
  /\ UNCHANGED <<row, m>>

(* The handler of the subscription, which does not pass the message on. *)
Receive(n) ==
  /\ n \in inbox
  /\ inbox' = inbox \ {n}
  /\ Delete(n)
  /\ UNCHANGED <<row, call, raced, faults>>

DeleteLocal(n) ==
  /\ m[n] # None
  /\ Delete(n)
  /\ UNCHANGED <<row, inbox, call, raced, faults>>

Lapse(n) ==
  /\ m[n] # None /\ ~m[n].old
  /\ m' = [m EXCEPT ![n].old = TRUE]
  /\ UNCHANGED <<row, inbox, call, raced, faults>>

Step(a) == LazyDelete(a) \/ Source(a) \/ Store(a) \/ Change(a) \/ Publish(a)
Next ==
  \/ \E a \in Agents : Load(a) \/ Write(a) \/ Step(a)
  \/ \E n \in Nodes : Receive(n) \/ DeleteLocal(n) \/ Lapse(n)

(* TTLs run out; a call may stop anywhere, and a message may never come. *)
Spec == Init /\ [][Next]_vars /\ \A n \in Nodes : WF_vars(Lapse(n))

-----------------------------------------------------------------------------
Served(n) == IF m[n].old THEN 0 ELSE m[n].val

(* When nothing is under way and the last write ran alone and was told to all, no node
   serves what was there before it. *)
QuietCopiesFresh == Quiet /\ ~raced => \A n \in Nodes : Served(n) \in {0, row}

(* A reader may store an old version after the message that should have removed it, and
   a message may be lost; the TTL sets both right. *)
StaleExpires == \A n \in Nodes : <>[](Served(n) \in {0, row})
=============================================================================
