---------------------------- MODULE IDGenerator ----------------------------
(***************************************************************************)
(* id_generator.go: sequence numbers per time prefix, kept in Redis.       *)
(*                                                                         *)
(* Generators in several processes share the keys.  A prefix is the number *)
(* of the window of Window ticks it was formatted in; an id is a prefix    *)
(* with a sequence number (what formatID puts around the two is the same   *)
(* for all of them, and a longer number only makes a longer id).  A call   *)
(* reads the clock first and reaches Redis up to Lag ticks later.          *)
(***************************************************************************)
EXTENDS Integers, FiniteSets

CONSTANTS
  Procs,       \* concurrent callers
  SeqStart,    \* g.seqStart, or what OnSequenceInit returns
  BatchSizes,  \* arguments of GenerateIDs
  Window,      \* ticks a time prefix lasts (an hour with the default format)
  Expire,      \* g.expire, in ticks
  Lag,         \* ticks between reading the clock and the script running
  ResetsAlone, \* ResetSequence is not called while another call is under way
  Horizon,     \* bound: the last tick
  MaxIds       \* bound: ids generated

VARIABLES
  now,       \* the clock
  seq,       \* [Prefixes -> value of its key, or Absent]
  ttl,       \* [Prefixes -> ticks until the key expires, or Persistent]
  call,      \* [Procs -> the call under way: kind, prefix, ticks since it began]
  issued,    \* ids handed out
  repeated   \* ids handed out again

vars == <<now, seq, ttl, call, issued, repeated>>

Absent == -1
Persistent == -1
Prefixes == 0..(Horizon \div Window)
NoCall == [kind |-> "none", prefix |-> 0, age |-> 0]

TypeOK ==
  /\ now \in 0..Horizon
  /\ seq \in [Prefixes -> Nat \cup {Absent}]
  /\ ttl \in [Prefixes -> 0..Expire \cup {Persistent}]
  /\ call \in [Procs -> [kind : {"none", "generate", "reset", "set"}, prefix : Prefixes,
                         age : 0..Lag]]
  /\ issued \subseteq Prefixes \X Nat /\ repeated \subseteq issued

Init ==
  /\ now = 0
  /\ seq = [w \in Prefixes |-> Absent]
  /\ ttl = [w \in Prefixes |-> 0]
  /\ call = [p \in Procs |-> NoCall]
  /\ issued = {} /\ repeated = {}

-----------------------------------------------------------------------------
(* Initialisation to the start itself. *)
FirstFromStart == IF SeqStart > 1 THEN SeqStart ELSE 0

(* What a missing key counts as: start-1 is stored when start > 1. *)
First == IF SeqStart > 1 THEN SeqStart - 1 ELSE 0

Base(w) == IF seq[w] = Absent THEN First ELSE seq[w]

(* The TTL a script leaves on a key it creates: SET ... EX, else the EXPIRE that
   GenerateID's script has and GenerateIDs' has not. *)
NewKeyTTL(batch) == IF SeqStart > 1 \/ ~batch THEN Expire ELSE Persistent

(* The Lua scripts: create the key if need be, add n, return the last n values. *)
IncrScript(w, n, batch) ==
  LET ids == {<<w, i>> : i \in Base(w) + 1 .. Base(w) + n} IN
  /\ seq' = [seq EXCEPT ![w] = Base(w) + n]
  /\ ttl' = [ttl EXCEPT ![w] = IF seq[w] = Absent THEN NewKeyTTL(batch) ELSE @]
  /\ issued' = issued \cup ids
  /\ repeated' = repeated \cup (issued \cap ids)

(* Callers that keep ResetsAlone begin a reset when nobody else is at work, and
   nothing else until it is over. *)
MayBegin(p, kind) ==
  ResetsAlone => \A q \in Procs \ {p} :
                   /\ call[q].kind \notin {"reset", "set"}
                   /\ kind = "reset" => call[q].kind = "none"

(* A call begins: the clock is read. *)
Begin(p) ==
  /\ call[p].kind = "none"
  /\ \E kind \in {"generate", "reset"} :
       /\ MayBegin(p, kind)
       /\ call' = [call EXCEPT ![p] = [kind |-> kind, prefix |-> now \div Window, age |-> 0]]
  /\ UNCHANGED <<now, seq, ttl, issued, repeated>>

Finish(p) == call' = [call EXCEPT ![p] = NoCall]

GenerateID(p) ==
  /\ call[p].kind = "generate"
  /\ Cardinality(issued) < MaxIds
  /\ IncrScript(call[p].prefix, 1, FALSE)
  /\ Finish(p)
  /\ UNCHANGED now

GenerateIDs(p) ==
  /\ call[p].kind = "generate"
  /\ \E n \in BatchSizes :
       /\ Cardinality(issued) + n <= MaxIds
       /\ IncrScript(call[p].prefix, n, TRUE)
  /\ Finish(p)
  /\ UNCHANGED now

(* A reset that does not look whether the key exists. *)
ResetAlways(p) ==
  /\ call[p].kind = "reset"
  /\ call' = [call EXCEPT ![p].kind = "set"]
  /\ UNCHANGED <<now, seq, ttl, issued, repeated>>

(* ResetSequence: EXISTS, and when the key is missing and start > 1 a SET. *)
ResetExists(p) ==
  /\ call[p].kind = "reset"
  /\ IF seq[call[p].prefix] = Absent /\ SeqStart > 1
     THEN call' = [call EXCEPT ![p].kind = "set"]
     ELSE Finish(p)
  /\ UNCHANGED <<now, seq, ttl, issued, repeated>>

ResetSet(p) ==
  /\ call[p].kind = "set"
  /\ seq' = [seq EXCEPT ![call[p].prefix] = First]
  /\ ttl' = [ttl EXCEPT ![call[p].prefix] = Expire]
  /\ Finish(p)
  /\ UNCHANGED <<now, issued, repeated>>

(* The clock advances; keys expire. *)
Tick ==
  /\ now < Horizon
  /\ \A p \in Procs : call[p].kind # "none" => call[p].age < Lag
  /\ now' = now + 1
  /\ call' = [p \in Procs |-> IF call[p].kind = "none" THEN call[p]
                              ELSE [call[p] EXCEPT !.age = @ + 1]]
  /\ ttl' = [w \in Prefixes |-> IF ttl[w] > 0 THEN ttl[w] - 1 ELSE ttl[w]]
  /\ seq' = [w \in Prefixes |-> IF ttl[w] = 1 THEN Absent ELSE seq[w]]
  /\ UNCHANGED <<issued, repeated>>

Next ==
  \/ \E p \in Procs : Begin(p) \/ GenerateID(p) \/ GenerateIDs(p)
                        \/ ResetExists(p) \/ ResetSet(p)
  \/ Tick

Spec == Init /\ [][Next]_vars

-----------------------------------------------------------------------------
(* No id is handed out twice, by any process, in one call or in a batch, across
   windows, the expiry of old keys and resets.  It takes ResetsAlone, and Window +
   Lag < Expire: a key must outlive the last call that uses its prefix, for EXPIRE
   is not renewed. *)
UniqueIds == repeated = {}

(* The numbers of a window start at the configured start and have no gaps, however
   single and batch calls interleave. *)
DenseSequence ==
  \A w \in Prefixes :
    LET ns == {id[2] : id \in {x \in issued : x[1] = w}}
        start == IF SeqStart > 1 THEN SeqStart ELSE 1 IN
    ns = start .. start + Cardinality(ns) - 1
=============================================================================
