-------------------------- MODULE DeadLetterQueue --------------------------
(***************************************************************************)
(* dead_letter_queue.go: deadLetterQueueImpl over a FIFO list of           *)
(* QueueHandler.  Push appends, looks at the length and takes from the     *)
(* left end what is too much, each in a command of its own.                *)
(***************************************************************************)
EXTENDS Naturals, FiniteSets, Sequences, SequencesExt

CONSTANTS
  Pushers,
  MaxSize,
  MaxLetters,   \* bound: letters pushed
  MaxErrors     \* bound: commands that fail

VARIABLES
  letters,   \* the list; letters are numbered as they come
  push,      \* [Pushers -> where Push is, and how many letters it has still to take]
  pushed,    \* how many letters have come
  errors

vars == <<letters, push, pushed, errors>>

Idle == [at |-> "idle", left |-> 0]

Init ==
  /\ letters = <<>> /\ push = [p \in Pushers |-> Idle]
  /\ pushed = 0 /\ errors = 0

At(p, l) == push[p].at = l
End(p) == push' = [push EXCEPT ![p] = Idle]
Error == errors < MaxErrors /\ errors' = errors + 1

Enqueue(p) ==
  /\ At(p, "idle") /\ pushed < MaxLetters
  /\ \/ /\ letters' = Append(letters, pushed + 1) /\ pushed' = pushed + 1
        /\ push' = [push EXCEPT ![p].at = "length"]
        /\ UNCHANGED errors
     \/ Error /\ UNCHANGED <<letters, push, pushed>>

(* LLEN.  (checkAndAlert, which follows, changes nothing.) *)
TooManyButOne(n) == IF n > MaxSize THEN n - MaxSize - 1 ELSE 0   \* mutated

TooMany(n) == IF n > MaxSize THEN n - MaxSize ELSE 0
Length(p) ==
  /\ At(p, "length")
  /\ \/ LET n == Len(letters) IN
          /\ push' = [push EXCEPT ![p] = IF TooMany(n) = 0 THEN Idle
                                         ELSE [at |-> "take", left |-> TooMany(n)]]
          /\ UNCHANGED errors
     \/ Error /\ End(p)
  /\ UNCHANGED <<letters, pushed>>

(* One Dequeue: BLPOP waits for a letter for five seconds; its error is ignored. *)
Take(p) ==
  /\ At(p, "take")
  /\ push' = [push EXCEPT ![p] = IF push[p].left = 1 THEN Idle
                                 ELSE [at |-> "take", left |-> push[p].left - 1]]
  /\ \/ letters # <<>> /\ letters' = Tail(letters) /\ UNCHANGED errors
     \/ letters = <<>> /\ UNCHANGED <<letters, errors>>
     \/ Error /\ UNCHANGED letters
  /\ UNCHANGED pushed

(* Remove, in one script, or Clear: the operator has handled some letters, or throws
   all away. *)
RemoveSome ==
  /\ \E n \in 1..Len(letters) : letters' = SubSeq(letters, n + 1, Len(letters))
  /\ UNCHANGED <<push, pushed, errors>>

Next == \/ \E p \in Pushers : Enqueue(p) \/ Length(p) \/ Take(p)
        \/ RemoveSome
Spec == Init /\ [][Next]_vars

-----------------------------------------------------------------------------
(* When no Push is under way the queue is not longer than it may be, but for the
   commands that have failed. *)
TrimsToMax == (\A p \in Pushers : At(p, "idle")) => Len(letters) <= MaxSize + errors

=============================================================================
