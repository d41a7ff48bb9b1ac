---------------------------- MODULE QueuesProofs ----------------------------
(* Proofs about what is kept in Redis lists, sets and counters, for any users, items,
   sizes and numbers of faults. *)
EXTENDS Queues, Sequences, FiniteSetTheorems, TLAPS

(* A step is one of the component that runs, and leaves the others alone. *)
LEMMA Steps ==
  ASSUME [Next]_vars
  PROVE  [Q!Next]_(Q!vars) /\ [L!Next]_(L!vars) /\ [D!Next]_(D!vars) /\ [G!Next]_(G!vars)
  BY DEF Next, QueueStep, LettersStep, Channel, IdsStep, vars, qvars, lvars, dvars, gvars,
         Q!vars, L!vars, D!vars, G!vars

(* The instances count as this module does. *)
LEMMA SameCardinalities ==
  ASSUME NEW S
  PROVE  /\ D!Cardinality(S) = Cardinality(S) /\ G!Cardinality(S) = Cardinality(S)
  BY DEF D!Cardinality, G!Cardinality, Cardinality

-----------------------------------------------------------------------------
(* DeadLetterQueue: the trimming of Push. *)

LettersTyped ==
  /\ MaxSize \in Nat
  /\ letters \in Seq(Nat) /\ pushed \in Nat /\ errors \in Nat
  /\ push \in [Pushers -> [at : {"idle", "length", "take"}, left : Nat]]
  /\ \A p \in Pushers : push[p].at = "take" => push[p].left > 0

(* What a Push will still take, if nothing fails: one letter for the one it has added, until
   it has looked at the length. *)
Owes(p) ==
  IF push[p].at = "length" THEN 1 ELSE IF push[p].at = "take" THEN push[p].left ELSE 0
Owed == {x \in Pushers \X Nat : 1 <= x[2] /\ x[2] <= Owes(x[1])}

(* Every letter too many is owed by a Push under way, or by a command that has failed. *)
LettersInv ==
  LettersTyped /\ IsFiniteSet(Owed) /\ Len(letters) <= MaxSize + errors + Cardinality(Owed)

(* A letter less to take off pays for a letter less, for an error more, or is all there was. *)
LEMMA OneLess ==
  ASSUME NEW len \in Nat, NEW size \in Nat, NEW errs \in Nat, NEW owed \in Nat,
         NEW len1 \in Nat, NEW errs1 \in Nat, NEW owed1 \in Nat,
         len <= size + errs + owed, owed1 = owed - 1, len1 <= len, errs1 >= errs,
         len1 + 1 <= len \/ errs1 = errs + 1 \/ len1 = 0
  PROVE  len1 <= size + errs1 + owed1
  OBVIOUS

(* What one Push owes changes, and what the others owe does not. *)
LEMMA OwedChanges ==
  ASSUME LettersTyped, LettersTyped', NEW p \in Pushers,
         \A q \in Pushers \ {p} : push'[q] = push[q]
  PROVE  /\ Owes(p) = 0 /\ Owes(p)' = 1 => Owed' = Owed \cup {<<p, 1>>} /\ <<p, 1>> \notin Owed
         /\ Owes(p) # 0 /\ Owes(p)' = Owes(p) - 1
              => Owed' = Owed \ {<<p, Owes(p)>>} /\ <<p, Owes(p)>> \in Owed
         /\ Owes(p) = 1 => Owed' = (Owed \ {<<p, 1>>}) \cup ({p} \X (1..Owes(p)'))
<1>1. \A q \in Pushers : Owes(q) \in Nat /\ Owes(q)' \in Nat
  BY DEF LettersTyped, Owes
<1>2. \A q \in Pushers \ {p} : Owes(q)' = Owes(q)
  BY DEF Owes
<1>3. CASE Owes(p) = 0 /\ Owes(p)' = 1
  BY <1>1, <1>2, <1>3 DEF Owed
<1>4. CASE Owes(p) # 0 /\ Owes(p)' = Owes(p) - 1
  BY <1>1, <1>2, <1>4 DEF Owed
<1>5. CASE Owes(p) = 1
  BY <1>1, <1>2, <1>5 DEF Owed
<1> QED
  BY <1>3, <1>4, <1>5


LEMMA LettersTypedStep ==
  ASSUME LettersTyped, [L!Next]_(L!vars)
  PROVE  LettersTyped'
<1> DEFINE PushType == [at : {"idle", "length", "take"}, left : Nat]
<1>1. ASSUME NEW p \in Pushers, NEW c \in PushType, c.at = "take" => c.left > 0,
             push' = [push EXCEPT ![p] = c]
      PROVE  /\ push' \in [Pushers -> PushType]
             /\ \A q \in Pushers : push'[q].at = "take" => push'[q].left > 0
  BY <1>1 DEF LettersTyped
<1>2. L!Idle \in PushType /\ L!Idle.at # "take"
  BY DEF L!Idle
<1>3. ASSUME NEW p \in Pushers, L!Enqueue(p) PROVE LettersTyped'
  <2>1. push' \in [Pushers -> PushType]
    BY <1>3 DEF L!Enqueue, LettersTyped
  <2>2. ASSUME NEW q \in Pushers, push'[q].at = "take" PROVE push'[q].left > 0
    <3>1. push' = push \/ push' = [push EXCEPT ![p].at = "length"]
      BY <1>3 DEF L!Enqueue
    <3>2. push'[q] = push[q]
      BY <2>2, <3>1 DEF LettersTyped
    <3> QED BY <2>2, <3>2 DEF LettersTyped
  <2>3. letters' \in Seq(Nat) /\ pushed' \in Nat /\ errors' \in Nat
    <3>1. \/ letters' = Append(letters, pushed + 1) /\ pushed' = pushed + 1 /\ errors' = errors
          \/ letters' = letters /\ pushed' = pushed /\ errors' = errors + 1
      BY <1>3 DEF L!Enqueue, L!Error
    <3>2. pushed + 1 \in Nat /\ errors + 1 \in Nat /\ letters \in Seq(Nat)
      BY DEF LettersTyped
    <3>3. Append(letters, pushed + 1) \in Seq(Nat)
      BY <3>2
    <3>4. letters' \in Seq(Nat)
      BY <3>1, <3>2, <3>3
    <3> QED BY <3>1, <3>2, <3>4 DEF LettersTyped
  <2> QED BY <2>1, <2>2, <2>3 DEF LettersTyped
<1>4. ASSUME NEW p \in Pushers, L!Length(p) PROVE LettersTyped'
  <2> DEFINE n == L!TooMany(Len(letters))
             c == IF n = 0 THEN L!Idle ELSE [at |-> "take", left |-> n]
  <2>1. n \in Nat
    BY DEF L!TooMany, LettersTyped
  <2>2. c \in PushType /\ (c.at = "take" => c.left > 0)
    BY <1>2, <2>1
  <2>3. push' = [push EXCEPT ![p] = c] \/ push' = [push EXCEPT ![p] = L!Idle]
    BY <1>4 DEF L!Length, L!End
  <2>4. letters' = letters /\ pushed' = pushed /\ errors' \in Nat
    BY <1>4 DEF L!Length, L!Error, LettersTyped
  <2> HIDE DEF c
  <2> QED BY <1>1, <1>2, <2>2, <2>3, <2>4 DEF LettersTyped
<1>5. ASSUME NEW p \in Pushers, L!Take(p) PROVE LettersTyped'
  <2> DEFINE n == push[p].left
             c == IF n = 1 THEN L!Idle ELSE [at |-> "take", left |-> n - 1]
  <2>1. n \in Nat \ {0}
    BY <1>5 DEF L!Take, L!At, LettersTyped
  <2>2. c \in PushType /\ (c.at = "take" => c.left > 0)
    BY <1>2, <2>1
  <2>3. push' = [push EXCEPT ![p] = c]
    BY <1>5 DEF L!Take, L!At, L!Idle, L!Error
  <2>4. letters' \in Seq(Nat) /\ pushed' = pushed /\ errors' \in Nat
    <3>1. /\ \/ letters' = Tail(letters) /\ letters # <<>> /\ errors' = errors
             \/ letters' = letters /\ (errors' = errors \/ errors' = errors + 1)
          /\ pushed' = pushed
      BY <1>5 DEF L!Take, L!Error
    <3>2. letters # <<>> => Tail(letters) \in Seq(Nat)
      BY DEF LettersTyped
    <3>3. letters' \in Seq(Nat)
      BY <3>1, <3>2 DEF LettersTyped
    <3> QED BY <3>1, <3>3 DEF LettersTyped
  <2> HIDE DEF c
  <2> QED BY <1>1, <2>2, <2>3, <2>4 DEF LettersTyped
<1>6. CASE L!RemoveSome
  BY <1>6 DEF L!RemoveSome, LettersTyped
<1>7. CASE UNCHANGED L!vars
  BY <1>7 DEF L!vars, LettersTyped
<1> QED
  BY <1>3, <1>4, <1>5, <1>6, <1>7 DEF L!Next

(* A Push that adds a letter owes one; what it reads of the length it owes at once, whatever
   the others do. *)
LEMMA OwedStep ==
  ASSUME LettersInv, [L!Next]_(L!vars)
  PROVE  LettersInv'
<1> DEFINE Card == Cardinality(Owed)
<1>0. /\ LettersTyped /\ LettersTyped' /\ IsFiniteSet(Owed)
      /\ Cardinality(Owed) \in Nat /\ Len(letters) \in Nat /\ Len(letters') \in Nat
      /\ Len(letters) <= MaxSize + errors + Cardinality(Owed)
  BY LettersTypedStep, FS_CardinalityType DEF LettersInv, LettersTyped
<1> SUFFICES /\ IsFiniteSet(Owed')
             /\ Len(letters') <= MaxSize + errors' + Cardinality(Owed')
  BY <1>0 DEF LettersInv
<1>1. ASSUME NEW p \in Pushers, L!Enqueue(p), errors' = errors
      PROVE  /\ IsFiniteSet(Owed')
             /\ Len(letters') <= MaxSize + errors' + Cardinality(Owed')
  <2>1. push' = [push EXCEPT ![p].at = "length"] /\ L!At(p, "idle")
        /\ letters' = Append(letters, pushed + 1)
    <3>1. errors \in Nat
      BY <1>0 DEF LettersTyped
    <3>2. ~L!Error
      BY ONLY <1>1, <3>1 DEF L!Error
    <3> QED BY <1>1, <3>2 DEF L!Enqueue
  <2>2. Owes(p) = 0 /\ Owes(p)' = 1 /\ \A q \in Pushers \ {p} : push'[q] = push[q]
    BY <1>0, <2>1 DEF Owes, L!At, LettersTyped
  <2>3. Owed' = Owed \cup {<<p, 1>>} /\ <<p, 1>> \notin Owed
    BY <1>0, <2>2, OwedChanges
  <2>4. Cardinality(Owed') = Cardinality(Owed) + 1 /\ IsFiniteSet(Owed')
    BY <1>0, <2>3, FS_AddElement
  <2>5. Len(letters') = Len(letters) + 1
    BY <1>0, <2>1 DEF LettersTyped
  <2> QED
    BY <1>0, <1>1, <2>4, <2>5 DEF LettersTyped
<1>2. ASSUME NEW p \in Pushers, L!Enqueue(p), errors' # errors
      PROVE  /\ IsFiniteSet(Owed')
             /\ Len(letters') <= MaxSize + errors' + Cardinality(Owed')
  <2>1. push' = push /\ letters' = letters /\ errors' = errors + 1
    BY <1>2 DEF L!Enqueue, L!Error
  <2>2. Owed' = Owed
    BY <2>1 DEF Owed, Owes
  <2> QED BY <1>0, <2>1, <2>2 DEF LettersTyped
<1>3. ASSUME NEW p \in Pushers, L!Length(p), errors' = errors
      PROVE  /\ IsFiniteSet(Owed')
             /\ Len(letters') <= MaxSize + errors' + Cardinality(Owed')
  <2> DEFINE n == L!TooMany(Len(letters))
             mine == {p} \X (1..n)
  <2>1. n \in Nat /\ Len(letters) <= MaxSize + n
    BY <1>0 DEF L!TooMany, LettersTyped
  <2>2. push' = [push EXCEPT ![p] = IF n = 0 THEN L!Idle ELSE [at |-> "take", left |-> n]]
        /\ letters' = letters
    BY <1>0, <1>3 DEF L!Length, L!Error, LettersTyped
  <2>3. Owes(p) = 1 /\ Owes(p)' = n /\ \A q \in Pushers \ {p} : push'[q] = push[q]
    BY <1>0, <1>3, <2>1, <2>2 DEF Owes, L!Length, L!At, L!Idle, LettersTyped
  <2>4. Owed' = (Owed \ {<<p, 1>>}) \cup mine
    BY <1>0, <2>3, OwedChanges
  <2>5. IsFiniteSet(1..n) /\ Cardinality(1..n) = n
    BY <2>1, FS_Interval
  <2>6. IsFiniteSet({p}) /\ Cardinality({p}) = 1
    BY FS_Singleton
  <2>7. IsFiniteSet(mine) /\ Cardinality(mine) = n
    <3>1. IsFiniteSet(mine) /\ Cardinality(mine) = Cardinality({p}) * Cardinality(1..n)
      BY <2>5, <2>6, FS_Product
    <3> QED BY <2>1, <2>5, <2>6, <3>1
  <2>8. IsFiniteSet(Owed \ {<<p, 1>>})
    BY <1>0, FS_RemoveElement
  <2>9. IsFiniteSet(Owed') /\ mine \in SUBSET Owed'
    BY <2>4, <2>7, <2>8, FS_Union
  <2>10. Cardinality(Owed') \in Nat /\ n <= Cardinality(Owed')
    BY <2>7, <2>9, FS_Subset, FS_CardinalityType
  <2> QED
    BY <1>0, <1>3, <2>1, <2>2, <2>9, <2>10 DEF LettersTyped
<1>4. ASSUME NEW p \in Pushers, Owes(p) # 0, Owes(p)' = Owes(p) - 1,
             \A q \in Pushers \ {p} : push'[q] = push[q],
             Len(letters') <= Len(letters) /\ errors' >= errors,
             Len(letters') + 1 <= Len(letters) \/ errors' = errors + 1 \/ Len(letters') = 0
      PROVE  /\ IsFiniteSet(Owed')
             /\ Len(letters') <= MaxSize + errors' + Cardinality(Owed')
  <2>1. Owed' = Owed \ {<<p, Owes(p)>>} /\ <<p, Owes(p)>> \in Owed
    BY <1>0, <1>4, OwedChanges
  <2>2. Cardinality(Owed') = Cardinality(Owed) - 1 /\ IsFiniteSet(Owed')
    BY <1>0, <2>1, FS_RemoveElement
  <2>3. Cardinality(Owed') \in Nat
    BY <2>2, FS_CardinalityType
  <2>4. errors \in Nat /\ errors' \in Nat /\ MaxSize \in Nat
    BY <1>0 DEF LettersTyped
  <2>6. Len(letters) \in Nat /\ Len(letters') \in Nat /\ Cardinality(Owed) \in Nat
    BY <1>0, FS_CardinalityType DEF LettersTyped
  <2>7. Len(letters) <= MaxSize + errors + Cardinality(Owed)
    BY <1>0
  <2>5. Len(letters') <= MaxSize + errors' + Cardinality(Owed')
    BY <1>4, <2>2, <2>3, <2>4, <2>6, <2>7, OneLess
  <2> QED
    BY <2>2, <2>5
<1>5. ASSUME NEW p \in Pushers, L!Length(p), errors' # errors
      PROVE  /\ IsFiniteSet(Owed')
             /\ Len(letters') <= MaxSize + errors' + Cardinality(Owed')
  <2>1. push' = [push EXCEPT ![p] = L!Idle] /\ errors' = errors + 1 /\ letters' = letters
    BY <1>0, <1>5 DEF L!Length, L!Error, L!End, LettersTyped
  <2>2. Owes(p) = 1 /\ Owes(p)' = 0 /\ \A q \in Pushers \ {p} : push'[q] = push[q]
    BY <1>0, <1>5, <2>1 DEF Owes, L!Length, L!At, L!Idle, LettersTyped
  <2> QED
    BY <1>0, <1>4, <2>1, <2>2 DEF LettersTyped
<1>6. ASSUME NEW p \in Pushers, L!Take(p)
      PROVE  /\ IsFiniteSet(Owed')
             /\ Len(letters') <= MaxSize + errors' + Cardinality(Owed')
  <2>1. Owes(p) # 0 /\ Owes(p)' = Owes(p) - 1 /\ \A q \in Pushers \ {p} : push'[q] = push[q]
    BY <1>0, <1>6 DEF Owes, L!Take, L!At, L!Idle, LettersTyped
  <2>2. \/ letters # <<>> /\ letters' = Tail(letters) /\ errors' = errors
        \/ letters' = letters /\ letters = <<>> /\ errors' = errors
        \/ letters' = letters /\ errors' = errors + 1
    BY <1>6 DEF L!Take, L!Error
  <2>3. /\ Len(letters') <= Len(letters) /\ errors' >= errors
        /\ Len(letters') + 1 <= Len(letters) \/ errors' = errors + 1 \/ Len(letters') = 0
    BY <1>0, <2>2 DEF LettersTyped
  <2> QED
    BY <1>4, <2>1, <2>3
<1>7. CASE L!RemoveSome
  <2>1. Owed' = Owed /\ errors' = errors
    BY <1>7 DEF L!RemoveSome, Owed, Owes
  <2>2. Len(letters') <= Len(letters)
    BY <1>0, <1>7 DEF L!RemoveSome, LettersTyped
  <2> QED BY <1>0, <2>1, <2>2 DEF LettersTyped
<1>8. CASE UNCHANGED L!vars
  BY <1>0, <1>8 DEF L!vars, Owed, Owes
<1> QED
  BY <1>1, <1>2, <1>3, <1>5, <1>6, <1>7, <1>8 DEF L!Next

(* When every Push is done the queue is as short as it may be, but for one letter for each
   command that has failed (Push in dead_letter_queue.go). *)
THEOREM PushesTrim ==
  ASSUME MaxSize \in Nat
  PROVE  Spec => []TrimsToMax
<1>1. Init => LettersInv
  <2> SUFFICES ASSUME L!Init PROVE LettersInv
    BY DEF Init
  <2>1. LettersTyped
    BY DEF L!Init, LettersTyped, L!Idle
  <2>2. Owed = {}
    BY DEF L!Init, L!Idle, Owed, Owes
  <2> QED
    BY <2>1, <2>2, FS_EmptySet DEF LettersInv, LettersTyped, L!Init
<1>2. LettersInv /\ [Next]_vars => LettersInv'
  BY Steps, OwedStep
<1>3. LettersInv => TrimsToMax
  <2> SUFFICES ASSUME LettersInv, \A p \in Pushers : push[p].at = "idle"
               PROVE  Len(letters) <= MaxSize + errors
    BY DEF TrimsToMax, L!TrimsToMax, L!At
  <2>1. Owed = {}
    BY DEF Owed, Owes
  <2> QED BY <2>1, FS_EmptySet DEF LettersInv, LettersTyped
<1> QED BY <1>1, <1>2, <1>3, PTL DEF Spec

-----------------------------------------------------------------------------
(* DurableChannel: Close. *)
(* The workers and the Send calls are what they are functions of. *)
Shaped ==
  /\ mover = [w \in Movers |-> mover[w]]
  /\ send = [m \in Messages |-> send[m]]

(* Close sets dc.closed before it waits for anybody, and nobody comes back later: *)
ClosingIsClosed == closer # "none" => dclosed
(* a worker that dc.wg has seen leave stays away, *)
WorkersGone ==
  closer \in {"pool", "channel", "closed"} => \A w \in Movers : mover[w].pc = "stopped"
(* and once dc.mu was taken a Send that takes it sees closed. *)
SendersGone == closer = "closed" => \A m \in Messages : send[m] # "blocked"
ClosedLast == memClosed => closer = "closed"

CloseInv == Shaped /\ ClosingIsClosed /\ WorkersGone /\ SendersGone /\ ClosedLast

-----------------------------------------------------------------------------
(* No step of a Send, a pool job or the application ends what Close has established; the
   send that may block looks at closed under dc.mu. *)
LEMMA SendersKeepClosed ==
  ASSUME CloseInv, NEW m \in Messages, D!SendStep(m) \/ D!SendCancelled(m) \/ D!PoolPersist(m)
  PROVE  CloseInv'
<1> USE DEF CloseInv, Shaped, ClosingIsClosed, WorkersGone, SendersGone, ClosedLast, D!chanVars,
            D!OnSend, D!SendGoto
<1>1. CASE D!SendBegin(m)
  BY <1>1 DEF D!SendBegin
<1>2. CASE D!SendPersist(m)
  BY <1>2 DEF D!SendPersist
<1>3. CASE D!SendHybrid(m)
  BY <1>3 DEF D!SendHybrid
<1>4. CASE D!SendEnter(m)
  <2>1. closer = "closed" => send' = [send EXCEPT ![m] = "error"]
    BY <1>4 DEF D!SendEnter
  <2> QED BY <1>4, <2>1 DEF D!SendEnter
<1>5. CASE D!SendAsync(m)
  BY <1>5 DEF D!SendAsync
<1>6. CASE D!SendSubmit(m)
  BY <1>6 DEF D!SendSubmit
<1>7. CASE D!SendCancelled(m)
  BY <1>7 DEF D!SendCancelled
<1>8. CASE D!PoolPersist(m)
  BY <1>8 DEF D!PoolPersist
<1> HIDE DEF CloseInv, Shaped, ClosingIsClosed, WorkersGone, SendersGone, ClosedLast, D!chanVars,
             D!OnSend, D!SendGoto
<1> QED
  BY <1>1, <1>2, <1>3, <1>4, <1>5, <1>6, <1>7, <1>8 DEF D!SendStep

(* A worker that has stopped takes no further step. *)
LEMMA WorkersKeepClosed ==
  ASSUME CloseInv, NEW w \in Movers, D!WorkerStep(w) \/ D!WorkerPullLost(w)
  PROVE  CloseInv'
<1> USE DEF CloseInv, Shaped, ClosingIsClosed, WorkersGone, SendersGone, ClosedLast, D!chanVars
<1>1. CASE D!WorkerPull(w)
  BY <1>1 DEF D!WorkerPull
<1>2. CASE D!WorkerPush(w)
  BY <1>2 DEF D!WorkerPush
<1>3. CASE D!WorkerStop(w)
  BY <1>3 DEF D!WorkerStop, D!Stopped
<1>4. CASE D!WorkerPullLost(w)
  BY <1>4 DEF D!WorkerPullLost
<1> HIDE DEF CloseInv, Shaped, ClosingIsClosed, WorkersGone, SendersGone, ClosedLast, D!chanVars
<1> QED
  BY <1>1, <1>2, <1>3, <1>4 DEF D!WorkerStep

(* Close itself, and the next process, which starts with a channel of its own. *)
LEMMA ClosingKeepsClosed ==
  ASSUME CloseInv, D!CloseBegin \/ D!CloseStep \/ D!Restart
  PROVE  CloseInv'
<1> USE DEF CloseInv, Shaped, ClosingIsClosed, WorkersGone, SendersGone, ClosedLast
<1>1. CASE D!CloseBegin
  BY <1>1 DEF D!CloseBegin
<1>2. CASE D!CloseWorkers
  BY <1>2 DEF D!CloseWorkers
<1>3. CASE D!ClosePool
  BY <1>3 DEF D!ClosePool
<1>4. CASE D!CloseChannel
  BY <1>4 DEF D!CloseChannel
<1>5. CASE D!Restart
  BY <1>5 DEF D!Restart
<1> HIDE DEF CloseInv, Shaped, ClosingIsClosed, WorkersGone, SendersGone, ClosedLast
<1> QED
  BY <1>1, <1>2, <1>3, <1>4, <1>5 DEF D!CloseStep

(* memChan is closed only when nobody is left to send on it, in every mode, with any
   interleaving of Send, the workers and Close, across crashes and restarts (Close in
   durable_channel.go). *)
THEOREM ClosedIsQuiet == Spec => []NoSendOnClosed
<1>1. Init => CloseInv
  BY DEF Init, D!Init, CloseInv, Shaped, ClosingIsClosed, WorkersGone, SendersGone, ClosedLast
<1>2. CloseInv /\ [Next]_vars => CloseInv'
  <2> SUFFICES ASSUME CloseInv, [D!Next]_(D!vars) PROVE CloseInv'
    BY Steps
  <2>1. CASE D!Receive \/ D!ListExpires
    BY <2>1 DEF D!Receive, D!ListExpires, D!chanVars, CloseInv, Shaped, ClosingIsClosed, WorkersGone,
                SendersGone, ClosedLast
  <2>2. CASE UNCHANGED D!vars
    BY <2>2 DEF D!vars, D!chanVars, CloseInv, Shaped, ClosingIsClosed, WorkersGone, SendersGone,
                ClosedLast
  <2> QED
    BY <2>1, <2>2, SendersKeepClosed, WorkersKeepClosed, ClosingKeepsClosed DEF D!Next
<1>3. CloseInv => NoSendOnClosed
  BY DEF CloseInv, ClosedLast, WorkersGone, SendersGone, NoSendOnClosed, D!NoSendOnClosed
<1> QED BY <1>1, <1>2, <1>3, PTL DEF Spec

-----------------------------------------------------------------------------
(* IDGenerator. *)
(* A key outlives the last call that uses its prefix, and nobody generates beside a reset. *)
KeyOutlivesCalls ==
  /\ Window \in Nat \ {0} /\ Lag \in Nat /\ Expire \in Nat /\ Horizon \in Nat
  /\ SeqStart \in Nat /\ BatchSizes \subseteq Nat
  /\ Window + Lag <= Expire
  /\ ResetsAlone

Start(w) == w * Window   \* the tick a prefix begins with
Calling(p) == call[p].kind # "none"

IdsTyped ==
  /\ now \in 0..Horizon
  /\ seq \in [G!Prefixes -> Nat \cup {G!Absent}]
  /\ ttl \in [G!Prefixes -> Nat \cup {G!Persistent}]
  /\ call \in [Procs -> [kind : {"none", "generate", "reset", "set"}, prefix : G!Prefixes,
                         age : Nat]]

(* A call uses the prefix of the window it began in, at most Lag ticks later. *)
PrefixIsRecent ==
  \A p \in Procs : Calling(p) =>
    /\ call[p].age <= Lag
    /\ Start(call[p].prefix) <= now - call[p].age
    /\ now - call[p].age < Start(call[p].prefix) + Window
(* A key lives for Expire ticks from its creation, in its window or later. *)
KeyLivesLong ==
  \A w \in G!Prefixes : seq[w] # G!Absent /\ ttl[w] # G!Persistent =>
    ttl[w] > 0 /\ now + ttl[w] >= Start(w) + Expire
(* A reset is alone with a key that it has found missing. *)
ResetAlone ==
  \A p \in Procs : call[p].kind \in {"reset", "set"} => \A q \in Procs \ {p} : ~Calling(q)
SetOnMissing == \A p \in Procs : call[p].kind = "set" => seq[call[p].prefix] = G!Absent
(* The counter is at or above whatever its window has given out, until nobody can ask. *)
CounterAbove ==
  \A w \in G!Prefixes, i \in Nat : <<w, i>> \in issued =>
    \/ seq[w] # G!Absent /\ i <= seq[w]
    \/ seq[w] = G!Absent /\ now >= Start(w) + Window + Lag

IdsInv == IdsTyped /\ PrefixIsRecent /\ KeyLivesLong /\ ResetAlone /\ SetOnMissing /\ CounterAbove
         /\ repeated = {}

-----------------------------------------------------------------------------
(* now \div Window is the window that now is in. *)
LEMMA WindowOf ==
  ASSUME KeyOutlivesCalls, NEW t \in 0..Horizon
  PROVE  /\ t \div Window \in G!Prefixes
         /\ Start(t \div Window) <= t /\ t < Start(t \div Window) + Window
  BY Z3 DEF KeyOutlivesCalls, Start, G!Prefixes

LEMMA StartInt == ASSUME KeyOutlivesCalls, NEW w \in G!Prefixes PROVE Start(w) \in Nat
  BY DEF KeyOutlivesCalls, Start, G!Prefixes

(* Facts all steps use. *)
LEMMA Numbers ==
  ASSUME KeyOutlivesCalls
  PROVE  G!First \in Nat /\ Expire \in Nat /\ Expire > 0
  BY DEF KeyOutlivesCalls, G!First

(* A script that adds n to a window somebody may still ask for: a key that is missing has
   given out nothing, one that is there nothing above its value. *)
LEMMA ScriptKeeps ==
  ASSUME KeyOutlivesCalls, IdsInv, NEW p \in Procs, NEW n \in Nat, NEW batch \in BOOLEAN,
         call[p].kind = "generate", G!IncrScript(call[p].prefix, n, batch), G!Finish(p),
         UNCHANGED now
  PROVE  IdsInv'
<1> DEFINE w == call[p].prefix
           ids == {<<w, i>> : i \in G!Base(w) + 1 .. G!Base(w) + n}
<1>1. w \in G!Prefixes /\ Start(w) \in Nat
  BY StartInt DEF IdsInv, IdsTyped
<1>2. seq[w] \in Nat \cup {G!Absent} /\ G!Base(w) \in Nat
  BY <1>1, Numbers DEF IdsInv, IdsTyped, G!Base
<1>3. Start(w) <= now /\ now < Start(w) + Window + Lag /\ now \in Nat
  BY <1>1 DEF IdsInv, IdsTyped, PrefixIsRecent, Calling, KeyOutlivesCalls
<1>4. issued \cap ids = {}
  <2> SUFFICES ASSUME NEW i \in G!Base(w) + 1 .. G!Base(w) + n, <<w, i>> \in issued PROVE FALSE
    OBVIOUS
  <2>1. i \in Nat
    BY <1>2
  <2>2. seq[w] # G!Absent /\ i <= seq[w]
    BY <1>1, <1>2, <1>3, <2>1 DEF IdsInv, CounterAbove, KeyOutlivesCalls
  <2> QED BY <1>2, <2>2 DEF G!Base
<1>5. /\ seq' = [seq EXCEPT ![w] = G!Base(w) + n]
      /\ ttl' = [ttl EXCEPT ![w] = IF seq[w] = G!Absent THEN G!NewKeyTTL(batch) ELSE @]
      /\ issued' = issued \cup ids
      /\ repeated' = repeated \cup (issued \cap ids)
  BY DEF G!IncrScript
<1>6. /\ call' = [call EXCEPT ![p] = G!NoCall]
      /\ G!NoCall \in [kind : {"none", "generate", "reset", "set"}, prefix : G!Prefixes, age : Nat]
  <2>1. 0 \in G!Prefixes
    BY WindowOf DEF KeyOutlivesCalls, G!Prefixes
  <2> QED BY <2>1 DEF G!Finish, G!NoCall
<1>7. G!NewKeyTTL(batch) \in {Expire, G!Persistent}
  BY DEF G!NewKeyTTL
<1>8. \A q \in Procs : Calling(q)' => call'[q] = call[q] /\ Calling(q) /\ q # p
  BY <1>6 DEF Calling, G!NoCall, IdsInv, IdsTyped
<1>9. IdsTyped'
  BY <1>1, <1>2, <1>5, <1>6, <1>7, Numbers DEF IdsInv, IdsTyped, G!Persistent
<1>10. PrefixIsRecent'
  BY <1>8 DEF IdsInv, PrefixIsRecent
<1>11. KeyLivesLong'
  <2> SUFFICES ASSUME NEW v \in G!Prefixes, seq'[v] # G!Absent, ttl'[v] # G!Persistent
               PROVE  ttl'[v] > 0 /\ now + ttl'[v] >= Start(v) + Expire
    BY DEF KeyLivesLong
  <2>1. CASE v = w /\ seq[w] = G!Absent
    BY <1>1, <1>3, <1>5, <1>7, <2>1, Numbers DEF IdsInv, IdsTyped
  <2>2. CASE v # w \/ seq[w] # G!Absent
    BY <1>1, <1>5, <2>2 DEF IdsInv, IdsTyped, KeyLivesLong
  <2> QED BY <2>1, <2>2
<1>12. ResetAlone'
  <2>1. \A q \in Procs : call'[q].kind \in {"reset", "set"} => Calling(q)'
    BY DEF Calling
  <2> QED BY <1>8, <2>1 DEF IdsInv, ResetAlone
<1>13. SetOnMissing'
  <2> SUFFICES ASSUME NEW q \in Procs, call'[q].kind = "set" PROVE FALSE
    BY DEF SetOnMissing
  <2>1. call[q].kind = "set" /\ q # p
    BY <1>8 DEF Calling
  <2> QED BY <2>1 DEF IdsInv, ResetAlone, Calling
<1>14. CounterAbove'
  <2> SUFFICES ASSUME NEW v \in G!Prefixes, NEW i \in Nat, <<v, i>> \in issued'
               PROVE  \/ seq'[v] # G!Absent /\ i <= seq'[v]
                      \/ seq'[v] = G!Absent /\ now >= Start(v) + Window + Lag
    BY DEF CounterAbove
  <2>1. CASE <<v, i>> \in ids
    <3>1. v = w /\ i <= G!Base(w) + n
      BY <1>2, <2>1
    <3> QED BY <1>1, <1>2, <1>5, <3>1 DEF IdsInv, IdsTyped, G!Absent
  <2>2. CASE <<v, i>> \in issued /\ v # w
    BY <1>1, <1>5, <2>2 DEF IdsInv, IdsTyped, CounterAbove
  <2>3. CASE <<v, i>> \in issued /\ v = w
    <3>1. seq[w] # G!Absent /\ i <= seq[w]
      BY <1>1, <1>2, <1>3, <2>3 DEF IdsInv, CounterAbove, KeyOutlivesCalls
    <3> QED BY <1>1, <1>2, <1>5, <2>3, <3>1 DEF IdsInv, IdsTyped, G!Base, G!Absent
  <2> QED BY <1>5, <2>1, <2>2, <2>3
<1>15. repeated' = {}
  BY <1>4, <1>5 DEF IdsInv
<1> QED
  BY <1>9, <1>10, <1>11, <1>12, <1>13, <1>14, <1>15 DEF IdsInv

(* The clock is read: the prefix is the window of now. *)
LEMMA BeginKeeps ==
  ASSUME KeyOutlivesCalls, IdsInv, NEW p \in Procs, G!Begin(p)
  PROVE  IdsInv'
<1>1. PICK job \in {"generate", "reset"} :
        /\ G!MayBegin(p, job)
        /\ call' = [call EXCEPT ![p] = [kind |-> job, prefix |-> now \div Window, age |-> 0]]
  BY DEF G!Begin
<1>2. /\ now \div Window \in G!Prefixes
      /\ Start(now \div Window) <= now /\ now < Start(now \div Window) + Window
  BY WindowOf DEF IdsInv, IdsTyped
<1>3. ~Calling(p) /\ UNCHANGED <<now, seq, ttl, issued, repeated>>
  BY DEF G!Begin, Calling
<1>4. IdsTyped'
  BY <1>1, <1>2, <1>3 DEF IdsInv, IdsTyped
<1>5. PrefixIsRecent'
  BY <1>1, <1>2, <1>3 DEF IdsInv, IdsTyped, PrefixIsRecent, Calling, KeyOutlivesCalls
<1>6. KeyLivesLong' /\ CounterAbove' /\ repeated' = {}
  BY <1>3 DEF IdsInv, KeyLivesLong, CounterAbove
<1>7. ResetAlone'
  <2>1. \A q \in Procs \ {p} : /\ call[q].kind \notin {"reset", "set"}
                               /\ job = "reset" => ~Calling(q)
    BY <1>1 DEF G!MayBegin, KeyOutlivesCalls, Calling
  <2>2. call'[p].kind = job /\ \A q \in Procs \ {p} : call'[q] = call[q]
    BY <1>1 DEF IdsInv, IdsTyped
  <2> QED BY <2>1, <2>2 DEF ResetAlone, Calling
<1>8. SetOnMissing'
  BY <1>1, <1>3 DEF IdsInv, IdsTyped, SetOnMissing
<1> QED
  BY <1>4, <1>5, <1>6, <1>7, <1>8 DEF IdsInv

(* The two commands of a reset, with nobody between them. *)
LEMMA ResetKeeps ==
  ASSUME KeyOutlivesCalls, IdsInv, NEW p \in Procs, G!ResetExists(p) \/ G!ResetSet(p)
  PROVE  IdsInv'
<1> DEFINE w == call[p].prefix
<1>1. w \in G!Prefixes /\ Start(w) \in Nat
  BY StartInt DEF IdsInv, IdsTyped
<1>2. call' = [call EXCEPT ![p].kind = "set"] \/ call' = [call EXCEPT ![p] = G!NoCall]
  BY DEF G!ResetExists, G!ResetSet, G!Finish
<1>3. G!NoCall \in [kind : {"none", "generate", "reset", "set"}, prefix : G!Prefixes, age : Nat]
  <2>1. 0 \in G!Prefixes
    BY WindowOf DEF KeyOutlivesCalls, G!Prefixes
  <2> QED BY <2>1 DEF G!NoCall
<1>4. \A q \in Procs \ {p} : call'[q] = call[q] /\ ~Calling(q)
  BY <1>2 DEF IdsInv, IdsTyped, ResetAlone, G!ResetExists, G!ResetSet
<1>5. now' = now /\ issued' = issued /\ repeated' = {}
  BY DEF G!ResetExists, G!ResetSet, IdsInv
<1>6. PrefixIsRecent'
  <2>1. Calling(p)' => call'[p].prefix = w /\ call'[p].age = call[p].age /\ Calling(p)
    BY <1>2 DEF IdsInv, IdsTyped, Calling, G!NoCall, G!ResetExists, G!ResetSet
  <2> QED BY <1>4, <1>5, <2>1 DEF IdsInv, PrefixIsRecent, Calling
<1>7. ResetAlone'
  BY <1>4 DEF ResetAlone, Calling
<1>8. CASE G!ResetExists(p)
  <2>1. seq' = seq /\ ttl' = ttl
    BY <1>8 DEF G!ResetExists
  <2>2. IdsTyped'
    BY <1>2, <1>3, <1>5, <2>1 DEF IdsInv, IdsTyped
  <2>3. SetOnMissing'
    BY <1>4, <1>8, <2>1 DEF IdsInv, IdsTyped, SetOnMissing, Calling, G!ResetExists, G!Finish, G!NoCall
  <2>4. KeyLivesLong' /\ CounterAbove'
    BY <1>5, <2>1 DEF IdsInv, KeyLivesLong, CounterAbove
  <2> QED BY <1>5, <1>6, <1>7, <2>2, <2>3, <2>4 DEF IdsInv
<1>9. CASE G!ResetSet(p)
  <2>1. /\ seq' = [seq EXCEPT ![w] = G!First] /\ ttl' = [ttl EXCEPT ![w] = Expire]
        /\ call' = [call EXCEPT ![p] = G!NoCall] /\ seq[w] = G!Absent
    BY <1>9 DEF G!ResetSet, G!Finish, IdsInv, SetOnMissing
  <2>2. Start(w) <= now /\ now < Start(w) + Window + Lag /\ now \in Nat
    BY <1>1, <1>9 DEF IdsInv, IdsTyped, PrefixIsRecent, Calling, KeyOutlivesCalls, G!ResetSet
  <2>3. IdsTyped'
    BY <1>1, <1>3, <1>5, <2>1, Numbers DEF IdsInv, IdsTyped
  <2>4. SetOnMissing'
    BY <1>4, <2>1 DEF SetOnMissing, G!NoCall, Calling, IdsInv, IdsTyped
  <2>5. KeyLivesLong'
    BY <1>1, <1>5, <2>1, <2>2, Numbers DEF IdsInv, IdsTyped, KeyLivesLong
  <2>6. \A i \in Nat : <<w, i>> \notin issued
    BY <1>1, <2>1, <2>2 DEF IdsInv, CounterAbove, KeyOutlivesCalls
  <2>7. CounterAbove'
    BY <1>1, <1>5, <2>1, <2>6 DEF IdsInv, IdsTyped, CounterAbove
  <2> QED BY <1>5, <1>6, <1>7, <2>3, <2>4, <2>5, <2>7 DEF IdsInv
<1> QED
  BY <1>8, <1>9

(* When a key expires, its window and the calls that may be late for it are over. *)
LEMMA TickKeeps ==
  ASSUME KeyOutlivesCalls, IdsInv, G!Tick
  PROVE  IdsInv'
<1>1. /\ now' = now + 1 /\ now \in Nat /\ now' \in 0..Horizon
      /\ issued' = issued /\ repeated' = {}
  BY DEF G!Tick, IdsInv, IdsTyped, KeyOutlivesCalls
<1>2. \A w \in G!Prefixes : /\ ttl'[w] = IF ttl[w] > 0 THEN ttl[w] - 1 ELSE ttl[w]
                            /\ seq'[w] = IF ttl[w] = 1 THEN G!Absent ELSE seq[w]
                            /\ ttl[w] \in Nat \cup {G!Persistent} /\ Start(w) \in Nat
  BY StartInt DEF G!Tick, IdsInv, IdsTyped
<1>3. \A q \in Procs : /\ call'[q].kind = call[q].kind /\ call'[q].prefix = call[q].prefix
                       /\ Calling(q) => call'[q].age = call[q].age + 1 /\ call[q].age < Lag
  BY DEF G!Tick, Calling, IdsInv, IdsTyped
<1>4. IdsTyped'
  <2>1. seq' \in [G!Prefixes -> Nat \cup {G!Absent}]
    BY <1>2 DEF G!Tick, IdsInv, IdsTyped
  <2>2. ttl' \in [G!Prefixes -> Nat \cup {G!Persistent}]
    BY <1>2 DEF G!Tick, G!Persistent
  <2>3. call' \in [Procs -> [kind : {"none", "generate", "reset", "set"}, prefix : G!Prefixes,
                            age : Nat]]
    BY DEF G!Tick, IdsInv, IdsTyped
  <2> QED BY <1>1, <2>1, <2>2, <2>3 DEF IdsTyped
<1>5. PrefixIsRecent'
  <2> SUFFICES ASSUME NEW q \in Procs, Calling(q)
               PROVE  /\ call'[q].age <= Lag
                      /\ Start(call[q].prefix) <= now' - call'[q].age
                      /\ now' - call'[q].age < Start(call[q].prefix) + Window
    BY <1>3 DEF PrefixIsRecent, Calling
  <2>1. call[q].age \in Nat
    BY DEF IdsInv, IdsTyped
  <2>2. now' - call'[q].age = now - call[q].age /\ call'[q].age <= Lag
    BY <1>1, <1>3, <2>1 DEF KeyOutlivesCalls
  <2> QED BY <2>2 DEF IdsInv, PrefixIsRecent
<1>6. KeyLivesLong'
  <2> SUFFICES ASSUME NEW w \in G!Prefixes, seq'[w] # G!Absent, ttl'[w] # G!Persistent
               PROVE  ttl'[w] > 0 /\ now' + ttl'[w] >= Start(w) + Expire
    BY DEF KeyLivesLong
  <2>1. seq[w] # G!Absent /\ ttl[w] # 1 /\ ttl[w] # G!Persistent
    BY <1>2 DEF G!Persistent
  <2>2. ttl[w] > 0 /\ now + ttl[w] >= Start(w) + Expire
    BY <2>1 DEF IdsInv, KeyLivesLong
  <2> QED BY <1>1, <1>2, <2>1, <2>2, Numbers
<1>7. ResetAlone'
  BY <1>3 DEF IdsInv, ResetAlone, Calling
<1>8. SetOnMissing'
  <2>1. \A w \in G!Prefixes : seq[w] = G!Absent => seq'[w] = G!Absent
    BY <1>2
  <2> QED BY <1>3, <2>1 DEF IdsInv, IdsTyped, SetOnMissing
<1>9. CounterAbove'
  <2> SUFFICES ASSUME NEW w \in G!Prefixes, NEW i \in Nat, <<w, i>> \in issued
               PROVE  \/ seq'[w] # G!Absent /\ i <= seq'[w]
                      \/ seq'[w] = G!Absent /\ now' >= Start(w) + Window + Lag
    BY <1>1 DEF CounterAbove
  <2>1. CASE ttl[w] = 1
    <3>1. seq[w] # G!Absent => now + 1 >= Start(w) + Expire
      BY <2>1 DEF IdsInv, KeyLivesLong, G!Persistent
    <3>2. seq[w] = G!Absent => now >= Start(w) + Window + Lag
      BY DEF IdsInv, CounterAbove
    <3> QED BY <1>1, <1>2, <2>1, <3>1, <3>2, Numbers DEF KeyOutlivesCalls
  <2>2. CASE ttl[w] # 1
    BY <1>1, <1>2, <2>2 DEF IdsInv, CounterAbove, KeyOutlivesCalls
  <2> QED BY <2>1, <2>2
<1> QED
  BY <1>1, <1>4, <1>5, <1>6, <1>7, <1>8, <1>9 DEF IdsInv

(* What IDGenerator keeps. *)
LEMMA IdsInvHolds ==
  ASSUME KeyOutlivesCalls
  PROVE  Spec => []IdsInv
<1>1. Init => IdsInv
  <2> SUFFICES ASSUME G!Init PROVE IdsInv
    BY DEF Init
  <2>1. 0 \in G!Prefixes /\ 0 \in 0..Horizon
    BY WindowOf DEF KeyOutlivesCalls, G!Prefixes
  <2> QED
    BY <2>1 DEF G!Init, IdsInv, IdsTyped, PrefixIsRecent, KeyLivesLong, ResetAlone, SetOnMissing,
                CounterAbove, Calling, G!NoCall
<1>2. IdsInv /\ [Next]_vars => IdsInv'
  <2> SUFFICES ASSUME IdsInv, [G!Next]_(G!vars) PROVE IdsInv'
    BY Steps
  <2>1. ASSUME NEW p \in Procs, G!GenerateID(p) PROVE IdsInv'
    BY <2>1, ScriptKeeps DEF G!GenerateID
  <2>2. ASSUME NEW p \in Procs, G!GenerateIDs(p) PROVE IdsInv'
    <3>1. PICK n \in BatchSizes : G!IncrScript(call[p].prefix, n, TRUE)
      BY <2>2 DEF G!GenerateIDs
    <3>2. n \in Nat
      BY DEF KeyOutlivesCalls
    <3> QED BY <2>2, <3>1, <3>2, ScriptKeeps DEF G!GenerateIDs
  <2>3. CASE UNCHANGED G!vars
    BY <2>3 DEF G!vars, IdsInv, IdsTyped, PrefixIsRecent, KeyLivesLong, ResetAlone, SetOnMissing,
                CounterAbove, Calling
  <2> QED
    BY <2>1, <2>2, <2>3, BeginKeeps, ResetKeeps, TickKeeps DEF G!Next
<1> QED BY <1>1, <1>2, PTL DEF Spec

(* No id is handed out twice, in single calls or batches of any size, by any number of
   processes, across windows, late calls, expiring keys and resets that nobody races, as
   long as a key outlives its window and the latest call (id_generator.go). *)
THEOREM NoIdTwice ==
  ASSUME KeyOutlivesCalls
  PROVE  Spec => []UniqueIds
<1>1. IdsInv => UniqueIds
  BY DEF IdsInv, UniqueIds, G!UniqueIds
<1> QED BY <1>1, IdsInvHolds, PTL

-----------------------------------------------------------------------------
Given(w) == {id[2] : id \in {x \in issued : x[1] = w}}
(* A window has given out the numbers from the first one to the value of its key. *)
GivenDense ==
  /\ issued \subseteq G!Prefixes \X Nat
  /\ \A w \in G!Prefixes :
       \E m \in Nat : /\ m >= G!First /\ Given(w) = G!First + 1 .. m
                      /\ seq[w] # G!Absent => m = seq[w]

(* A call still under way, or a reset about to write, finds its key there or nothing given
   out: the counter is not forgotten too early. *)
LEMMA NothingForgotten ==
  ASSUME KeyOutlivesCalls, IdsInv, NEW p \in Procs, Calling(p), NEW i \in Nat,
         <<call[p].prefix, i>> \in issued
  PROVE  seq[call[p].prefix] # G!Absent /\ i <= seq[call[p].prefix]
<1> DEFINE w == call[p].prefix
<1>1. w \in G!Prefixes /\ Start(w) \in Nat
  BY StartInt DEF IdsInv, IdsTyped
<1>2. now < Start(w) + Window + Lag /\ now \in Nat
  BY <1>1 DEF IdsInv, IdsTyped, PrefixIsRecent, KeyOutlivesCalls
<1> QED
  BY <1>1, <1>2 DEF IdsInv, CounterAbove, KeyOutlivesCalls

LEMMA GivenIs ==
  ASSUME NEW S, S \subseteq G!Prefixes \X Nat, NEW w
  PROVE  {id[2] : id \in {x \in S : x[1] = w}} = {i \in Nat : <<w, i>> \in S}
<1>1. \A x \in S : x[2] \in Nat /\ x = <<x[1], x[2]>>
  OBVIOUS
<1> QED BY <1>1

(* What a script counts on from is the last number of its window. *)
LEMMA BaseIsLast ==
  ASSUME KeyOutlivesCalls, IdsInv, GivenDense, NEW p \in Procs, Calling(p)
  PROVE  LET w == call[p].prefix
         IN  /\ w \in G!Prefixes /\ G!Base(w) \in Nat /\ G!Base(w) >= G!First
             /\ Given(w) = G!First + 1 .. G!Base(w)
<1> DEFINE w == call[p].prefix
<1>1. w \in G!Prefixes /\ G!First \in Nat
  BY Numbers DEF IdsInv, IdsTyped
<1>2. PICK m \in Nat : /\ m >= G!First /\ Given(w) = G!First + 1 .. m
                       /\ seq[w] # G!Absent => m = seq[w]
  BY <1>1 DEF GivenDense
<1>3. CASE seq[w] # G!Absent
  BY <1>1, <1>2, <1>3 DEF G!Base
<1>4. CASE seq[w] = G!Absent
  <2>1. \A i \in Nat : <<w, i>> \notin issued
    BY <1>4, NothingForgotten
  <2>2. Given(w) = {}
    BY <2>1, GivenIs DEF Given, GivenDense
  <2>3. m = G!First
    <3>1. G!First + 1 .. m = {} /\ m \in Nat /\ m >= G!First
      BY <1>2, <2>2
    <3>2. m > G!First => m \in G!First + 1 .. m
      BY <1>1, <3>1
    <3> HIDE DEF w
    <3> QED BY <1>1, <3>1, <3>2
  <2> QED BY <1>1, <1>2, <1>4, <2>3 DEF G!Base
<1> QED BY <1>3, <1>4

LEMMA ScriptKeepsDense ==
  ASSUME KeyOutlivesCalls, IdsInv, GivenDense, NEW p \in Procs, NEW n \in Nat,
         NEW batch \in BOOLEAN, Calling(p), G!IncrScript(call[p].prefix, n, batch)
  PROVE  GivenDense'
<1> DEFINE w == call[p].prefix
           b == G!Base(w)
           ids == {<<w, i>> : i \in b + 1 .. b + n}
<1>1. /\ w \in G!Prefixes /\ b \in Nat /\ b >= G!First /\ Given(w) = G!First + 1 .. b
      /\ G!First \in Nat
  BY BaseIsLast, Numbers
<1>2. seq' = [seq EXCEPT ![w] = b + n] /\ issued' = issued \cup ids
  BY DEF G!IncrScript
<1> HIDE DEF w, b
<1>3. issued' \subseteq G!Prefixes \X Nat
  BY <1>1, <1>2 DEF GivenDense
<1>4. ASSUME NEW v \in G!Prefixes
      PROVE  \E m \in Nat : /\ m >= G!First /\ Given(v)' = G!First + 1 .. m
                            /\ seq'[v] # G!Absent => m = seq'[v]
  <2>1. CASE v = w
    <3>1. Given(v) = {i \in Nat : <<v, i>> \in issued}
      BY GivenIs DEF Given, GivenDense
    <3>2. Given(v)' = {i \in Nat : <<v, i>> \in issued'}
      BY <1>3, GivenIs DEF Given
    <3>3. Given(v)' = Given(v) \cup (b + 1 .. b + n)
      BY <1>1, <1>2, <2>1, <3>1, <3>2
    <3>4. Given(v)' = G!First + 1 .. b + n
      BY <1>1, <2>1, <3>3
    <3>5. seq'[v] = b + n /\ b + n \in Nat /\ b + n >= G!First
      BY <1>1, <1>2, <2>1 DEF IdsInv, IdsTyped
    <3> QED BY <3>4, <3>5
  <2>2. CASE v # w
    <3>1. Given(v)' = Given(v)
      BY <1>2, <2>2 DEF Given
    <3>2. seq'[v] = seq[v]
      BY <1>2, <2>2 DEF IdsInv, IdsTyped
    <3> QED BY <3>1, <3>2 DEF GivenDense
  <2> QED BY <2>1, <2>2
<1> QED BY <1>3, <1>4 DEF GivenDense

(* The clock only makes keys expire, and a reset writes what a missing key counts as. *)
LEMMA GivenDenseStep ==
  ASSUME KeyOutlivesCalls, IdsInv, GivenDense, [G!Next]_(G!vars)
  PROVE  GivenDense'
<1>1. ASSUME NEW p \in Procs, G!GenerateID(p) \/ G!GenerateIDs(p) PROVE GivenDense'
  <2>1. Calling(p) /\ \E n \in Nat, batch \in BOOLEAN : G!IncrScript(call[p].prefix, n, batch)
    BY <1>1 DEF G!GenerateID, G!GenerateIDs, KeyOutlivesCalls, Calling
  <2> QED BY <2>1, ScriptKeepsDense
<1>2. ASSUME NEW p \in Procs, G!ResetSet(p) PROVE GivenDense'
  <2> DEFINE w == call[p].prefix
  <2>1. /\ Calling(p) /\ seq[w] = G!Absent /\ w \in G!Prefixes
        /\ seq' = [seq EXCEPT ![w] = G!First] /\ issued' = issued
    BY <1>2 DEF G!ResetSet, Calling, IdsInv, IdsTyped, SetOnMissing
  <2>2. Given(w) = G!First + 1 .. G!First /\ G!First \in Nat
    BY <2>1, BaseIsLast, Numbers DEF G!Base
  <2> HIDE DEF w
  <2>3. ASSUME NEW v \in G!Prefixes
        PROVE  \E m \in Nat : /\ m >= G!First /\ Given(v)' = G!First + 1 .. m
                              /\ seq'[v] # G!Absent => m = seq'[v]
    <3>1. Given(v)' = Given(v)
      BY <2>1 DEF Given
    <3>2. CASE v = w
      BY <2>1, <2>2, <3>1, <3>2 DEF IdsInv, IdsTyped
    <3>3. CASE v # w
      <4>1. seq'[v] = seq[v]
        BY <2>1, <3>3 DEF IdsInv, IdsTyped
      <4> QED BY <3>1, <4>1 DEF GivenDense
    <3> QED BY <3>2, <3>3
  <2> QED BY <2>1, <2>3 DEF GivenDense
<1>3. CASE issued' = issued /\ \A w \in G!Prefixes : seq'[w] \in {seq[w], G!Absent}
  <2>1. ASSUME NEW v \in G!Prefixes
        PROVE  \E m \in Nat : /\ m >= G!First /\ Given(v)' = G!First + 1 .. m
                              /\ seq'[v] # G!Absent => m = seq'[v]
    <3>1. Given(v)' = Given(v)
      BY <1>3 DEF Given
    <3> QED BY <1>3, <3>1 DEF GivenDense
  <2> QED BY <1>3, <2>1 DEF GivenDense
<1>4. ASSUME NEW p \in Procs, G!Begin(p) \/ G!ResetExists(p) PROVE GivenDense'
  BY <1>3, <1>4 DEF G!Begin, G!ResetExists
<1>5. CASE G!Tick
  BY <1>3, <1>5 DEF G!Tick
<1>6. CASE UNCHANGED G!vars
  BY <1>3, <1>6 DEF G!vars
<1> QED
  BY <1>1, <1>2, <1>4, <1>5, <1>6 DEF G!Next

(* The numbers given out in a window are the ones from the configured start on, without a
   gap, in whatever way single calls, batches, resets, late calls and expiring keys
   interleave (id_generator.go). *)
THEOREM NumbersHaveNoGap ==
  ASSUME KeyOutlivesCalls
  PROVE  Spec => []DenseSequence
<1>1. Init => GivenDense
  <2> SUFFICES ASSUME G!Init PROVE GivenDense
    BY DEF Init
  <2>1. issued = {} /\ \A w \in G!Prefixes : seq[w] = G!Absent
    BY DEF G!Init
  <2>2. \A w : Given(w) = {}
    BY <2>1 DEF Given
  <2>3. G!First \in Nat /\ G!First + 1 .. G!First = {}
    BY Numbers
  <2>4. ASSUME NEW w \in G!Prefixes
        PROVE  /\ G!First >= G!First /\ Given(w) = G!First + 1 .. G!First
               /\ seq[w] # G!Absent => G!First = seq[w]
    <3>1. Given(w) = G!First + 1 .. G!First
      BY <2>2, <2>3, Zenon
    <3>2. G!First >= G!First
      BY <2>3
    <3> QED BY <2>1, <3>1, <3>2
  <2> QED BY <2>1, <2>3, <2>4 DEF GivenDense
<1>2. GivenDense /\ IdsInv /\ [Next]_vars => GivenDense'
  BY Steps, GivenDenseStep
<1>3. GivenDense => DenseSequence
  <2> SUFFICES ASSUME GivenDense, NEW w \in G!Prefixes
               PROVE  LET start == IF SeqStart > 1 THEN SeqStart ELSE 1
                      IN  Given(w) = start .. start + Cardinality(Given(w)) - 1
    BY SameCardinalities DEF DenseSequence, G!DenseSequence, Given
  <2>1. PICK m \in Nat : m >= G!First /\ Given(w) = G!First + 1 .. m
    BY DEF GivenDense
  <2>2. Cardinality(G!First + 1 .. m) = m - G!First
    BY <2>1, Numbers, FS_Interval
  <2>3. (IF SeqStart > 1 THEN SeqStart ELSE 1) = G!First + 1
    BY DEF G!First, KeyOutlivesCalls
  <2> QED BY <2>1, <2>2, <2>3, Numbers
<1> QED BY <1>1, <1>2, <1>3, IdsInvHolds, PTL DEF Spec

-----------------------------------------------------------------------------
(* DurableChannel: what is accepted, and how often. *)

SendStates == {"idle", "persist", "enter", "blocked", "submit", "ok", "error"}
MoverStates == {D!Pulling, D!Stopped} \cup [pc : {"push"}, item : Messages]
ListsTyped == redis \in Seq(Messages) /\ mem \in Seq(Messages)
ChannelTyped ==
  /\ ListsTyped
  /\ mover \in [Movers -> MoverStates]
  /\ received \in [Messages -> Nat]
  /\ send \in [Messages -> SendStates]

(* What the operations do to the lists. *)
LEMMA ListFacts ==
  ASSUME NEW s \in Seq(Messages)
  PROVE  /\ \A m \in Messages : Append(s, m) \in Seq(Messages)
         /\ s # <<>> => Head(s) \in Messages /\ Tail(s) \in Seq(Messages)
         /\ \A n \in 0..Len(s) : /\ SubSeq(s, 1, n) \in Seq(Messages)
                                 /\ SubSeq(s, n + 1, Len(s)) \in Seq(Messages)
<1>1. \A m \in Messages : Append(s, m) \in Seq(Messages)
  OBVIOUS
<1>2. s # <<>> => Head(s) \in Messages /\ Tail(s) \in Seq(Messages)
  OBVIOUS
<1>3. \A n \in 0..Len(s) : SubSeq(s, 1, n) \in Seq(Messages)
  OBVIOUS
<1>4. \A n \in 0..Len(s) : SubSeq(s, n + 1, Len(s)) \in Seq(Messages)
  OBVIOUS
<1> QED BY <1>1, <1>2, <1>3, <1>4


(* Recovery moves the first messages of the list to the buffer, and may lose the one that
   follows them. *)
Recovered(n) ==
  /\ mem' = SubSeq(redis, 1, n)
  /\ redis' = SubSeq(redis, n + 1, Len(redis))
  /\ exposed' = exposed \cup D!InMemory
RecoveredButOne(n) ==
  /\ mem' = SubSeq(redis, 1, n)
  /\ SubSeq(redis, n + 1, Len(redis)) # <<>>
  /\ redis' = Tail(SubSeq(redis, n + 1, Len(redis)))
  /\ exposed' = exposed \cup D!InMemory \cup {Head(SubSeq(redis, n + 1, Len(redis)))}

LEMMA Recovery ==
  ASSUME ListsTyped, BufferSize \in Nat, D!RecoverMessages
  PROVE  \/ redis' = redis /\ mem' = <<>> /\ exposed' = exposed \cup D!InMemory
         \/ \E n \in 0..Len(redis) : Recovered(n) \/ RecoveredButOne(n)
<1>1. Len(redis) \in Nat /\ redis \in Seq(Messages)
  BY DEF ListsTyped
<1>2. ASSUME NEW n \in Nat, n < Len(redis) PROVE SubSeq(redis, n + 1, Len(redis)) # <<>>
  <2> DEFINE b == SubSeq(redis, n + 1, Len(redis))
  <2>1. Len(b) = Len(redis) - n
    BY <1>1, <1>2
  <2>2. Len(<<>>) = 0
    OBVIOUS
  <2> HIDE DEF b
  <2>3. b # <<>>
    BY <1>1, <1>2, <2>1, <2>2
  <2> QED BY <2>3 DEF b
<1> DEFINE fit == IF Len(redis) < BufferSize THEN Len(redis) ELSE BufferSize
<1>3. \A n \in 0..fit : n \in 0..Len(redis) /\ n \in Nat /\ (n < fit => n < Len(redis))
  BY <1>1
<1>4. CASE mode = "sync"
  BY <1>4 DEF D!RecoverMessages
<1>5. CASE mode # "sync"
  <2>1. PICK n \in 0..fit :
          /\ mem' = SubSeq(redis, 1, n)
          /\ \/ /\ redis' = SubSeq(redis, n + 1, Len(redis))
                /\ exposed' = exposed \cup D!InMemory
             \/ /\ n < fit
                /\ redis' = Tail(SubSeq(redis, n + 1, Len(redis)))
                /\ exposed' = exposed \cup D!InMemory \cup {Head(SubSeq(redis, n + 1, Len(redis)))}
    BY <1>5 DEF D!RecoverMessages
  <2> HIDE DEF fit
  <2>2. n \in 0..Len(redis) /\ (n < fit => SubSeq(redis, n + 1, Len(redis)) # <<>>)
    BY <1>2, <1>3
  <2> QED BY <2>1, <2>2 DEF Recovered, RecoveredButOne
<1> QED BY <1>4, <1>5

LEMMA ListsTypedStep ==
  ASSUME ChannelTyped, BufferSize \in Nat, [D!Next]_(D!vars)
  PROVE  ListsTyped'
<1>0. /\ redis \in Seq(Messages) /\ mem \in Seq(Messages)
      /\ \A w \in Movers : mover[w].pc = "push" => mover[w].item \in Messages
  BY DEF ChannelTyped, ListsTyped, MoverStates, D!Pulling, D!Stopped
<1>1. ASSUME NEW m \in Messages, D!SendStep(m) \/ D!SendCancelled(m) \/ D!PoolPersist(m)
      PROVE  redis' \in {redis, Append(redis, m)} /\ mem' \in {mem, Append(mem, m)}
  BY <1>1 DEF D!SendStep, D!SendBegin, D!SendPersist, D!SendHybrid, D!SendEnter, D!SendAsync,
              D!SendSubmit, D!SendCancelled, D!PoolPersist, D!chanVars
<1>2. ASSUME NEW w \in Movers, D!WorkerStep(w) \/ D!WorkerPullLost(w)
      PROVE  /\ redis' = redis \/ (redis # <<>> /\ redis' = Tail(redis))
             /\ mem' = mem \/ (mover[w].pc = "push" /\ mem' = Append(mem, mover[w].item))
  BY <1>2 DEF D!WorkerStep, D!WorkerPull, D!WorkerPush, D!WorkerStop, D!WorkerPullLost, D!chanVars
<1>3. CASE D!Receive
  <2>1. redis' = redis /\ mem # <<>> /\ mem' = Tail(mem)
    BY <1>3 DEF D!Receive
  <2> QED BY <1>0, <2>1, ListFacts DEF ListsTyped
<1>4. CASE D!CloseBegin \/ D!CloseStep \/ UNCHANGED D!vars
  <2>1. redis' = redis /\ mem' = mem
    BY <1>4 DEF D!CloseBegin, D!CloseStep, D!CloseWorkers, D!ClosePool, D!CloseChannel, D!vars
  <2> QED BY <1>0, <2>1 DEF ListsTyped
<1>5. CASE D!Restart
  <2>1. \/ redis' = redis /\ mem' = <<>>
        \/ \E n \in 0..Len(redis) : Recovered(n) \/ RecoveredButOne(n)
    BY <1>5, Recovery DEF D!Restart, ChannelTyped
  <2>2. <<>> \in Seq(Messages)
    OBVIOUS
  <2>3. ASSUME NEW n \in 0..Len(redis), Recovered(n) PROVE ListsTyped'
    BY <1>0, <2>3, ListFacts DEF ListsTyped, Recovered
  <2>4. ASSUME NEW n \in 0..Len(redis), RecoveredButOne(n) PROVE ListsTyped'
    <3>1. SubSeq(redis, n + 1, Len(redis)) \in Seq(Messages) /\ SubSeq(redis, 1, n) \in Seq(Messages)
      BY <1>0, ListFacts
    <3>2. \A s \in Seq(Messages) : s # <<>> => Tail(s) \in Seq(Messages)
      BY ListFacts
    <3> QED BY <2>4, <3>1, <3>2 DEF ListsTyped, RecoveredButOne
  <2> QED BY <1>0, <2>1, <2>2, <2>3, <2>4 DEF ListsTyped
<1>6. ASSUME NEW m \in Messages, D!SendStep(m) \/ D!SendCancelled(m) \/ D!PoolPersist(m)
      PROVE  ListsTyped'
  BY <1>0, <1>1, <1>6, ListFacts DEF ListsTyped
<1>7. ASSUME NEW w \in Movers, D!WorkerStep(w) \/ D!WorkerPullLost(w) PROVE ListsTyped'
  BY <1>0, <1>2, <1>7, ListFacts DEF ListsTyped
<1>8. CASE D!ListExpires
  <2>1. redis' = <<>> /\ mem' = mem
    BY <1>8 DEF D!ListExpires, D!chanVars
  <2>2. <<>> \in Seq(Messages)
    OBVIOUS
  <2> QED BY <1>0, <2>1, <2>2 DEF ListsTyped
<1> QED
  BY <1>3, <1>4, <1>5, <1>6, <1>7, <1>8 DEF D!Next

LEMMA ChannelTypedStep ==
  ASSUME ChannelTyped, BufferSize \in Nat, [D!Next]_(D!vars)
  PROVE  ChannelTyped'
<1> SUFFICES /\ mover' \in [Movers -> MoverStates]
             /\ received' \in [Messages -> Nat]
             /\ send' \in [Messages -> SendStates]
  BY ListsTypedStep DEF ChannelTyped
<1> USE DEF ChannelTyped, D!chanVars, D!SendGoto, D!OnSend, SendStates
<1>1. ASSUME NEW m \in Messages, D!SendStep(m) \/ D!SendCancelled(m)
      PROVE  send' \in [Messages -> SendStates] /\ mover' = mover /\ received' = received
  BY <1>1 DEF D!SendStep, D!SendBegin, D!SendPersist, D!SendHybrid, D!SendEnter, D!SendAsync,
              D!SendSubmit, D!SendCancelled
<1>2. ASSUME NEW m \in Messages, D!PoolPersist(m)
      PROVE  send' = send /\ mover' = mover /\ received' = received
  BY <1>2 DEF D!PoolPersist
<1>3. ASSUME NEW w \in Movers, D!WorkerPull(w)
      PROVE  send' = send /\ received' = received /\ mover' \in [Movers -> MoverStates]
  <2>1. Head(redis) \in Messages
    BY <1>3, ListFacts DEF ListsTyped, D!WorkerPull
  <2>2. [pc |-> "push", item |-> Head(redis)] \in MoverStates
    BY <2>1 DEF MoverStates
  <2>3. mover' = [mover EXCEPT ![w] = [pc |-> "push", item |-> Head(redis)]]
    BY <1>3 DEF D!WorkerPull
  <2> QED BY <1>3, <2>2, <2>3 DEF D!WorkerPull
<1>4. ASSUME NEW w \in Movers, D!WorkerPush(w) \/ D!WorkerStop(w) \/ D!WorkerPullLost(w)
      PROVE  send' = send /\ received' = received /\ mover' \in [Movers -> MoverStates]
  <2>1. \/ mover' = mover
        \/ mover' = [mover EXCEPT ![w] = D!Pulling]
        \/ mover' = [mover EXCEPT ![w] = D!Stopped]
    BY <1>4 DEF D!WorkerPush, D!WorkerStop, D!WorkerPullLost
  <2>2. D!Pulling \in MoverStates /\ D!Stopped \in MoverStates
    BY DEF MoverStates
  <2> QED BY <1>4, <2>1, <2>2 DEF D!WorkerPush, D!WorkerStop, D!WorkerPullLost
<1>5. CASE D!Receive
  <2>1. Head(mem) \in Messages
    BY <1>5, ListFacts DEF ListsTyped, D!Receive
  <2> QED BY <1>5, <2>1 DEF D!Receive
<1>6. CASE D!CloseBegin \/ D!CloseStep \/ UNCHANGED D!vars
  BY <1>6 DEF D!CloseBegin, D!CloseStep, D!CloseWorkers, D!ClosePool, D!CloseChannel, D!vars
<1>7. CASE D!Restart
  BY <1>7 DEF D!Restart, MoverStates
<1>8. CASE D!ListExpires
  BY <1>8 DEF D!ListExpires
<1> QED
  BY <1>1, <1>2, <1>3, <1>4, <1>5, <1>6, <1>7, <1>8 DEF D!Next, D!WorkerStep


LEMMA ContainsFacts ==
  ASSUME NEW s \in Seq(Messages), NEW m
  PROVE  /\ \A x \in Messages : D!Contains(Append(s, x), m) <=> D!Contains(s, m) \/ x = m
         /\ s # <<>> => (D!Contains(s, m) <=> Head(s) = m \/ D!Contains(Tail(s), m))
<1>1. ASSUME NEW x \in Messages
      PROVE  D!Contains(Append(s, x), m) <=> D!Contains(s, m) \/ x = m
  BY DEF D!Contains
<1>2. ASSUME s # <<>>
      PROVE  D!Contains(s, m) <=> Head(s) = m \/ D!Contains(Tail(s), m)
  <2> DEFINE t == Tail(s)
  <2>1. /\ Len(t) = Len(s) - 1 /\ Len(s) \in Nat /\ Len(s) > 0
        /\ \A i \in 1..Len(t) : t[i] = s[i + 1] /\ Head(s) = s[1]
    BY <1>2
  <2>2. Head(s) = s[1]
    BY <1>2
  <2> HIDE DEF t
  <2>3. ASSUME NEW i \in 1..Len(s) PROVE i = 1 \/ (i - 1 \in 1..Len(t) /\ t[i - 1] = s[i])
    BY <2>1
  <2>4. ASSUME NEW i \in 1..Len(t) PROVE i + 1 \in 1..Len(s) /\ t[i] = s[i + 1]
    BY <2>1
  <2>5. 1 \in 1..Len(s)
    BY <2>1
  <2>6. ASSUME D!Contains(s, m) PROVE Head(s) = m \/ D!Contains(t, m)
    <3>1. PICK i \in 1..Len(s) : s[i] = m
      BY <2>6 DEF D!Contains
    <3> QED BY <2>2, <2>3, <3>1 DEF D!Contains
  <2>7. ASSUME D!Contains(t, m) PROVE D!Contains(s, m)
    <3>1. PICK i \in 1..Len(t) : t[i] = m
      BY <2>7 DEF D!Contains
    <3> QED BY <2>4, <3>1 DEF D!Contains
  <2>8. Head(s) = m => D!Contains(s, m)
    BY <2>2, <2>5 DEF D!Contains
  <2> QED BY <2>6, <2>7, <2>8 DEF t
<1> QED BY <1>1, <1>2

(* ToSet and Contains see the same members. *)
LEMMA ToSetIs ==
  ASSUME NEW s \in Seq(Messages), NEW m
  PROVE  m \in D!ToSet(s) <=> D!Contains(s, m)
<1>1. DOMAIN s = 1..Len(s)
  OBVIOUS
<1> QED BY <1>1 DEF D!ToSet, D!Contains

(* A message that Send has put somewhere, and of which no copy was lost, is still somewhere;
   a Send of the async mode puts it in memory, the others in Redis first. *)
Put(m) ==
  \/ send[m] \in {"ok", "submit"}
  \/ send[m] = "enter" /\ mode # "async"
MessagesKept == \A m \in Messages : Put(m) /\ m \notin exposed => D!Somewhere(m)

(* What is exposed stays so. *)
LEMMA ExposedGrows ==
  ASSUME ChannelTyped, BufferSize \in Nat, [D!Next]_(D!vars)
  PROVE  exposed \subseteq exposed'
<1>1. ASSUME NEW m \in Messages, D!SendStep(m) \/ D!SendCancelled(m) \/ D!PoolPersist(m)
      PROVE  exposed' = exposed
  BY <1>1 DEF D!SendStep, D!SendBegin, D!SendPersist, D!SendHybrid, D!SendEnter, D!SendAsync,
              D!SendSubmit, D!SendCancelled, D!PoolPersist
<1>2. ASSUME NEW w \in Movers, D!WorkerStep(w) \/ D!WorkerPullLost(w)
      PROVE  exposed \subseteq exposed'
  BY <1>2 DEF D!WorkerStep, D!WorkerPull, D!WorkerPush, D!WorkerStop, D!WorkerPullLost
<1>3. CASE D!Receive \/ D!CloseBegin \/ D!CloseStep \/ UNCHANGED D!vars
  BY <1>3 DEF D!Receive, D!CloseBegin, D!CloseStep, D!CloseWorkers, D!ClosePool, D!CloseChannel,
              D!vars
<1>4. CASE D!ListExpires
  BY <1>4 DEF D!ListExpires
<1>5. CASE D!Restart
  BY <1>5, Recovery DEF D!Restart, ChannelTyped, Recovered, RecoveredButOne
<1> QED BY <1>1, <1>2, <1>3, <1>4, <1>5 DEF D!Next

(* Cutting a list in two leaves every message in one of the parts. *)
LEMMA CutContains ==
  ASSUME NEW s \in Seq(Messages), NEW n \in 0..Len(s), NEW m, D!Contains(s, m)
  PROVE  D!Contains(SubSeq(s, 1, n), m) \/ D!Contains(SubSeq(s, n + 1, Len(s)), m)
<1> DEFINE a == SubSeq(s, 1, n)
           b == SubSeq(s, n + 1, Len(s))
<1>1. Len(s) \in Nat /\ n \in Nat /\ n <= Len(s)
  OBVIOUS
<1>2. Len(a) = n /\ \A i \in 1..n : a[i] = s[i]
  OBVIOUS
<1>3. Len(b) = Len(s) - n /\ \A i \in 1..(Len(s) - n) : b[i] = s[i + n]
  BY <1>1
<1> HIDE DEF a, b
<1>4. PICK i \in 1..Len(s) : s[i] = m
  BY DEF D!Contains
<1>5. CASE i <= n
  <2>1. i \in 1..Len(a) /\ a[i] = m
    BY <1>1, <1>2, <1>4, <1>5
  <2> QED BY <2>1 DEF D!Contains, a
<1>6. CASE ~(i <= n)
  <2>1. i - n \in 1..Len(b) /\ (i - n) + n = i
    BY <1>1, <1>3, <1>6
  <2>2. b[i - n] = m
    BY <1>1, <1>3, <1>4, <2>1
  <2> QED BY <2>1, <2>2 DEF D!Contains, b
<1> QED BY <1>5, <1>6

(* A copy moves from the list to a worker, from there to the buffer, from there to the
   application; from the list to the buffer of the next process. *)
LEMMA SomewhereStays ==
  ASSUME ChannelTyped, D!NoMessage \notin Messages, BufferSize \in Nat, [D!Next]_(D!vars),
         NEW m \in Messages, m \notin exposed', D!Somewhere(m)
  PROVE  D!Somewhere(m)'
<1>0. /\ redis \in Seq(Messages) /\ mem \in Seq(Messages)
      /\ \A w \in Movers : /\ mover[w].pc = "push" => mover[w].item \in Messages
                           /\ mover[w].pc # "push" => mover[w].item = D!NoMessage
      /\ D!Pulling.item = D!NoMessage /\ D!Stopped.item = D!NoMessage
  BY DEF ChannelTyped, ListsTyped, MoverStates, D!Pulling, D!Stopped
<1>1. ASSUME NEW n \in Messages, D!SendStep(n) \/ D!SendCancelled(n) \/ D!PoolPersist(n)
      PROVE  D!Somewhere(m)'
  <2>1. /\ redis' \in {redis, Append(redis, n)} /\ mem' \in {mem, Append(mem, n)}
        /\ mover' = mover /\ received' = received
    BY <1>1 DEF D!SendStep, D!SendBegin, D!SendPersist, D!SendHybrid, D!SendEnter, D!SendAsync,
                D!SendSubmit, D!SendCancelled, D!PoolPersist, D!chanVars
  <2>2. \A s \in Seq(Messages) : D!Contains(s, m) => D!Contains(Append(s, n), m)
    BY ContainsFacts
  <2>3. \A s \in Seq(Messages) : \A t : t \in {s, Append(s, n)} /\ D!Contains(s, m) => D!Contains(t, m)
    BY <2>2, Zenon
  <2>4. D!Contains(redis, m) => D!Contains(redis', m)
    BY <1>0, <2>1, <2>3, Zenon
  <2>5. D!Contains(mem, m) => D!Contains(mem', m)
    BY <1>0, <2>1, <2>3, Zenon
  <2> QED BY <2>1, <2>4, <2>5 DEF D!Somewhere, D!InHand
<1>2. ASSUME NEW w \in Movers, D!WorkerPull(w) PROVE D!Somewhere(m)'
  <2>1. /\ redis # <<>> /\ redis' = Tail(redis) /\ mem' = mem /\ received' = received
        /\ mover' = [mover EXCEPT ![w] = [pc |-> "push", item |-> Head(redis)]]
        /\ mover[w].pc = "pull"
    BY <1>2 DEF D!WorkerPull, D!chanVars
  <2>2. D!Contains(redis, m) => Head(redis) = m \/ D!Contains(redis', m)
    BY <1>0, <2>1, ContainsFacts
  <2>3. mover'[w].item = Head(redis) /\ \A v \in Movers : v # w => mover'[v] = mover[v]
    BY <2>1 DEF ChannelTyped
  <2>4. mover[w].item # m
    BY <1>0, <2>1
  <2> QED BY <2>1, <2>2, <2>3, <2>4 DEF D!Somewhere, D!InHand
<1>3. ASSUME NEW w \in Movers, D!WorkerPush(w) PROVE D!Somewhere(m)'
  <2>1. /\ redis' = redis /\ received' = received /\ mover[w].item \in Messages
        /\ mover' \in {[mover EXCEPT ![w] = D!Pulling], [mover EXCEPT ![w] = D!Stopped]}
        /\ \/ mem' = Append(mem, mover[w].item)
           \/ mem' = mem /\ mover[w].item # m
    BY <1>0, <1>3 DEF D!WorkerPush
  <2>2. D!Contains(mem, m) \/ mover[w].item = m => D!Contains(mem', m)
    <3>1. D!Contains(Append(mem, mover[w].item), m) <=> D!Contains(mem, m) \/ mover[w].item = m
      BY <1>0, <2>1, ContainsFacts
    <3> QED BY <2>1, <3>1
  <2>3. \A v \in Movers : v # w => mover'[v] = mover[v]
    BY <2>1 DEF ChannelTyped
  <2> QED BY <2>1, <2>2, <2>3 DEF D!Somewhere, D!InHand
<1>4. ASSUME NEW w \in Movers, D!WorkerStop(w) PROVE D!Somewhere(m)'
  <2>1. /\ redis' = redis /\ mem' = mem /\ received' = received
        /\ mover' = [mover EXCEPT ![w] = D!Stopped] /\ mover[w].item # m
    BY <1>0, <1>4 DEF D!WorkerStop, D!chanVars
  <2>2. \A v \in Movers : v # w => mover'[v] = mover[v]
    BY <2>1 DEF ChannelTyped
  <2> QED BY <2>1, <2>2 DEF D!Somewhere, D!InHand
<1>8. ASSUME NEW w \in Movers, D!WorkerPullLost(w) PROVE D!Somewhere(m)'
  <2>1. /\ redis # <<>> /\ redis' = Tail(redis) /\ mem' = mem /\ received' = received
        /\ mover' = mover /\ Head(redis) # m
    BY <1>8 DEF D!WorkerPullLost, D!chanVars
  <2>2. D!Contains(redis, m) => D!Contains(redis', m)
    BY <1>0, <2>1, ContainsFacts
  <2> QED BY <2>1, <2>2 DEF D!Somewhere, D!InHand
<1>9. CASE D!ListExpires
  <2>1. /\ mem' = mem /\ received' = received /\ mover' = mover /\ m \notin D!ToSet(redis)
    BY <1>9 DEF D!ListExpires, D!chanVars
  <2>2. ~D!Contains(redis, m)
    BY <1>0, <2>1, ToSetIs
  <2> QED BY <2>1, <2>2 DEF D!Somewhere, D!InHand
<1>5. CASE D!Receive
  <2>1. /\ mem # <<>> /\ mem' = Tail(mem) /\ redis' = redis /\ mover' = mover
        /\ received' = [received EXCEPT ![Head(mem)] = @ + 1]
    BY <1>5 DEF D!Receive
  <2>2. D!Contains(mem, m) => Head(mem) = m \/ D!Contains(mem', m)
    BY <1>0, <2>1, ContainsFacts
  <2>3. received'[m] = IF Head(mem) = m THEN received[m] + 1 ELSE received[m]
    BY <2>1 DEF ChannelTyped
  <2>4. received[m] \in Nat
    BY DEF ChannelTyped
  <2> QED BY <2>1, <2>2, <2>3, <2>4 DEF D!Somewhere, D!InHand
<1>6. CASE D!CloseBegin \/ D!CloseStep \/ UNCHANGED D!vars
  BY <1>6 DEF D!CloseBegin, D!CloseStep, D!CloseWorkers, D!ClosePool, D!CloseChannel, D!vars,
              D!Somewhere, D!InHand
<1>7. CASE D!Restart
  <2>1. /\ received' = received /\ D!InMemory \subseteq exposed'
        /\ \/ redis' = redis
           \/ \E n \in 0..Len(redis) : Recovered(n) \/ RecoveredButOne(n)
    BY <1>7, Recovery DEF D!Restart, ChannelTyped, Recovered, RecoveredButOne
  <2>2. received[m] > 0 \/ D!Contains(redis, m)
    <3>1. ~D!Contains(mem, m) /\ ~D!InHand(m)
      BY <1>0, <2>1, ToSetIs DEF D!InMemory, D!InHand
    <3> QED BY <3>1 DEF D!Somewhere
  <2>3. ASSUME NEW n \in 0..Len(redis), Recovered(n) \/ RecoveredButOne(n), D!Contains(redis, m)
        PROVE  D!Contains(mem', m) \/ D!Contains(redis', m)
    <3> DEFINE b == SubSeq(redis, n + 1, Len(redis))
    <3>1. b \in Seq(Messages)
      BY <1>0, ListFacts
    <3>2. D!Contains(mem', m) \/ D!Contains(b, m)
      BY <1>0, <2>3, CutContains DEF Recovered, RecoveredButOne
    <3>3. redis' = b \/ (b # <<>> /\ redis' = Tail(b) /\ Head(b) # m)
      BY <2>3 DEF Recovered, RecoveredButOne
    <3> HIDE DEF b
    <3> QED BY <3>1, <3>2, <3>3, ContainsFacts
  <2> QED BY <2>1, <2>2, <2>3 DEF D!Somewhere, D!Contains
<1> QED
  BY <1>1, <1>2, <1>3, <1>4, <1>5, <1>6, <1>7, <1>8, <1>9 DEF D!Next, D!WorkerStep

LEMMA MessagesKeptStep ==
  ASSUME ChannelTyped, D!NoMessage \notin Messages, BufferSize \in Nat, [D!Next]_(D!vars),
         MessagesKept
  PROVE  MessagesKept'
<1>0. /\ redis \in Seq(Messages) /\ mem \in Seq(Messages)
      /\ \A m \in Messages : D!Somewhere(m) /\ m \notin exposed' => D!Somewhere(m)'
      /\ exposed \subseteq exposed'
  BY SomewhereStays, ExposedGrows DEF ChannelTyped, ListsTyped
<1>1. mode' = mode
  BY DEF D!Next, D!vars, D!chanVars, D!SendStep, D!SendBegin, D!SendPersist,
         D!SendHybrid, D!SendEnter, D!SendAsync, D!SendSubmit, D!SendCancelled, D!PoolPersist,
         D!WorkerStep, D!WorkerPull, D!WorkerPush, D!WorkerStop, D!WorkerPullLost, D!Receive,
         D!CloseBegin, D!CloseStep, D!CloseWorkers, D!ClosePool, D!CloseChannel, D!Restart,
         D!ListExpires
<1>2. CASE \A m \in Messages : send'[m] \in {send[m], "error"}
  BY <1>0, <1>1, <1>2 DEF MessagesKept, Put
<1>3. ASSUME NEW m \in Messages, NEW l, send' = [send EXCEPT ![m] = l],
             /\ \/ l \in {"ok", "submit"}
                \/ l = "enter" /\ mode # "async"
             /\ m \notin exposed'
             => D!Somewhere(m)'
      PROVE  MessagesKept'
  <2>1. \A n \in Messages : send'[n] = IF n = m THEN l ELSE send[n]
    BY <1>3 DEF ChannelTyped
  <2> QED BY <1>0, <1>1, <1>3, <2>1 DEF MessagesKept, Put
<1>4. ASSUME NEW m \in Messages, D!SendStep(m) \/ D!SendCancelled(m) PROVE MessagesKept'
  <2>1. \A s \in Seq(Messages) : D!Contains(Append(s, m), m)
    BY ContainsFacts
  <2>2. D!Contains(redis', m) \/ D!Contains(mem', m) => D!Somewhere(m)'
    BY DEF D!Somewhere, D!Contains
  <2>3. CASE D!SendBegin(m)
    <3>1. PICK l \in {"error", "enter", "persist"} :
            send' = [send EXCEPT ![m] = l] /\ (l = "enter" => mode = "async")
      BY <2>3 DEF D!SendBegin, D!SendGoto
    <3> QED BY <1>3, <3>1
  <2>4. CASE D!SendPersist(m)
    BY <1>0, <1>3, <2>1, <2>2, <2>4 DEF D!SendPersist, D!SendGoto
  <2>5. CASE D!SendHybrid(m)
    BY <1>0, <1>1, <1>3, <2>5 DEF D!SendHybrid, D!SendGoto, D!OnSend, MessagesKept, Put
  <2>6. CASE D!SendEnter(m) \/ D!SendCancelled(m)
    BY <1>3, <2>6 DEF D!SendEnter, D!SendCancelled, D!SendGoto
  <2>7. CASE D!SendAsync(m)
    BY <1>0, <1>3, <2>1, <2>2, <2>7 DEF D!SendAsync, D!SendGoto
  <2>8. CASE D!SendSubmit(m)
    BY <1>0, <1>1, <1>3, <2>8 DEF D!SendSubmit, D!SendGoto, D!OnSend, MessagesKept, Put
  <2> QED
    BY <1>4, <2>3, <2>4, <2>5, <2>6, <2>7, <2>8 DEF D!SendStep
<1>5. CASE D!Restart
  <2>1. \A m \in Messages : send'[m] \in {send[m], "error"}
    BY <1>5 DEF D!Restart
  <2> QED BY <1>2, <2>1
<1>6. ~D!Restart /\ ~(\E m \in Messages : D!SendStep(m) \/ D!SendCancelled(m)) => send' = send
  BY DEF D!Next, D!vars, D!PoolPersist,
         D!WorkerStep, D!WorkerPull, D!WorkerPush, D!WorkerStop, D!WorkerPullLost, D!Receive,
         D!CloseBegin, D!CloseStep, D!CloseWorkers, D!ClosePool, D!CloseChannel, D!ListExpires
<1> QED BY <1>2, <1>4, <1>5, <1>6

(* What Send has accepted has been received or still can be: in every mode, whether or not
   the asynchronous persist jobs run, in whatever order workers, jobs and the application
   take turns, and across Close, crashes and restarts; unless a copy of that message was in
   memory at a crash, in a worker's hand at Close, popped by a command whose answer was
   lost, or in the list when it expired (durable_channel.go). *)
THEOREM AcceptedIsKept ==
  ASSUME BufferSize \in Nat, D!NoMessage \notin Messages
  PROVE  Spec => []AcceptedKept
<1>1. Init => ChannelTyped /\ MessagesKept
  <2> SUFFICES ASSUME D!Init PROVE ChannelTyped /\ MessagesKept
    BY DEF Init
  <2>1. ChannelTyped
    BY DEF D!Init, ChannelTyped, ListsTyped, MoverStates, SendStates
  <2>2. MessagesKept
    BY DEF D!Init, MessagesKept, Put
  <2> QED BY <2>1, <2>2
<1>2. ChannelTyped /\ MessagesKept /\ [Next]_vars => ChannelTyped' /\ MessagesKept'
  BY Steps, ChannelTypedStep, MessagesKeptStep
<1>3. MessagesKept => AcceptedKept
  BY DEF MessagesKept, Put, AcceptedKept, D!AcceptedKept
<1> QED BY <1>1, <1>2, <1>3, PTL DEF Spec

-----------------------------------------------------------------------------
(* DurableChannel: how many copies of a message there are. *)

(* Moving a finite set of numbers up does not change its size. *)
LEMMA Shifted ==
  ASSUME NEW S \in SUBSET Int, NEW n \in Int, NEW T, T = {i + n : i \in S}, IsFiniteSet(T)
  PROVE  IsFiniteSet(S) /\ Cardinality(S) = Cardinality(T)
<1> DEFINE f == [j \in T |-> j - n]
<1>1. f \in [T -> S]
  OBVIOUS
<1>2. \A a, b \in T : f[a] = f[b] => a = b
  OBVIOUS
<1>3. ASSUME NEW i \in S PROVE i + n \in T /\ f[i + n] = i
  <2>1. i + n \in T
    OBVIOUS
  <2>2. \A j \in T : f[j] = j - n
    OBVIOUS
  <2> HIDE DEF f
  <2>3. i \in Int /\ (i + n) - n = i
    OBVIOUS
  <2>4. f[i + n] = (i + n) - n
    BY <2>1, <2>2, Zenon
  <2> QED BY <2>1, <2>3, <2>4
<1> HIDE DEF f
<1>4. f \in Bijection(T, S)
  <2>1. f \in Injection(T, S)
    BY <1>1, <1>2 DEF Injection, IsInjective
  <2>2. f \in Surjection(T, S)
    BY <1>1, <1>3 DEF Surjection
  <2> QED BY <2>1, <2>2 DEF Bijection
<1>5. ExistsBijection(T, S)
  BY <1>4 DEF ExistsBijection
<1> QED BY <1>5, FS_Bijection

At(m, s) == {i \in 1..Len(s) : s[i] = m}

LEMMA SameSequence ==
  ASSUME NEW s \in Seq(Messages), NEW t \in Seq(Messages), Len(s) = Len(t),
         \A i \in 1..Len(s) : s[i] = t[i]
  PROVE  s = t
  OBVIOUS

LEMMA SameSingle ==
  ASSUME NEW s \in Seq(Messages), Len(s) = 1, NEW x \in Messages, s[1] = x
  PROVE  s = <<x>>
  OBVIOUS

LEMMA Occurring ==
  ASSUME NEW s \in Seq(Messages), NEW m
  PROVE  /\ IsFiniteSet(At(m, s)) /\ Cardinality(At(m, s)) \in Nat
         /\ D!Occurrences(m, s) = Cardinality(At(m, s))
<1>1. Len(s) \in Nat /\ DOMAIN s = 1..Len(s)
  OBVIOUS
<1>2. IsFiniteSet(1..Len(s))
  BY <1>1, FS_Interval
<1>3. IsFiniteSet(At(m, s))
  BY <1>2, FS_Subset DEF At
<1>4. Cardinality(At(m, s)) \in Nat
  BY <1>3, FS_CardinalityType
<1>5. D!Occurrences(m, s) = D!Cardinality(At(m, s))
  BY <1>1 DEF D!Occurrences, At
<1> QED BY <1>3, <1>4, <1>5, SameCardinalities

(* Cutting a list in two loses no occurrence and adds none. *)
LEMMA CutOccurrences ==
  ASSUME NEW s \in Seq(Messages), NEW m, NEW n \in 0..Len(s)
  PROVE  D!Occurrences(m, s) =
           D!Occurrences(m, SubSeq(s, 1, n)) + D!Occurrences(m, SubSeq(s, n + 1, Len(s)))
<1> DEFINE a == SubSeq(s, 1, n)
           b == SubSeq(s, n + 1, Len(s))
           low == {i \in 1..n : s[i] = m}
           high == {i \in (n + 1)..Len(s) : s[i] = m}
<1>1. Len(s) \in Nat /\ n \in Nat /\ n <= Len(s)
  OBVIOUS
<1>2. a \in Seq(Messages) /\ b \in Seq(Messages)
  BY ListFacts
<1>3. Len(a) = n /\ \A i \in 1..n : a[i] = s[i]
  OBVIOUS
<1>4. Len(b) = Len(s) - n /\ \A i \in 1..(Len(s) - n) : b[i] = s[i + n]
  BY <1>1
<1>5. At(m, a) = low
  BY <1>3 DEF At
<1> HIDE DEF a, b
<1>6. high = {i + n : i \in At(m, b)}
  <2>1. ASSUME NEW j \in high PROVE j - n \in At(m, b) /\ j = (j - n) + n
    BY <1>1, <1>4 DEF At
  <2>2. ASSUME NEW i \in At(m, b) PROVE i + n \in high
    BY <1>1, <1>4 DEF At
  <2> QED BY <2>1, <2>2
<1>7. IsFiniteSet(high)
  <2>1. IsFiniteSet((n + 1)..Len(s))
    BY <1>1, FS_Interval
  <2> QED BY <2>1, FS_Subset
<1>8. Cardinality(At(m, b)) = Cardinality(high)
  <2>1. At(m, b) \in SUBSET Int /\ n \in Int
    BY <1>1 DEF At
  <2> QED BY <1>6, <1>7, <2>1, Shifted
<1>9. At(m, s) = low \cup high /\ low \cap high = {}
  BY <1>1 DEF At
<1>10. IsFiniteSet(low)
  BY <1>2, <1>5, Occurring
<1>11. Cardinality(At(m, s)) = Cardinality(low) + Cardinality(high)
  <2>1. Cardinality(low \cup high)
          = Cardinality(low) + Cardinality(high) - Cardinality(low \cap high)
    BY <1>7, <1>10, FS_Union
  <2>2. Cardinality(low \cap high) = 0
    BY <1>9, FS_EmptySet
  <2>3. Cardinality(low) \in Nat /\ Cardinality(high) \in Nat
    BY <1>7, <1>10, FS_CardinalityType
  <2>4. Cardinality(low \cup high) = Cardinality(low) + Cardinality(high)
    BY <2>1, <2>2, <2>3
  <2> QED BY <1>9, <2>4
<1>12. /\ D!Occurrences(m, s) = Cardinality(At(m, s))
       /\ D!Occurrences(m, a) = Cardinality(At(m, a))
       /\ D!Occurrences(m, b) = Cardinality(At(m, b))
  BY <1>2, Occurring
<1>13. D!Occurrences(m, s) = D!Occurrences(m, a) + D!Occurrences(m, b)
  BY <1>5, <1>8, <1>11, <1>12
<1> QED BY <1>13 DEF a, b

One(b) == IF b THEN 1 ELSE 0

LEMMA OccurrenceFacts ==
  ASSUME NEW s \in Seq(Messages), NEW m
  PROVE  /\ D!Occurrences(m, s) \in Nat
         /\ D!Occurrences(m, <<>>) = 0
         /\ \A x \in Messages : D!Occurrences(m, Append(s, x)) = D!Occurrences(m, s) + One(x = m)
         /\ s # <<>> => D!Occurrences(m, s) = D!Occurrences(m, Tail(s)) + One(Head(s) = m)
<1>1. D!Occurrences(m, s) \in Nat
  BY Occurring
<1>2. D!Occurrences(m, <<>>) = 0
  <2>1. At(m, <<>>) = {} /\ <<>> \in Seq(Messages)
    BY DEF At
  <2> QED BY <2>1, Occurring, FS_EmptySet
<1>3. ASSUME NEW x \in Messages
      PROVE  D!Occurrences(m, <<x>>) = One(x = m)
  <2>1. <<x>> \in Seq(Messages) /\ Len(<<x>>) = 1 /\ <<x>>[1] = x
    OBVIOUS
  <2>2. 1..1 = {1}
    OBVIOUS
  <2>3. At(m, <<x>>) = IF x = m THEN {1} ELSE {}
    BY <2>1, <2>2 DEF At
  <2>4. Cardinality({1}) = 1 /\ Cardinality({}) = 0
    BY FS_Singleton, FS_EmptySet
  <2>5. D!Occurrences(m, <<x>>) = Cardinality(At(m, <<x>>))
    BY <2>1, Occurring
  <2> QED BY <2>3, <2>4, <2>5 DEF One
<1>4. ASSUME NEW x \in Messages
      PROVE  D!Occurrences(m, Append(s, x)) = D!Occurrences(m, s) + One(x = m)
  <2> DEFINE t == Append(s, x)
             n == Len(s)
  <2>1. t \in Seq(Messages) /\ n \in 0..Len(t) /\ n + 1 = Len(t)
    OBVIOUS
  <2>2. SubSeq(t, 1, n) = s
    <3>1. Len(SubSeq(t, 1, n)) = n /\ \A i \in 1..n : SubSeq(t, 1, n)[i] = s[i]
      OBVIOUS
    <3>2. SubSeq(t, 1, n) \in Seq(Messages)
      OBVIOUS
    <3> QED BY <3>1, <3>2, SameSequence
  <2>5. SubSeq(t, n + 1, Len(t)) = <<x>>
    <3>1. Len(SubSeq(t, n + 1, Len(t))) = 1 /\ SubSeq(t, n + 1, Len(t))[1] = x
      OBVIOUS
    <3>2. SubSeq(t, n + 1, Len(t)) \in Seq(Messages)
      OBVIOUS
    <3> QED BY <3>1, <3>2, SameSingle
  <2> HIDE DEF t, n
  <2>3. D!Occurrences(m, t) =
          D!Occurrences(m, SubSeq(t, 1, n)) + D!Occurrences(m, SubSeq(t, n + 1, Len(t)))
    BY <2>1, CutOccurrences
  <2>4. D!Occurrences(m, t) = D!Occurrences(m, s) + One(x = m)
    BY <1>3, <2>2, <2>3, <2>5
  <2> QED BY <2>4 DEF t
<1>5. ASSUME s # <<>>
      PROVE  D!Occurrences(m, s) = D!Occurrences(m, Tail(s)) + One(Head(s) = m)
  <2>1. 1 \in 0..Len(s) /\ Head(s) \in Messages /\ Tail(s) \in Seq(Messages)
    BY <1>5, ListFacts
  <2>2. SubSeq(s, 1, 1) = <<Head(s)>>
    <3>1. Len(SubSeq(s, 1, 1)) = 1 /\ SubSeq(s, 1, 1)[1] = Head(s)
      BY <1>5
    <3>2. SubSeq(s, 1, 1) \in Seq(Messages)
      BY <2>1
    <3> QED BY <2>1, <3>1, <3>2, SameSingle
  <2>6. SubSeq(s, 1 + 1, Len(s)) = Tail(s)
    <3>1. Len(s) \in Nat /\ Len(s) >= 1
      BY <1>5
    <3>3. Len(Tail(s)) = Len(s) - 1 /\ \A i \in 1..(Len(s) - 1) : Tail(s)[i] = s[i + 1]
      BY <1>5
    <3>4. /\ Len(SubSeq(s, 1 + 1, Len(s))) = Len(s) - 1
          /\ \A i \in 1..(Len(s) - 1) : SubSeq(s, 1 + 1, Len(s))[i] = s[i + 1]
      <4>1. \A n \in 0..Len(s) :
              /\ Len(SubSeq(s, n + 1, Len(s))) = Len(s) - n
              /\ \A i \in 1..(Len(s) - n) : SubSeq(s, n + 1, Len(s))[i] = s[i + n]
        BY <3>1
      <4>2. 1 \in 0..Len(s)
        BY <3>1
      <4> QED BY <4>1, <4>2, Zenon
    <3>2. SubSeq(s, 1 + 1, Len(s)) \in Seq(Messages)
      BY <2>1, ListFacts
    <3> QED BY <2>1, <3>2, <3>3, <3>4, SameSequence
  <2>3. D!Occurrences(m, s) =
          D!Occurrences(m, SubSeq(s, 1, 1)) + D!Occurrences(m, SubSeq(s, 1 + 1, Len(s)))
    BY <2>1, CutOccurrences
  <2>4. D!Occurrences(m, s) = One(Head(s) = m) + D!Occurrences(m, Tail(s))
    BY <1>3, <2>1, <2>2, <2>3, <2>6
  <2>5. D!Occurrences(m, Tail(s)) \in Nat /\ One(Head(s) = m) \in Nat
    BY <2>1, Occurring DEF One
  <2> QED BY <2>4, <2>5
<1> QED BY <1>1, <1>2, <1>4, <1>5

Holders(m) == {w \in Movers : mover[w].item = m}

(* What a Send under way may still add: the list and the buffer, one each. *)
Ahead(m) ==
  IF send[m] \in {"idle", "persist", "blocked"} THEN 2
  ELSE IF send[m] = "enter" THEN (IF mode = "async" THEN 2 ELSE 1)
  ELSE IF send[m] = "submit" THEN 1 ELSE 0

(* A Send that persists first is not an asynchronous one, and one that blocks is. *)
ModesKept ==
  \A m \in Messages : send[m] = "persist" => mode # "async"

(* The copies there are and the copies that a Send or a job can still make. *)
Total(m) ==
  received[m] + D!Occurrences(m, redis) + D!Occurrences(m, mem) + Cardinality(Holders(m))
CopiesInv ==
  \A m \in Messages : /\ IsFiniteSet(Holders(m))
                      /\ Total(m) + Ahead(m) + One(m \in pool) <= 2

LEMMA ModesKeptStep ==
  ASSUME ChannelTyped, ModesKept, [D!Next]_(D!vars)
  PROVE  ModesKept'
<1> USE DEF ChannelTyped, ModesKept, D!SendGoto, D!OnSend
<1>1. ASSUME NEW m \in Messages, D!SendStep(m) \/ D!SendCancelled(m) PROVE ModesKept'
  BY <1>1 DEF D!SendStep, D!SendBegin, D!SendPersist, D!SendHybrid, D!SendEnter, D!SendAsync,
              D!SendSubmit, D!SendCancelled
<1>2. CASE D!Restart
  BY <1>2 DEF D!Restart
<1>3. CASE send' = send /\ mode' = mode
  BY <1>3
<1>4. \/ \E m \in Messages : D!SendStep(m) \/ D!SendCancelled(m)
      \/ D!Restart
      \/ send' = send /\ mode' = mode
  BY DEF D!Next, D!vars, D!PoolPersist, D!WorkerStep, D!WorkerPull, D!WorkerPush, D!WorkerStop,
         D!WorkerPullLost, D!Receive, D!CloseBegin, D!CloseStep, D!CloseWorkers, D!ClosePool,
         D!CloseChannel, D!ListExpires
<1> HIDE DEF ChannelTyped, ModesKept, D!SendGoto, D!OnSend
<1> QED BY <1>1, <1>2, <1>3, <1>4

(* The four places a copy can be in are counted by natural numbers. *)
LEMMA TotalFacts ==
  ASSUME ChannelTyped, CopiesInv, NEW m \in Messages
  PROVE  /\ received[m] \in Nat /\ D!Occurrences(m, redis) \in Nat /\ D!Occurrences(m, mem) \in Nat
         /\ Cardinality(Holders(m)) \in Nat /\ IsFiniteSet(Holders(m))
         /\ Ahead(m) \in Nat /\ One(m \in pool) \in Nat
         /\ Total(m) + Ahead(m) + One(m \in pool) <= 2
<1>1. received[m] \in Nat /\ redis \in Seq(Messages) /\ mem \in Seq(Messages)
  BY DEF ChannelTyped, ListsTyped
<1>2. D!Occurrences(m, redis) \in Nat /\ D!Occurrences(m, mem) \in Nat
  BY <1>1, OccurrenceFacts
<1>3. IsFiniteSet(Holders(m))
  BY DEF CopiesInv
<1>4. Cardinality(Holders(m)) \in Nat
  BY <1>3, FS_CardinalityType
<1>5. Ahead(m) \in Nat /\ One(m \in pool) \in Nat
  BY DEF Ahead, One
<1>6. Total(m) + Ahead(m) + One(m \in pool) <= 2
  BY DEF CopiesInv
<1> QED BY <1>1, <1>2, <1>3, <1>4, <1>5, <1>6

(* A Send of n spends what it adds: what m may gain is m's only when n is m. *)
LEMMA SendCopies ==
  ASSUME ChannelTyped, CopiesInv, ModesKept, NEW n \in Messages, NEW m \in Messages,
         D!SendStep(n) \/ D!SendCancelled(n) \/ D!PoolPersist(n)
  PROVE  IsFiniteSet(Holders(m))' /\ (Total(m) + Ahead(m) + One(m \in pool) <= 2)'
<1>1. /\ redis \in Seq(Messages) /\ mem \in Seq(Messages)
      /\ \A s \in Seq(Messages) :
           D!Occurrences(m, Append(s, n)) = D!Occurrences(m, s) + One(n = m)
  BY OccurrenceFacts DEF ChannelTyped, ListsTyped
<1>2. received' = received /\ Holders(m)' = Holders(m) /\ mode' = mode
  BY DEF D!SendStep, D!SendBegin, D!SendPersist, D!SendHybrid, D!SendEnter, D!SendAsync,
         D!SendSubmit, D!SendCancelled, D!PoolPersist, Holders
<1> DEFINE r == D!Occurrences(m, redis)
           r1 == D!Occurrences(m, redis')
           e == D!Occurrences(m, mem)
           e1 == D!Occurrences(m, mem')
           a == Ahead(m)
           p == One(m \in pool)
<1>4. r1 + e1 + Ahead(m)' + One(m \in pool') <= r + e + a + p /\ r1 \in Nat /\ e1 \in Nat
  <2>1. r \in Nat /\ e \in Nat
    BY TotalFacts
  <2>2. /\ redis' = redis => r1 = r
        /\ redis' = Append(redis, n) => r1 = r + One(n = m)
        /\ mem' = mem => e1 = e
        /\ mem' = Append(mem, n) => e1 = e + One(n = m)
    BY <1>1
  <2>3. redis' \in {redis, Append(redis, n)} /\ mem' \in {mem, Append(mem, n)}
    BY DEF D!SendStep, D!SendBegin, D!SendPersist, D!SendHybrid, D!SendEnter, D!SendAsync,
           D!SendSubmit, D!SendCancelled, D!PoolPersist, D!chanVars
  <2>4. n # m => send'[m] = send[m] /\ (m \in pool' <=> m \in pool)
    BY DEF D!SendStep, D!SendBegin, D!SendPersist, D!SendHybrid, D!SendEnter, D!SendAsync,
           D!SendSubmit, D!SendCancelled, D!PoolPersist, D!chanVars, D!SendGoto, ChannelTyped
  <2>5. CASE n # m
    BY <1>2, <2>1, <2>2, <2>3, <2>4, <2>5 DEF Ahead, One
  <2> HIDE DEF r, r1, e, e1
  <2>6. CASE n = m
    <3>1. One(n = m) = 1
      BY <2>6 DEF One
    <3>2. n \in DOMAIN send
      BY DEF ChannelTyped
    <3> USE DEF D!SendGoto, D!OnSend, D!chanVars
    <3>3. CASE D!SendBegin(n) \/ D!SendEnter(n) \/ D!SendCancelled(n)
      <4>1. Ahead(m)' <= a /\ redis' = redis /\ mem' = mem /\ pool' = pool
        BY <1>2, <2>6, <3>2, <3>3 DEF D!SendBegin, D!SendEnter, D!SendCancelled, Ahead
      <4>2. Ahead(m)' \in Nat /\ a \in Nat /\ One(m \in pool) \in Nat
        BY DEF Ahead, One
      <4> QED BY <2>1, <2>2, <4>1, <4>2
    <3>4. CASE D!SendPersist(n)
      <4>1. send'[m] \in {"ok", "enter", "error"} /\ mem' = mem /\ pool' = pool
        BY <2>6, <3>2, <3>4 DEF D!SendPersist
      <4>2. send[m] = "persist" /\ mode # "async"
        BY <2>6, <3>4 DEF D!SendPersist, ModesKept
      <4>3. a = 2 /\ Ahead(m)' \in {0, 1} /\ One(m \in pool) \in Nat
        BY <1>2, <4>1, <4>2 DEF Ahead, One
      <4> QED BY <2>1, <2>2, <2>3, <3>1, <4>1, <4>3
    <3>5. CASE D!SendHybrid(n)
      <4>1. send'[m] \in {"ok", "error"} /\ redis' = redis /\ pool' = pool
        BY <2>6, <3>2, <3>5 DEF D!SendHybrid
      <4>2. a = 1 /\ Ahead(m)' = 0 /\ One(m \in pool) \in Nat
        BY <2>6, <3>5, <4>1 DEF D!SendHybrid, Ahead, One
      <4> QED BY <2>1, <2>2, <2>3, <3>1, <4>1, <4>2
    <3>6. CASE D!SendAsync(n)
      <4>1. send'[m] \in {"submit", "error"} /\ redis' = redis /\ pool' = pool
        BY <2>6, <3>2, <3>6 DEF D!SendAsync
      <4>2. a = 2 /\ Ahead(m)' \in {0, 1} /\ One(m \in pool) \in Nat
        BY <2>6, <3>6, <4>1 DEF D!SendAsync, Ahead, One
      <4> QED BY <2>1, <2>2, <2>3, <3>1, <4>1, <4>2
    <3>7. CASE D!SendSubmit(n)
      <4>1. send'[m] = "ok" /\ redis' = redis /\ mem' = mem
        BY <2>6, <3>2, <3>7 DEF D!SendSubmit
      <4>2. a = 1 /\ Ahead(m)' = 0 /\ One(m \in pool') \in {0, 1} /\ p \in Nat
        BY <2>6, <3>7, <4>1 DEF D!SendSubmit, Ahead, One
      <4>3. p = 1 => One(m \in pool') = 1
        BY <3>7 DEF D!SendSubmit, One
      <4> QED BY <2>1, <2>2, <4>1, <4>2, <4>3
    <3>8. CASE D!PoolPersist(n)
      <4>1. p = 1 /\ One(m \in pool') = 0 /\ mem' = mem
        BY <2>6, <3>8 DEF D!PoolPersist, One
      <4>2. Ahead(m)' = a /\ a \in Nat
        BY <1>2, <3>8 DEF D!PoolPersist, Ahead
      <4> QED BY <2>1, <2>2, <2>3, <3>1, <4>1, <4>2
    <3> QED BY <3>3, <3>4, <3>5, <3>6, <3>7, <3>8 DEF D!SendStep
  <2> QED BY <2>5, <2>6
<1>5. /\ Total(m) = received[m] + r + e + Cardinality(Holders(m))
      /\ Total(m)' = received[m] + r1 + e1 + Cardinality(Holders(m))
  BY <1>2 DEF Total, D!Occurrences
<1>6. Ahead(m)' \in Nat /\ One(m \in pool') \in Nat
  BY DEF Ahead, One
<1> HIDE DEF r, r1, e, e1, a, p
<1> QED BY <1>2, <1>4, <1>5, <1>6, TotalFacts DEF r, e, a, p

(* What is not Send moves copies from one place to the next. *)
LEMMA MoveCopies ==
  ASSUME ChannelTyped, CopiesInv, D!NoMessage \notin Messages, NEW m \in Messages,
         \/ \E w \in Movers : D!WorkerStep(w) \/ D!WorkerPullLost(w)
         \/ D!ListExpires \/ D!Receive \/ D!CloseBegin \/ D!CloseStep \/ UNCHANGED D!vars
  PROVE  IsFiniteSet(Holders(m))' /\ (Total(m) + Ahead(m) + One(m \in pool) <= 2)'
<1>1. /\ redis \in Seq(Messages) /\ mem \in Seq(Messages)
      /\ \A w \in Movers : /\ mover[w].pc = "push" => mover[w].item \in Messages
                           /\ mover[w].pc # "push" => mover[w].item = D!NoMessage
      /\ D!Pulling.item = D!NoMessage /\ D!Stopped.item = D!NoMessage
  BY DEF ChannelTyped, ListsTyped, MoverStates, D!Pulling, D!Stopped
<1>2. /\ \A s \in Seq(Messages), x \in Messages :
           D!Occurrences(m, Append(s, x)) = D!Occurrences(m, s) + One(x = m)
      /\ \A s \in Seq(Messages) :
           s # <<>> => D!Occurrences(m, s) = D!Occurrences(m, Tail(s)) + One(Head(s) = m)
  BY OccurrenceFacts
<1> DEFINE r == D!Occurrences(m, redis)
           r1 == D!Occurrences(m, redis')
           e == D!Occurrences(m, mem)
           e1 == D!Occurrences(m, mem')
           H == Holders(m)
           H1 == Holders(m)'
<1>3. SUFFICES /\ IsFiniteSet(H1)
               /\ received'[m] + r1 + e1 + Cardinality(H1) <= received[m] + r + e + Cardinality(H)
               /\ received'[m] + r1 + e1 + Cardinality(H1) \in Nat
  <2>1. Ahead(m)' = Ahead(m) /\ pool' = pool
    BY DEF D!WorkerStep, D!WorkerPull, D!WorkerPush, D!WorkerStop, D!WorkerPullLost, D!Receive,
           D!CloseBegin, D!CloseStep, D!CloseWorkers, D!ClosePool, D!CloseChannel, D!vars,
           D!ListExpires, D!chanVars, Ahead
  <2>2. /\ Total(m) = received[m] + r + e + Cardinality(H)
        /\ Total(m)' = received'[m] + r1 + e1 + Cardinality(H1)
    BY DEF Total, D!Occurrences
  <2> HIDE DEF r, r1, e, e1, H, H1
  <2>3. /\ r \in Nat /\ e \in Nat /\ Cardinality(H) \in Nat
        /\ Ahead(m) \in Nat /\ One(m \in pool) \in Nat /\ received[m] \in Nat
        /\ Total(m) + Ahead(m) + One(m \in pool) <= 2
    BY TotalFacts DEF r, e, H
  <2> QED BY <2>1, <2>2, <2>3 DEF H1
<1>4. /\ r \in Nat /\ e \in Nat /\ Cardinality(H) \in Nat /\ IsFiniteSet(H) /\ received[m] \in Nat
  BY TotalFacts
<1>5. ASSUME NEW w \in Movers, NEW l, mover' = [mover EXCEPT ![w] = l]
      PROVE  H1 = IF l.item = m THEN H \cup {w} ELSE H \ {w}
  BY <1>5 DEF Holders, ChannelTyped
<1>6. ASSUME NEW w \in Movers
      PROVE  /\ IsFiniteSet(H \cup {w}) /\ IsFiniteSet(H \ {w})
             /\ Cardinality(H \cup {w}) = IF w \in H THEN Cardinality(H) ELSE Cardinality(H) + 1
             /\ Cardinality(H \ {w}) = IF w \in H THEN Cardinality(H) - 1 ELSE Cardinality(H)
  <2>1. IsFiniteSet(H \cup {w})
          /\ Cardinality(H \cup {w}) = IF w \in H THEN Cardinality(H) ELSE Cardinality(H) + 1
    BY <1>4, FS_AddElement
  <2>2. IsFiniteSet(H \ {w})
          /\ Cardinality(H \ {w}) = IF w \in H THEN Cardinality(H) - 1 ELSE Cardinality(H)
    BY <1>4, FS_RemoveElement
  <2> QED BY <2>1, <2>2
<1>14. \A w \in Movers : w \in H <=> mover[w].item = m
  BY DEF Holders
<1>7. /\ redis' = redis => r1 = r
      /\ mem' = mem => e1 = e
      /\ mover' = mover => H1 = H
      /\ redis # <<>> /\ redis' = Tail(redis) =>
           r1 \in Nat /\ r = IF Head(redis) = m THEN r1 + 1 ELSE r1
      /\ mem # <<>> /\ mem' = Tail(mem) =>
           e1 \in Nat /\ e = IF Head(mem) = m THEN e1 + 1 ELSE e1
      /\ \A x \in Messages : mem' = Append(mem, x) => e1 = IF x = m THEN e + 1 ELSE e
      /\ redis' = <<>> => r1 = 0
  <2>1. mover' = mover => H1 = H
    BY DEF Holders
  <2>2. ASSUME NEW s \in Seq(Messages), s # <<>>
        PROVE  /\ D!Occurrences(m, Tail(s)) \in Nat
               /\ D!Occurrences(m, s) = IF Head(s) = m THEN D!Occurrences(m, Tail(s)) + 1
                                         ELSE D!Occurrences(m, Tail(s))
    <3>1. Tail(s) \in Seq(Messages)
      BY <2>2, ListFacts
    <3>2. D!Occurrences(m, Tail(s)) \in Nat
      BY <3>1, OccurrenceFacts
    <3>3. D!Occurrences(m, s) = D!Occurrences(m, Tail(s)) + One(Head(s) = m)
      BY <1>2, <2>2
    <3> QED BY <3>2, <3>3 DEF One
  <2>3. ASSUME NEW x \in Messages, mem' = Append(mem, x)
        PROVE  e1 = IF x = m THEN e + 1 ELSE e
    <3>1. e1 = e + One(x = m)
      BY <1>1, <1>2, <2>3
    <3> QED BY <1>4, <3>1 DEF One
  <2>4. ASSUME redis # <<>>, redis' = Tail(redis)
        PROVE  r1 \in Nat /\ r = IF Head(redis) = m THEN r1 + 1 ELSE r1
    BY <1>1, <2>2, <2>4
  <2>5. ASSUME mem # <<>>, mem' = Tail(mem)
        PROVE  e1 \in Nat /\ e = IF Head(mem) = m THEN e1 + 1 ELSE e1
    BY <1>1, <2>2, <2>5
  <2>6. (redis' = redis => r1 = r) /\ (mem' = mem => e1 = e)
    OBVIOUS
  <2>7. redis' = <<>> => r1 = 0
    BY <1>1, OccurrenceFacts
  <2> QED BY <2>1, <2>3, <2>4, <2>5, <2>6, <2>7
<1> HIDE DEF r, r1, e, e1, H, H1
<1>8. ASSUME NEW w \in Movers, D!WorkerPull(w) PROVE <1>3!1
  <2>1. /\ redis # <<>> /\ redis' = Tail(redis) /\ mem' = mem /\ received' = received
        /\ mover' = [mover EXCEPT ![w] = [pc |-> "push", item |-> Head(redis)]]
        /\ mover[w].pc = "pull"
    BY <1>8 DEF D!WorkerPull, D!chanVars
  <2>2. H1 = IF Head(redis) = m THEN H \cup {w} ELSE H \ {w}
    <3>1. [pc |-> "push", item |-> Head(redis)].item = Head(redis)
      OBVIOUS
    <3> QED BY <1>5, <2>1, <3>1
  <2>3. w \notin H
    BY <1>1, <1>14, <2>1
  <2>4. e1 = e /\ r1 \in Nat /\ r = IF Head(redis) = m THEN r1 + 1 ELSE r1
    BY <1>7, <2>1
  <2>5. IsFiniteSet(H1) /\ Cardinality(H1) = Cardinality(H) + (r - r1)
    <3>1. CASE Head(redis) = m
      <4>1. H1 = H \cup {w} /\ r - r1 = 1
        BY <2>2, <2>4, <3>1
      <4>2. IsFiniteSet(H \cup {w}) /\ Cardinality(H \cup {w}) = Cardinality(H) + 1
        BY <1>6, <2>3
      <4> QED BY <4>1, <4>2
    <3>2. CASE Head(redis) # m
      <4>1. H1 = H \ {w} /\ r - r1 = 0
        BY <2>2, <2>4, <3>2
      <4>2. IsFiniteSet(H \ {w}) /\ Cardinality(H \ {w}) = Cardinality(H)
        BY <1>6, <2>3
      <4> QED BY <1>4, <4>1, <4>2
    <3> QED BY <3>1, <3>2
  <2>6. received'[m] = received[m]
    BY <2>1
  <2> QED BY ONLY <1>4, <2>4, <2>5, <2>6
<1>9. ASSUME NEW w \in Movers, D!WorkerPush(w) PROVE <1>3!1
  <2>1. /\ redis' = redis /\ received' = received /\ mover[w].item \in Messages
        /\ \/ mem' = Append(mem, mover[w].item) /\ mover' = [mover EXCEPT ![w] = D!Pulling]
           \/ mem' = mem /\ mover' = [mover EXCEPT ![w] = D!Stopped]
    BY <1>1, <1>9 DEF D!WorkerPush
  <2>2. H1 = H \ {w}
    BY <1>1, <1>5, <2>1
  <2>3. w \in H => Cardinality(H) > 0
    <3>1. H # {} => Cardinality(H) # 0
      BY <1>4, FS_EmptySet
    <3> QED BY <1>4, <3>1
  <2>4. w \in H <=> mover[w].item = m
    BY <1>14
  <2>5. r1 = r /\ e1 \in {e, IF mover[w].item = m THEN e + 1 ELSE e}
    BY <1>7, <2>1
  <2>6. /\ IsFiniteSet(H \ {w})
        /\ Cardinality(H \ {w}) = IF mover[w].item = m THEN Cardinality(H) - 1 ELSE Cardinality(H)
    BY <1>6, <2>4
  <2>7. received'[m] = received[m] /\ Cardinality(H1) = Cardinality(H \ {w}) /\ IsFiniteSet(H1)
    BY <2>1, <2>2, <2>6
  <2> QED BY <1>4, <2>3, <2>4, <2>5, <2>6, <2>7
<1>10. ASSUME NEW w \in Movers, D!WorkerStop(w) PROVE <1>3!1
  <2>1. /\ redis' = redis /\ mem' = mem /\ received' = received
        /\ mover' = [mover EXCEPT ![w] = D!Stopped] /\ mover[w].pc = "pull"
    BY <1>10 DEF D!WorkerStop, D!chanVars
  <2>2. H1 = H \ {w}
    BY <1>1, <1>5, <2>1
  <2>3. w \notin H
    BY <1>1, <1>14, <2>1
  <2>4. r1 = r /\ e1 = e
    BY <1>7, <2>1
  <2>5. IsFiniteSet(H \ {w}) /\ Cardinality(H \ {w}) = Cardinality(H)
    BY <1>6, <2>3
  <2>6. received'[m] = received[m]
    BY <2>1
  <2> QED BY ONLY <1>4, <2>2, <2>4, <2>5, <2>6
<1>11. ASSUME NEW w \in Movers, D!WorkerPullLost(w) PROVE <1>3!1
  <2>1. /\ redis # <<>> /\ redis' = Tail(redis) /\ mem' = mem /\ received' = received
        /\ mover' = mover
    BY <1>11 DEF D!WorkerPullLost, D!chanVars
  <2>2. e1 = e /\ H1 = H /\ r1 \in Nat /\ r = IF Head(redis) = m THEN r1 + 1 ELSE r1
    BY <1>7, <2>1
  <2>3. received'[m] = received[m]
    BY <2>1
  <2> QED BY ONLY <1>4, <2>2, <2>3
<1>12. CASE D!Receive
  <2>1. /\ mem # <<>> /\ mem' = Tail(mem) /\ redis' = redis /\ mover' = mover
        /\ received' = [received EXCEPT ![Head(mem)] = @ + 1]
    BY <1>12 DEF D!Receive
  <2>2. received'[m] = IF Head(mem) = m THEN received[m] + 1 ELSE received[m]
    BY <2>1 DEF ChannelTyped
  <2>3. r1 = r /\ H1 = H /\ e1 \in Nat /\ e = IF Head(mem) = m THEN e1 + 1 ELSE e1
    BY <1>7, <2>1
  <2> QED BY <1>4, <2>2, <2>3
<1>13. CASE D!CloseBegin \/ D!CloseStep \/ UNCHANGED D!vars
  <2>1. redis' = redis /\ mem' = mem /\ mover' = mover /\ received' = received
    BY <1>13 DEF D!CloseBegin, D!CloseStep, D!CloseWorkers, D!ClosePool, D!CloseChannel, D!vars
  <2>2. r1 = r /\ e1 = e /\ H1 = H /\ received'[m] = received[m]
    BY <1>7, <2>1
  <2> QED BY ONLY <1>4, <2>2
<1>15. CASE D!ListExpires
  <2>1. redis' = <<>> /\ mem' = mem /\ mover' = mover /\ received' = received
    BY <1>15 DEF D!ListExpires, D!chanVars
  <2>2. r1 = 0 /\ e1 = e /\ H1 = H /\ received'[m] = received[m]
    BY <1>7, <2>1
  <2> QED BY ONLY <1>4, <2>2
<1> QED BY <1>8, <1>9, <1>10, <1>11, <1>12, <1>13, <1>15 DEF D!WorkerStep

(* A crash loses the memory and the workers; what recovery moves it takes from the list. *)
LEMMA RestartCopies ==
  ASSUME ChannelTyped, CopiesInv, BufferSize \in Nat, D!NoMessage \notin Messages,
         NEW m \in Messages, D!Restart
  PROVE  IsFiniteSet(Holders(m))' /\ (Total(m) + Ahead(m) + One(m \in pool) <= 2)'
<1>1. redis \in Seq(Messages) /\ Len(redis) \in Nat /\ <<>> \in Seq(Messages)
  BY DEF ChannelTyped, ListsTyped
<1>2. Holders(m)' = {}
  BY DEF D!Restart, Holders, D!Pulling, D!Stopped
<1>3. IsFiniteSet({}) /\ Cardinality({}) = 0
  BY FS_EmptySet
<1>4. D!Occurrences(m, redis') + D!Occurrences(m, mem') <= D!Occurrences(m, redis)
  <2>1. \/ redis' = redis /\ mem' = <<>>
        \/ \E n \in 0..Len(redis) : Recovered(n) \/ RecoveredButOne(n)
    BY Recovery DEF D!Restart, ChannelTyped
  <2>2. CASE redis' = redis /\ mem' = <<>>
    <3>1. D!Occurrences(m, redis) \in Nat /\ D!Occurrences(m, <<>>) = 0
      BY <1>1, OccurrenceFacts
    <3> QED BY <2>2, <3>1
  <2>3. ASSUME NEW n \in 0..Len(redis), Recovered(n) \/ RecoveredButOne(n)
        PROVE  <1>4
    <3>1. SubSeq(redis, 1, n) \in Seq(Messages) /\ SubSeq(redis, n + 1, Len(redis)) \in Seq(Messages)
      BY <1>1, ListFacts
    <3>2. /\ D!Occurrences(m, SubSeq(redis, 1, n)) \in Nat
          /\ D!Occurrences(m, SubSeq(redis, n + 1, Len(redis))) \in Nat
      BY <3>1, Occurring
    <3>3. D!Occurrences(m, redis) =
            D!Occurrences(m, SubSeq(redis, 1, n)) + D!Occurrences(m, SubSeq(redis, n + 1, Len(redis)))
      BY <1>1, CutOccurrences
    <3>4. ASSUME NEW s \in Seq(Messages), s # <<>>
          PROVE  D!Occurrences(m, Tail(s)) \in Nat /\ D!Occurrences(m, Tail(s)) <= D!Occurrences(m, s)
      <4>1. Tail(s) \in Seq(Messages)
        BY <3>4, ListFacts
      <4>2. D!Occurrences(m, Tail(s)) \in Nat
        BY <4>1, OccurrenceFacts
      <4>3. D!Occurrences(m, s) = D!Occurrences(m, Tail(s)) + One(Head(s) = m)
        BY <3>4, OccurrenceFacts
      <4> QED BY <4>2, <4>3 DEF One
    <3>5. CASE Recovered(n)
      BY <3>2, <3>3, <3>5 DEF Recovered
    <3>6. CASE RecoveredButOne(n)
      <4>1. /\ D!Occurrences(m, redis') \in Nat
            /\ D!Occurrences(m, redis') <= D!Occurrences(m, SubSeq(redis, n + 1, Len(redis)))
        BY <3>1, <3>4, <3>6 DEF RecoveredButOne
      <4>2. mem' = SubSeq(redis, 1, n)
        BY <3>6 DEF RecoveredButOne
      <4> QED BY <3>2, <3>3, <4>1, <4>2
    <3> QED BY <2>3, <3>5, <3>6
  <2> QED BY <2>1, <2>2, <2>3
<1>5. received' = received /\ Ahead(m)' <= Ahead(m) /\ Ahead(m)' \in Nat /\ One(m \in pool') = 0
  BY DEF D!Restart, Ahead, One
<1>6. /\ redis' \in Seq(Messages) /\ mem' \in Seq(Messages)
  BY ListsTypedStep DEF D!Next, ListsTyped
<1>7. /\ D!Occurrences(m, redis') \in Nat /\ D!Occurrences(m, mem') \in Nat
  BY <1>6, Occurring
<1>8. /\ Total(m) = received[m] + D!Occurrences(m, redis) + D!Occurrences(m, mem)
                      + Cardinality(Holders(m))
      /\ Total(m)' = received[m] + D!Occurrences(m, redis') + D!Occurrences(m, mem') + 0
  BY <1>2, <1>3, <1>5 DEF Total, D!Occurrences
<1> QED BY <1>2, <1>3, <1>4, <1>5, <1>7, <1>8, TotalFacts

(* A message is never more than twice in the list, the buffer, the hands of the workers and
   what the application has received together: whatever the mode, and across any number of
   crashes, restarts and Redis commands that fail or whose reply is lost
   (durable_channel.go). *)
THEOREM NoThirdCopy ==
  ASSUME BufferSize \in Nat, D!NoMessage \notin Messages
  PROVE  Spec => []AtMostTwoCopies
<1> DEFINE Inv == ChannelTyped /\ ModesKept /\ CopiesInv
<1>1. Init => Inv
  <2> SUFFICES ASSUME D!Init PROVE Inv
    BY DEF Init
  <2>1. ChannelTyped
    BY DEF D!Init, ChannelTyped, ListsTyped, MoverStates, SendStates
  <2>2. ModesKept
    BY DEF D!Init, ModesKept
  <2>3. ASSUME NEW m \in Messages
        PROVE  IsFiniteSet(Holders(m)) /\ Total(m) + Ahead(m) + One(m \in pool) <= 2
    <3>1. Holders(m) = {}
      BY DEF D!Init, Holders, D!Pulling, D!Stopped
    <3>2. received[m] = 0 /\ redis = <<>> /\ mem = <<>> /\ Ahead(m) = 2 /\ One(m \in pool) = 0
      BY DEF D!Init, Ahead, One
    <3>3. D!Occurrences(m, <<>>) = 0
      <4>1. <<>> \in Seq(Messages)
        OBVIOUS
      <4> QED BY <4>1, OccurrenceFacts
    <3> QED BY <3>1, <3>2, <3>3, FS_EmptySet DEF Total
  <2> QED BY <2>1, <2>2, <2>3 DEF CopiesInv
<1>2. Inv /\ [Next]_vars => Inv'
  <2> SUFFICES ASSUME Inv, [D!Next]_(D!vars) PROVE Inv'
    BY Steps
  <2>1. ChannelTyped' /\ ModesKept'
    BY ChannelTypedStep, ModesKeptStep
  <2>2. ASSUME NEW m \in Messages
        PROVE  IsFiniteSet(Holders(m))' /\ (Total(m) + Ahead(m) + One(m \in pool) <= 2)'
    BY SendCopies, MoveCopies, RestartCopies DEF D!Next
  <2> QED BY <2>1, <2>2 DEF CopiesInv
<1>3. Inv => AtMostTwoCopies
  <2> SUFFICES ASSUME Inv, NEW m \in Messages
               PROVE  received[m] + D!Occurrences(m, redis) + D!Occurrences(m, mem)
                        + D!Cardinality(Holders(m)) <= 2
    BY DEF AtMostTwoCopies, D!AtMostTwoCopies, Holders
  <2> QED BY TotalFacts, SameCardinalities DEF Total
<1> QED BY <1>1, <1>2, <1>3, PTL DEF Spec

-----------------------------------------------------------------------------
(* QueueHandler: who is given what, in which order, and how often. *)

WorkerStates ==
  [at : {"idle", "in", "zrem", "work"}, seen : SUBSET Q!Attempts, hand : SUBSET Q!Attempts]
QueueTyped ==
  /\ type \in Types /\ locking \in BOOLEAN /\ lapsed \in BOOLEAN
  /\ queue \in Seq(Q!Attempts) /\ arrived \in Seq(Q!Attempts) /\ failed \in Seq(Q!Attempts)
  /\ delay \in SUBSET [item : Q!Attempts, due : BOOLEAN]
  /\ lock \in Workers \cup {NoWorker}
  /\ worker \in [Workers -> WorkerStates]
  /\ times \in [Q!Attempts -> Nat]

(* Sequences of attempts: what is added at an end, and what is taken out. *)
LEMMA AttemptLists ==
  ASSUME NEW s \in Seq(Q!Attempts), NEW x \in Q!Attempts
  PROVE  /\ Len(s) \in Nat /\ \A k \in 1..Len(s) : s[k] \in Q!Attempts
         /\ Append(s, x) \in Seq(Q!Attempts) /\ <<x>> \o s \in Seq(Q!Attempts)
         /\ Len(Append(s, x)) = Len(s) + 1 /\ Len(<<x>> \o s) = Len(s) + 1
         /\ \A k \in 1..Len(s) : Append(s, x)[k] = s[k] /\ (<<x>> \o s)[k + 1] = s[k]
         /\ Append(s, x)[Len(s) + 1] = x /\ (<<x>> \o s)[1] = x
<1>1. Len(s) \in Nat /\ \A k \in 1..Len(s) : s[k] \in Q!Attempts
  OBVIOUS
<1>2. /\ Append(s, x) \in Seq(Q!Attempts) /\ Len(Append(s, x)) = Len(s) + 1
      /\ \A k \in 1..Len(s) : Append(s, x)[k] = s[k]
      /\ Append(s, x)[Len(s) + 1] = x
  OBVIOUS
<1>3. <<x>> \in Seq(Q!Attempts) /\ Len(<<x>>) = 1 /\ <<x>>[1] = x
  OBVIOUS
<1>4. <<x>> \o s \in Seq(Q!Attempts) /\ Len(<<x>> \o s) = Len(s) + 1
  BY <1>3
<1>5. (<<x>> \o s)[1] = x /\ \A k \in 1..Len(s) : (<<x>> \o s)[k + 1] = s[k]
  BY <1>1, <1>3
<1> QED BY <1>1, <1>2, <1>4, <1>5

(* What SubSeq leaves of a sequence at either end. *)
LEMMA Ends ==
  ASSUME NEW S, NEW s \in Seq(S), NEW n \in 0..Len(s)
  PROVE  /\ SubSeq(s, 1, n) \in Seq(S) /\ Len(SubSeq(s, 1, n)) = n
         /\ \A k \in 1..n : SubSeq(s, 1, n)[k] = s[k]
         /\ SubSeq(s, n + 1, Len(s)) \in Seq(S) /\ Len(SubSeq(s, n + 1, Len(s))) = Len(s) - n
         /\ \A k \in 1..(Len(s) - n) : SubSeq(s, n + 1, Len(s))[k] = s[k + n]
<1>1. Len(s) \in Nat /\ n \in Nat /\ n <= Len(s)
  OBVIOUS
<1>2. SubSeq(s, 1, n) \in Seq(S) /\ SubSeq(s, n + 1, Len(s)) \in Seq(S)
  OBVIOUS
<1>3. Len(SubSeq(s, 1, n)) = n /\ \A k \in 1..n : SubSeq(s, 1, n)[k] = s[k]
  OBVIOUS
<1>4. /\ Len(SubSeq(s, n + 1, Len(s))) = Len(s) - n
      /\ \A k \in 1..(Len(s) - n) : SubSeq(s, n + 1, Len(s))[k] = s[k + n]
  BY <1>1
<1> QED BY <1>2, <1>3, <1>4

(* The sequence without its i-th element. *)
LEMMA Without ==
  ASSUME NEW S, NEW s \in Seq(S), NEW i \in 1..Len(s), NEW left, left = Q!RemoveAt(s, i)
  PROVE  /\ left \in Seq(S) /\ Len(left) = Len(s) - 1
         /\ \A k \in 1..(Len(s) - 1) : left[k] = s[IF k < i THEN k ELSE k + 1]
<1> DEFINE a == SubSeq(s, 1, i - 1)
           b == SubSeq(s, i + 1, Len(s))
<1>1. Len(s) \in Nat /\ i \in 0..Len(s) /\ i - 1 \in 0..Len(s) /\ i > 0
  OBVIOUS
<1>2. a \in Seq(S) /\ Len(a) = i - 1 /\ \A k \in 1..(i - 1) : a[k] = s[k]
  BY <1>1, Ends
<1>3. b \in Seq(S) /\ Len(b) = Len(s) - i /\ \A k \in 1..(Len(s) - i) : b[k] = s[k + i]
  BY <1>1, Ends
<1>4. left = a \o b
  BY DEF Q!RemoveAt
<1> HIDE DEF a, b
<1>5. left \in Seq(S) /\ Len(left) = Len(s) - 1
  <2>1. a \o b \in Seq(S)
    BY <1>2, <1>3
  <2>2. Len(a \o b) = Len(a) + Len(b)
    <3>1. ASSUME NEW x \in Seq(S), NEW y \in Seq(S) PROVE Len(x \o y) = Len(x) + Len(y)
      OBVIOUS
    <3> QED BY <1>2, <1>3, <3>1, Zenon
  <2>3. (i - 1) + (Len(s) - i) = Len(s) - 1
    BY <1>1
  <2>4. Len(a) + Len(b) = Len(s) - 1
    BY <1>2, <1>3, <2>3
  <2> QED BY <1>4, <2>1, <2>2, <2>4
<1>6. ASSUME NEW k \in 1..(Len(s) - 1)
      PROVE  left[k] = s[IF k < i THEN k ELSE k + 1]
  <2>1. CASE k < i
    BY <1>1, <1>2, <1>3, <1>4, <2>1
  <2>2. CASE ~(k < i)
    <3>1. k - (i - 1) \in 1..(Len(s) - i) /\ (k - (i - 1)) + i = k + 1
      BY <1>1, <2>2
    <3>2. left[k] = b[k - (i - 1)]
      BY <1>1, <1>2, <1>3, <1>4, <2>2
    <3>3. b[k - (i - 1)] = s[(k - (i - 1)) + i]
      BY <1>3, <3>1
    <3> QED BY <2>2, <3>1, <3>2, <3>3
  <2> QED BY <2>1, <2>2
<1> QED BY <1>5, <1>6

(* What a command leaves of the queue is the queue without what it takes, in the old order;
   g says where it was, and T where the rest was. *)
Cut(pop, g, T) ==
  /\ g \in [1..Len(pop.left) -> 1..Len(queue)] /\ T \in SUBSET (1..Len(queue))
  /\ \A k, l \in 1..Len(pop.left) : k < l => g[k] < g[l]
  /\ \A k \in 1..Len(pop.left) : pop.left[k] = queue[g[k]] /\ g[k] \notin T
  /\ pop.taken = {queue[t] : t \in T}
  /\ \A p \in 1..Len(queue) : p \in T \/ \E k \in 1..Len(pop.left) : g[k] = p
  /\ type # "priority" => \A t \in T, k \in 1..Len(pop.left) : t < g[k]
  /\ type = "priority" => T \subseteq Q!Greatest

LEMMA PoppedCuts ==
  ASSUME queue \in Seq(Q!Attempts), NEW n \in 1..Len(queue), NEW pop \in Q!Popped(n)
  PROVE  /\ pop.left \in Seq(Q!Attempts) /\ pop.taken \in SUBSET Q!Attempts
         /\ \E g, T : Cut(pop, g, T)
<1>1. Len(queue) \in Nat /\ DOMAIN queue = 1..Len(queue)
  OBVIOUS
<1>2. CASE type # "priority"
  <2> DEFINE left == SubSeq(queue, n + 1, Len(queue))
             g == [k \in 1..(Len(queue) - n) |-> k + n]
             T == 1..n
  <2>1. pop = [taken |-> {queue[i] : i \in 1..n}, left |-> left]
    BY <1>2 DEF Q!Popped
  <2>2. /\ left \in Seq(Q!Attempts) /\ Len(left) = Len(queue) - n
        /\ \A k \in 1..(Len(queue) - n) : left[k] = queue[k + n]
    <3>1. n \in 0..Len(queue)
      BY <1>1
    <3>2. /\ SubSeq(queue, n + 1, Len(queue)) \in Seq(Q!Attempts)
          /\ Len(SubSeq(queue, n + 1, Len(queue))) = Len(queue) - n
          /\ \A k \in 1..(Len(queue) - n) : SubSeq(queue, n + 1, Len(queue))[k] = queue[k + n]
      BY <3>1, Ends, Zenon
    <3> QED BY <3>2, Zenon
  <2>3. pop.taken = {queue[i] : i \in T} /\ pop.left = left
    BY <2>1
  <2>4. /\ g \in [1..(Len(queue) - n) -> 1..Len(queue)] /\ T \in SUBSET (1..Len(queue))
        /\ \A k \in 1..(Len(queue) - n) : g[k] = k + n
    BY <1>1
  <2>5. \A p \in 1..Len(queue) : p \in T \/ \E k \in 1..(Len(queue) - n) : k + n = p
    <3>1. ASSUME NEW p \in 1..Len(queue), p \notin T
          PROVE  p - n \in 1..(Len(queue) - n) /\ (p - n) + n = p
      BY <1>1, <3>1
    <3> QED BY <3>1
  <2>6. pop.taken \in SUBSET Q!Attempts
    BY <2>3, <2>4
  <2> HIDE DEF g, left
  <2>8. Len(pop.left) = Len(queue) - n
    BY <2>2, <2>3
  <2>9. \A k \in 1..(Len(queue) - n) : g[k] \notin T /\ \A t \in T : t < g[k]
    BY <1>1, <2>4
  <2>10. \A k, l \in 1..(Len(queue) - n) : k < l => g[k] < g[l]
    BY <1>1, <2>4
  <2>11. \A k \in 1..(Len(queue) - n) : pop.left[k] = queue[g[k]]
    BY <2>2, <2>3, <2>4
  <2>12. \A p \in 1..Len(queue) : p \in T \/ \E k \in 1..(Len(queue) - n) : g[k] = p
    BY <2>4, <2>5
  <2> HIDE DEF T
  <2>7. Cut(pop, g, T)
    BY <1>2, <2>3, <2>4, <2>8, <2>9, <2>10, <2>11, <2>12 DEF Cut
  <2> QED BY <2>2, <2>3, <2>6, <2>7
<1>3. CASE type = "priority"
  <2>1. PICK i \in Q!Greatest : pop = [taken |-> {queue[i]}, left |-> Q!RemoveAt(queue, i)]
    BY <1>3 DEF Q!Popped
  <2>2. i \in 1..Len(queue)
    BY <1>1 DEF Q!Greatest
  <2> DEFINE left == Q!RemoveAt(queue, i)
             g == [k \in 1..(Len(queue) - 1) |-> IF k < i THEN k ELSE k + 1]
             T == {i}
  <2>6. /\ left \in Seq(Q!Attempts) /\ Len(left) = Len(queue) - 1
        /\ \A k \in 1..(Len(queue) - 1) : left[k] = queue[IF k < i THEN k ELSE k + 1]
    BY <2>2, Without
  <2>7. /\ g \in [1..(Len(queue) - 1) -> 1..Len(queue)] /\ T \in SUBSET (1..Len(queue))
        /\ \A k \in 1..(Len(queue) - 1) : g[k] = IF k < i THEN k ELSE k + 1
    BY <1>1, <2>2
  <2>8. \A p \in 1..Len(queue) : p \in T \/ \E k \in 1..(Len(queue) - 1) : g[k] = p
    <3>1. ASSUME NEW p \in 1..Len(queue), p < i
          PROVE  p \in 1..(Len(queue) - 1) /\ g[p] = p
      BY <1>1, <2>2, <2>7, <3>1
    <3>2. ASSUME NEW p \in 1..Len(queue), i < p
          PROVE  p - 1 \in 1..(Len(queue) - 1) /\ g[p - 1] = p
      <4>1. p - 1 \in 1..(Len(queue) - 1) /\ ~(p - 1 < i) /\ (p - 1) + 1 = p
        BY <1>1, <2>2, <3>2
      <4> QED BY <2>7, <4>1
    <3>3. \A p \in 1..Len(queue) : p = i \/ p < i \/ i < p
      BY <1>1, <2>2
    <3> QED BY <3>1, <3>2, <3>3
  <2>9. pop.taken = {queue[t] : t \in T} /\ pop.left = left
    BY <2>1
  <2>10. pop.taken \in SUBSET Q!Attempts
    BY <2>2, <2>9
  <2> HIDE DEF g, left
  <2>11. \A k \in 1..(Len(queue) - 1) : g[k] \notin T
    BY <1>1, <2>2, <2>7
  <2>12. \A k, l \in 1..(Len(queue) - 1) : k < l => g[k] < g[l]
    BY <1>1, <2>2, <2>7
  <2>13. \A k \in 1..(Len(queue) - 1) : left[k] = queue[g[k]]
    BY <2>6, <2>7
  <2>14. Cut(pop, g, T)
    BY <1>3, <2>6, <2>7, <2>8, <2>9, <2>11, <2>12, <2>13 DEF Cut
  <2> QED BY <2>6, <2>9, <2>10, <2>14
<1> QED BY <1>2, <1>3

LEMMA AttemptFacts ==
  ASSUME MaxRetries \in Nat
  PROVE  /\ \A a \in Q!Attempts : /\ a.id \in Items /\ a.tries \in Nat /\ a.tries <= MaxRetries
                                  /\ a = [id |-> a.id, tries |-> a.tries]
         /\ \A i \in Items, n \in 0..MaxRetries :
              /\ [id |-> i, tries |-> n] \in Q!Attempts
              /\ [id |-> i, tries |-> n].id = i /\ [id |-> i, tries |-> n].tries = n
         /\ \A i \in Items : /\ Q!First(i) \in Q!Attempts
                             /\ Q!First(i).id = i /\ Q!First(i).tries = 0
  BY DEF Q!Attempts, Q!First

(* One worker changes, and the others do not. *)
LEMMA OneWorker ==
  ASSUME QueueTyped, NEW w \in Workers, NEW r \in WorkerStates,
         worker' = [worker EXCEPT ![w] = r]
  PROVE  /\ worker' \in [Workers -> WorkerStates]
         /\ worker'[w] = r /\ \A v \in Workers : v # w => worker'[v] = worker[v]
  BY DEF QueueTyped

LEMMA TakeEffect ==
  ASSUME QueueTyped, NEW w \in Workers, NEW as \in SUBSET Q!Attempts, Q!Take(w, as, "in")
  PROVE  /\ worker' \in [Workers -> WorkerStates]
         /\ worker'[w].at = "in" /\ worker'[w].seen = {}
         /\ worker'[w].hand = worker[w].hand \cup as
         /\ \A v \in Workers : v # w => worker'[v] = worker[v]
         /\ times' \in [Q!Attempts -> Nat]
         /\ \A a \in as : times'[a] = times[a] + 1
         /\ \A a \in Q!Attempts : a \notin as => times'[a] = times[a]
<1> DEFINE r == [at |-> "in", seen |-> {}, hand |-> worker[w].hand \cup as]
<1>1. worker' = [worker EXCEPT ![w] = r]
  BY DEF Q!Take, QueueTyped
<1>2. worker[w].hand \in SUBSET Q!Attempts
  BY DEF QueueTyped, WorkerStates
<1>3. r \in WorkerStates
  BY <1>2 DEF WorkerStates
<1>4. /\ times' \in [Q!Attempts -> Nat]
      /\ \A a \in as : times'[a] = times[a] + 1
      /\ \A a \in Q!Attempts : a \notin as => times'[a] = times[a]
  <2>1. times' = [a \in Q!Attempts |-> times[a] + (IF a \in as THEN 1 ELSE 0)]
    BY DEF Q!Take
  <2>2. \A a \in Q!Attempts : times[a] \in Nat
    BY DEF QueueTyped
  <2>3. ASSUME NEW a \in Q!Attempts
        PROVE  /\ a \in as => times'[a] = times[a] + 1
               /\ a \notin as => times'[a] = times[a]
               /\ times'[a] \in Nat
    <3>1. PICK k : k = (IF a \in as THEN 1 ELSE 0) /\ times'[a] = times[a] + k
      BY <2>1
    <3>2. times[a] \in Nat
      BY <2>2
    <3>3. (a \in as => k = 1) /\ (a \notin as => k = 0)
      BY <3>1
    <3>4. times[a] + 0 = times[a] /\ times[a] + 1 \in Nat
      BY <3>2
    <3> QED BY <3>1, <3>2, <3>3, <3>4
  <2> QED BY <2>1, <2>3
<1>5. r.at = "in" /\ r.seen = {} /\ r.hand = worker[w].hand \cup as
  OBVIOUS
<1> HIDE DEF r
<1>6. /\ worker' \in [Workers -> WorkerStates]
      /\ worker'[w] = r /\ \A v \in Workers : v # w => worker'[v] = worker[v]
  BY <1>1, <1>3, OneWorker
<1> QED BY <1>4, <1>5, <1>6

LEMMA DropEffect ==
  ASSUME QueueTyped, NEW w \in Workers, NEW a \in worker[w].hand, Q!Drop(w, a)
  PROVE  /\ worker' \in [Workers -> WorkerStates] /\ worker[w].at = "work"
         /\ worker'[w].at = IF worker[w].hand = {a} THEN "idle" ELSE "work"
         /\ worker'[w].seen = {} /\ worker'[w].hand = worker[w].hand \ {a}
         /\ \A v \in Workers : v # w => worker'[v] = worker[v]
<1> DEFINE r == [at |-> IF worker[w].hand = {a} THEN "idle" ELSE "work",
                 seen |-> {}, hand |-> worker[w].hand \ {a}]
<1>1. worker' = [worker EXCEPT ![w] = r]
  BY DEF Q!Drop, QueueTyped
<1>2. r \in WorkerStates
  BY DEF WorkerStates, QueueTyped
<1>3. /\ r.at = IF worker[w].hand = {a} THEN "idle" ELSE "work"
      /\ r.seen = {} /\ r.hand = worker[w].hand \ {a}
  OBVIOUS
<1> HIDE DEF r
<1>4. /\ worker' \in [Workers -> WorkerStates]
      /\ worker'[w] = r /\ \A v \in Workers : v # w => worker'[v] = worker[v]
  BY <1>1, <1>2, OneWorker
<1> QED BY <1>3, <1>4 DEF Q!Drop, Q!At

(* The other steps of a worker, as what becomes of its record. *)
LEMMA MoveEffect ==
  ASSUME QueueTyped, NEW w \in Workers, NEW l \in {"idle", "in", "work"},
         worker' = [worker EXCEPT ![w].at = l]
  PROVE  /\ worker' \in [Workers -> WorkerStates]
         /\ worker'[w].at = l /\ worker'[w].seen = worker[w].seen
         /\ worker'[w].hand = worker[w].hand
         /\ \A v \in Workers : v # w => worker'[v] = worker[v]
<1>1. worker' \in [Workers -> WorkerStates]
  BY DEF QueueTyped, WorkerStates
<1>2. worker'[w].at = l /\ worker'[w].seen = worker[w].seen /\ worker'[w].hand = worker[w].hand
  BY DEF QueueTyped, WorkerStates
<1>3. \A v \in Workers : v # w => worker'[v] = worker[v]
  BY DEF QueueTyped
<1> QED BY <1>1, <1>2, <1>3

LEMMA SeeEffect ==
  ASSUME QueueTyped, NEW w \in Workers, NEW a \in Q!Attempts,
         worker' = [worker EXCEPT ![w] = [at |-> "zrem", seen |-> {a}, hand |-> @.hand]]
  PROVE  /\ worker' \in [Workers -> WorkerStates]
         /\ worker'[w].at = "zrem" /\ worker'[w].seen = {a} /\ worker'[w].hand = worker[w].hand
         /\ \A v \in Workers : v # w => worker'[v] = worker[v]
<1> DEFINE r == [at |-> "zrem", seen |-> {a}, hand |-> worker[w].hand]
<1>1. worker' = [worker EXCEPT ![w] = r]
  BY DEF QueueTyped
<1>2. r \in WorkerStates
  BY DEF WorkerStates, QueueTyped
<1>3. r.at = "zrem" /\ r.seen = {a} /\ r.hand = worker[w].hand
  OBVIOUS
<1> HIDE DEF r
<1>4. /\ worker' \in [Workers -> WorkerStates]
      /\ worker'[w] = r /\ \A v \in Workers : v # w => worker'[v] = worker[v]
  BY <1>1, <1>2, OneWorker
<1> QED BY <1>3, <1>4

LEMMA QueueTypedStep ==
  ASSUME MaxRetries \in Nat, QueueTyped, [Q!Next]_(Q!vars)
  PROVE  QueueTyped'
<1> USE DEF Q!At
<1>0. /\ \A i \in Items : Q!First(i) \in Q!Attempts
      /\ \A w \in Workers : worker[w] \in WorkerStates
  BY AttemptFacts DEF QueueTyped
<1>1. ASSUME NEW i \in Items, Q!Enqueue(i) PROVE QueueTyped'
  <2>1. \A s \in Seq(Q!Attempts) : /\ Append(s, Q!First(i)) \in Seq(Q!Attempts)
                                   /\ <<Q!First(i)>> \o s \in Seq(Q!Attempts)
    BY <1>0, AttemptLists
  <2>2. queue' \in Seq(Q!Attempts) /\ arrived' \in Seq(Q!Attempts)
    BY <1>1, <2>1 DEF QueueTyped, Q!Enqueue
  <2>3. delay' \in SUBSET [item : Q!Attempts, due : BOOLEAN]
    <3>1. [item |-> Q!First(i), due |-> FALSE] \in [item : Q!Attempts, due : BOOLEAN]
      BY <1>0
    <3>2. delay' = delay \/ delay' = delay \cup {[item |-> Q!First(i), due |-> FALSE]}
      BY <1>1 DEF Q!Enqueue, Q!Delay
    <3> QED BY <3>1, <3>2 DEF QueueTyped
  <2> QED BY <1>1, <2>2, <2>3 DEF QueueTyped, Q!Enqueue
<1>2. ASSUME NEW w \in Workers, Q!AcquireLock(w) \/ Q!ReleaseLock(w) PROVE QueueTyped'
  <2>1. PICK l \in {"idle", "in", "work"} : worker' = [worker EXCEPT ![w].at = l]
    BY <1>2 DEF Q!AcquireLock, Q!ReleaseLock
  <2>2. worker' \in [Workers -> WorkerStates]
    BY <2>1, MoveEffect
  <2> QED BY <1>2, <2>2 DEF QueueTyped, Q!AcquireLock, Q!ReleaseLock
<1>3. ASSUME NEW w \in Workers, Q!Dequeue(w) PROVE QueueTyped'
  <2>1. PICK n \in 1..BatchSize :
          n <= Len(queue) /\ \E pop \in Q!Popped(n) : Q!Take(w, pop.taken, "in") /\ queue' = pop.left
    BY <1>3 DEF Q!Dequeue
  <2>2. PICK pop \in Q!Popped(n) : Q!Take(w, pop.taken, "in") /\ queue' = pop.left
    BY <2>1
  <2>3. n \in 1..Len(queue) /\ queue \in Seq(Q!Attempts)
    BY <2>1 DEF QueueTyped
  <2>4. pop.left \in Seq(Q!Attempts) /\ pop.taken \in SUBSET Q!Attempts
    BY <2>3, PoppedCuts
  <2>5. worker' \in [Workers -> WorkerStates] /\ times' \in [Q!Attempts -> Nat]
    BY <2>2, <2>4, TakeEffect
  <2> QED BY <1>3, <2>2, <2>4, <2>5 DEF QueueTyped, Q!Dequeue
<1>4. ASSUME NEW w \in Workers, Q!ZRange(w) PROVE QueueTyped'
  <2>1. PICK d \in delay :
          worker' = [worker EXCEPT ![w] = [at |-> "zrem", seen |-> {d.item}, hand |-> @.hand]]
    BY <1>4 DEF Q!ZRange
  <2>2. d.item \in Q!Attempts
    BY DEF QueueTyped
  <2>3. worker' \in [Workers -> WorkerStates]
    BY <2>1, <2>2, SeeEffect
  <2> QED BY <1>4, <2>3 DEF QueueTyped, Q!ZRange
<1>5. ASSUME NEW w \in Workers, Q!ZRem(w) PROVE QueueTyped'
  <2>1. worker[w].seen \in SUBSET Q!Attempts
    BY <1>0 DEF WorkerStates
  <2>2. worker' \in [Workers -> WorkerStates] /\ times' \in [Q!Attempts -> Nat]
    BY <1>5, <2>1, TakeEffect DEF Q!ZRem
  <2> QED BY <1>5, <2>2 DEF QueueTyped, Q!ZRem
<1>6. ASSUME NEW w \in Workers, Q!Finish(w) PROVE QueueTyped'
  <2>1. worker' \in [Workers -> WorkerStates]
    BY <1>6, DropEffect DEF Q!Finish
  <2> QED BY <1>6, <2>1 DEF QueueTyped, Q!Finish
<1>7. ASSUME NEW w \in Workers, Q!RetryFailed(w) PROVE QueueTyped'
  <2>1. PICK a \in worker[w].hand :
          /\ Q!Drop(w, a)
          /\ \/ Q!Spent(a) /\ failed' = <<a>> \o failed /\ UNCHANGED delay
             \/ ~Q!Spent(a) /\ Q!Delay([a EXCEPT !.tries = @ + 1]) /\ UNCHANGED failed
    BY <1>7 DEF Q!RetryFailed
  <2>2. worker' \in [Workers -> WorkerStates]
    BY <2>1, DropEffect
  <2>3. a \in Q!Attempts
    BY <1>0 DEF WorkerStates
  <2>4. failed' \in Seq(Q!Attempts)
    <3>1. \A s \in Seq(Q!Attempts) : <<a>> \o s \in Seq(Q!Attempts)
      BY <2>3, AttemptLists
    <3> QED BY <2>1, <3>1 DEF QueueTyped
  <2>5. delay' \in SUBSET [item : Q!Attempts, due : BOOLEAN]
    <3>1. ~Q!Spent(a) => [a EXCEPT !.tries = @ + 1] \in Q!Attempts
      BY <2>3 DEF Q!Spent, Q!Attempts
    <3>2. \A b \in Q!Attempts :
            [item |-> b, due |-> FALSE] \in [item : Q!Attempts, due : BOOLEAN]
      OBVIOUS
    <3>3. PICK b : /\ ~Q!Spent(a) => b \in Q!Attempts
                   /\ \/ delay' = delay
                      \/ ~Q!Spent(a) /\ delay' = delay \cup {[item |-> b, due |-> FALSE]}
      BY <2>1, <3>1 DEF Q!Delay
    <3> QED BY <3>2, <3>3 DEF QueueTyped
  <2> QED BY <1>7, <2>2, <2>4, <2>5 DEF QueueTyped, Q!RetryFailed
<1>8. ASSUME NEW w \in Workers, Q!Crash(w) PROVE QueueTyped'
  <2>1. Q!Free \in WorkerStates
    BY DEF Q!Free, WorkerStates
  <2>2. worker' = [worker EXCEPT ![w] = Q!Free]
    BY <1>8 DEF Q!Crash
  <2>3. worker' \in [Workers -> WorkerStates]
    BY <2>1, <2>2, OneWorker
  <2> QED BY <1>8, <2>3 DEF QueueTyped, Q!Crash
<1>9. CASE Q!Clear
  <2>1. <<>> \in Seq(Q!Attempts)
    OBVIOUS
  <2> QED BY <1>9, <2>1 DEF QueueTyped, Q!Clear
<1>10. CASE Q!Due
  <2>1. \A d \in [item : Q!Attempts, due : BOOLEAN] :
          [d EXCEPT !.due = TRUE] \in [item : Q!Attempts, due : BOOLEAN]
    OBVIOUS
  <2> QED BY <1>10, <2>1 DEF QueueTyped, Q!Due
<1>11. CASE Q!LockTimeout \/ UNCHANGED Q!vars
  BY <1>11 DEF QueueTyped, Q!LockTimeout, Q!vars
<1> HIDE DEF Q!At
<1> QED
  BY <1>1, <1>2, <1>3, <1>4, <1>5, <1>6, <1>7, <1>8, <1>9, <1>10, <1>11 DEF Q!Next

(* An attempt is made after those before it: whoever has it, or has seen it, it comes from
   the queue as a first one or from the failure of the one before. *)
Below(a) ==
  \A n \in 0..MaxRetries : n < a.tries => times[[id |-> a.id, tries |-> n]] > 0
Chain ==
  /\ \A k \in 1..Len(queue) : queue[k].tries = 0
  /\ \A d \in delay : Below(d.item)
  /\ \A w \in Workers : \A a \in worker[w].seen : Below(a)
  /\ \A w \in Workers : \A a \in worker[w].hand : times[a] > 0
  /\ \A a \in Q!Attempts : times[a] > 0 => Below(a)
  /\ \A k \in 1..Len(failed) : failed[k].tries = MaxRetries /\ times[failed[k]] > 0

(* Taking attempts with all those before them behind them. *)
LEMMA TakeKeepsChain ==
  ASSUME MaxRetries \in Nat, QueueTyped, Chain, NEW w \in Workers, NEW as \in SUBSET Q!Attempts,
         Q!Take(w, as, "in"), \A a \in as : Below(a)
  PROVE  /\ \A a \in Q!Attempts : Below(a) => Below(a)'
         /\ \A v \in Workers : \A a \in worker'[v].seen : Below(a)'
         /\ \A v \in Workers : \A a \in worker'[v].hand : times'[a] > 0
         /\ \A a \in Q!Attempts : times'[a] > 0 => Below(a)'
         /\ \A a \in Q!Attempts : times[a] > 0 => times'[a] > 0
<1>1. /\ worker'[w].at = "in" /\ worker'[w].seen = {} /\ worker'[w].hand = worker[w].hand \cup as
      /\ \A v \in Workers : v # w => worker'[v] = worker[v]
      /\ \A a \in as : times'[a] = times[a] + 1
      /\ \A a \in Q!Attempts : a \notin as => times'[a] = times[a]
  BY TakeEffect
<1>2. \A a \in Q!Attempts : times[a] \in Nat
  BY DEF QueueTyped
<1>3. \A v \in Workers : worker[v].hand \in SUBSET Q!Attempts /\ worker[v].seen \in SUBSET Q!Attempts
  BY DEF QueueTyped, WorkerStates
<1>4. ASSUME NEW a \in Q!Attempts
      PROVE  (times[a] > 0 => times'[a] > 0) /\ (a \in as => times'[a] > 0)
  <2>1. CASE a \in as
    <3>1. times'[a] = times[a] + 1
      BY <1>1, <2>1
    <3>2. times[a] \in Nat
      BY <1>2
    <3>3. times[a] + 1 > 0
      BY <3>2
    <3> QED BY <3>1, <3>3
  <2>2. CASE a \notin as
    BY <1>1, <2>2
  <2> QED BY <2>1, <2>2
<1>5. ASSUME NEW a \in Q!Attempts, Below(a) PROVE Below(a)'
  <2>1. \A n \in 0..MaxRetries : [id |-> a.id, tries |-> n] \in Q!Attempts
    BY AttemptFacts
  <2> QED BY <1>4, <1>5, <2>1 DEF Below
<1>6. ASSUME NEW v \in Workers, NEW a \in worker'[v].seen PROVE Below(a)'
  <2>1. v # w /\ a \in worker[v].seen
    BY <1>1, <1>6
  <2> QED BY <1>3, <1>5, <2>1 DEF Chain
<1>7. ASSUME NEW v \in Workers, NEW a \in worker'[v].hand PROVE times'[a] > 0
  <2>1. a \in worker[v].hand \/ a \in as
    BY <1>1, <1>7
  <2> QED BY <1>3, <1>4, <2>1 DEF Chain
<1>8. ASSUME NEW a \in Q!Attempts, times'[a] > 0 PROVE Below(a)'
  <2>1. a \in as \/ times[a] > 0
    BY <1>1, <1>8
  <2> QED BY <1>5, <2>1 DEF Chain
<1> QED BY <1>4, <1>5, <1>6, <1>7, <1>8

(* What happens to Chain when no attempt is given out. *)
LEMMA NoTakeKeepsChain ==
  ASSUME QueueTyped, Chain, times' = times,
         \A k \in 1..Len(queue') : queue'[k].tries = 0,
         \A d \in delay' : Below(d.item),
         \A w \in Workers : /\ \A a \in worker'[w].seen : Below(a)
                            /\ worker'[w].hand \subseteq worker[w].hand,
         \A k \in 1..Len(failed') : failed'[k].tries = MaxRetries /\ times[failed'[k]] > 0
  PROVE  Chain'
<1>1. \A a : Below(a)' <=> Below(a)
  BY DEF Below
<1> QED BY <1>1 DEF Chain

LEMMA ChainStep ==
  ASSUME MaxRetries \in Nat, QueueTyped, Chain, [Q!Next]_(Q!vars)
  PROVE  Chain'
<1> USE DEF Q!At
<1>0. /\ \A i \in Items : Below(Q!First(i)) /\ Q!First(i).tries = 0 /\ Q!First(i) \in Q!Attempts
      /\ \A w \in Workers : worker[w] \in WorkerStates
      /\ queue \in Seq(Q!Attempts) /\ failed \in Seq(Q!Attempts)
  BY AttemptFacts DEF QueueTyped, Below
<1>1. ASSUME NEW i \in Items, Q!Enqueue(i) PROVE Chain'
  <2>1. \A k \in 1..Len(queue') : queue'[k].tries = 0
    <3>1. /\ Len(queue) \in Nat
          /\ Len(Append(queue, Q!First(i))) = Len(queue) + 1
          /\ Len(<<Q!First(i)>> \o queue) = Len(queue) + 1
          /\ \A k \in 1..Len(queue) : /\ Append(queue, Q!First(i))[k] = queue[k]
                                      /\ (<<Q!First(i)>> \o queue)[k + 1] = queue[k]
          /\ Append(queue, Q!First(i))[Len(queue) + 1] = Q!First(i)
          /\ (<<Q!First(i)>> \o queue)[1] = Q!First(i)
      BY <1>0, AttemptLists
    <3>2. \A k \in 1..(Len(queue) + 1) : k = 1 \/ (k - 1 \in 1..Len(queue) /\ (k - 1) + 1 = k)
      BY <3>1
    <3>3. \A k \in 1..(Len(queue) + 1) : k = Len(queue) + 1 \/ k \in 1..Len(queue)
      BY <3>1
    <3>4. queue' \in {queue, Append(queue, Q!First(i)), <<Q!First(i)>> \o queue}
      BY <1>1 DEF Q!Enqueue
    <3>5. CASE queue' = queue
      BY <3>5 DEF Chain
    <3>6. CASE queue' = Append(queue, Q!First(i))
      BY <1>0, <3>1, <3>3, <3>6 DEF Chain
    <3>7. CASE queue' = <<Q!First(i)>> \o queue
      BY <1>0, <3>1, <3>2, <3>7 DEF Chain
    <3> QED BY <3>4, <3>5, <3>6, <3>7
  <2>2. \A d \in delay' : Below(d.item)
    BY <1>0, <1>1 DEF Chain, Q!Enqueue, Q!Delay
  <2> QED BY <1>1, <2>1, <2>2, NoTakeKeepsChain DEF Q!Enqueue, Chain
<1>2. ASSUME NEW w \in Workers, Q!AcquireLock(w) \/ Q!ReleaseLock(w) PROVE Chain'
  <2>1. PICK l \in {"idle", "in", "work"} : worker' = [worker EXCEPT ![w].at = l]
    BY <1>2 DEF Q!AcquireLock, Q!ReleaseLock
  <2>2. \A v \in Workers : worker'[v].seen = worker[v].seen /\ worker'[v].hand = worker[v].hand
    BY <2>1, MoveEffect
  <2> QED BY <1>2, <2>2, NoTakeKeepsChain DEF Q!AcquireLock, Q!ReleaseLock, Chain
<1>3. ASSUME NEW w \in Workers, Q!Dequeue(w) PROVE Chain'
  <2>1. PICK n \in 1..BatchSize :
          n <= Len(queue) /\ \E pop \in Q!Popped(n) : Q!Take(w, pop.taken, "in") /\ queue' = pop.left
    BY <1>3 DEF Q!Dequeue
  <2>2. PICK pop \in Q!Popped(n) : Q!Take(w, pop.taken, "in") /\ queue' = pop.left
    BY <2>1
  <2>3. n \in 1..Len(queue) /\ queue \in Seq(Q!Attempts)
    BY <1>0, <2>1
  <2>4. pop.left \in Seq(Q!Attempts) /\ pop.taken \in SUBSET Q!Attempts
    BY <2>3, PoppedCuts
  <2>5. PICK g, T : Cut(pop, g, T)
    BY <2>3, PoppedCuts
  <2>6. \A a \in pop.taken : Below(a)
    <3>1. \A a \in pop.taken : a.tries = 0
      BY <2>5 DEF Cut, Chain
    <3> QED BY <3>1 DEF Below
  <2>7. \A k \in 1..Len(queue') : queue'[k].tries = 0
    <3>1. \A k \in 1..Len(pop.left) : pop.left[k] = queue[g[k]] /\ g[k] \in 1..Len(queue)
      BY <2>5 DEF Cut
    <3>2. \A k \in 1..Len(queue) : queue[k].tries = 0
      BY DEF Chain
    <3>3. \A k \in 1..Len(pop.left) : pop.left[k].tries = 0
      BY <3>1, <3>2
    <3> QED BY <2>2, <3>3
  <2>8. /\ \A a \in Q!Attempts : Below(a) => Below(a)'
        /\ \A v \in Workers : \A a \in worker'[v].seen : Below(a)'
        /\ \A v \in Workers : \A a \in worker'[v].hand : times'[a] > 0
        /\ \A a \in Q!Attempts : times'[a] > 0 => Below(a)'
        /\ \A a \in Q!Attempts : times[a] > 0 => times'[a] > 0
    BY <2>2, <2>4, <2>6, TakeKeepsChain
  <2>9. delay' = delay /\ failed' = failed
    BY <1>3 DEF Q!Dequeue
  <2>10. (\A d \in delay : d.item \in Q!Attempts) /\ (\A k \in 1..Len(failed) : failed[k] \in Q!Attempts)
    BY <1>0 DEF QueueTyped
  <2> QED BY <2>7, <2>8, <2>9, <2>10 DEF Chain
<1>4. ASSUME NEW w \in Workers, Q!ZRange(w) PROVE Chain'
  <2>1. PICK d \in delay :
          worker' = [worker EXCEPT ![w] = [at |-> "zrem", seen |-> {d.item}, hand |-> @.hand]]
    BY <1>4 DEF Q!ZRange
  <2>2. d.item \in Q!Attempts /\ Below(d.item)
    BY DEF QueueTyped, Chain
  <2>3. /\ worker'[w].seen = {d.item} /\ worker'[w].hand = worker[w].hand
        /\ \A v \in Workers : v # w => worker'[v] = worker[v]
    BY <2>1, <2>2, SeeEffect
  <2> QED BY <1>4, <2>2, <2>3, NoTakeKeepsChain DEF Q!ZRange, Chain
<1>5. ASSUME NEW w \in Workers, Q!ZRem(w) PROVE Chain'
  <2>1. worker[w].seen \in SUBSET Q!Attempts /\ \A a \in worker[w].seen : Below(a)
    BY <1>0 DEF WorkerStates, Chain
  <2>2. /\ Q!Take(w, worker[w].seen, "in") /\ delay' \subseteq delay
        /\ queue' = queue /\ failed' = failed
    BY <1>5 DEF Q!ZRem
  <2>3. /\ \A a \in Q!Attempts : Below(a) => Below(a)'
        /\ \A v \in Workers : \A a \in worker'[v].seen : Below(a)'
        /\ \A v \in Workers : \A a \in worker'[v].hand : times'[a] > 0
        /\ \A a \in Q!Attempts : times'[a] > 0 => Below(a)'
        /\ \A a \in Q!Attempts : times[a] > 0 => times'[a] > 0
    BY <2>1, <2>2, TakeKeepsChain
  <2>4. (\A d \in delay : d.item \in Q!Attempts) /\ (\A k \in 1..Len(failed) : failed[k] \in Q!Attempts)
    BY <1>0 DEF QueueTyped
  <2> QED BY <2>2, <2>3, <2>4 DEF Chain
<1>6. ASSUME NEW w \in Workers, Q!Finish(w) PROVE Chain'
  <2>1. PICK a \in worker[w].hand : Q!Drop(w, a)
    BY <1>6 DEF Q!Finish
  <2>2. /\ worker'[w].seen = {} /\ worker'[w].hand \subseteq worker[w].hand
        /\ \A v \in Workers : v # w => worker'[v] = worker[v]
    BY <2>1, DropEffect
  <2> QED BY <1>6, <2>2, NoTakeKeepsChain DEF Q!Finish, Chain
<1>7. ASSUME NEW w \in Workers, Q!RetryFailed(w) PROVE Chain'
  <2>1. PICK a \in worker[w].hand :
          /\ Q!Drop(w, a)
          /\ \/ Q!Spent(a) /\ failed' = <<a>> \o failed /\ UNCHANGED delay
             \/ ~Q!Spent(a) /\ Q!Delay([a EXCEPT !.tries = @ + 1]) /\ UNCHANGED failed
    BY <1>7 DEF Q!RetryFailed
  <2>2. /\ worker'[w].seen = {} /\ worker'[w].hand \subseteq worker[w].hand
        /\ \A v \in Workers : v # w => worker'[v] = worker[v]
    BY <2>1, DropEffect
  <2>3. a \in Q!Attempts /\ times[a] > 0 /\ Below(a)
    BY <1>0 DEF WorkerStates, Chain
  <2>4. ASSUME NEW k \in 1..Len(failed') PROVE failed'[k].tries = MaxRetries /\ times[failed'[k]] > 0
    <3>1. CASE failed' = failed
      BY <2>4, <3>1 DEF Chain
    <3>2. CASE Q!Spent(a) /\ failed' = <<a>> \o failed
      <4>1. a.tries = MaxRetries
        BY <2>3, <3>2, AttemptFacts DEF Q!Spent
      <4>2. /\ Len(failed) \in Nat /\ Len(<<a>> \o failed) = Len(failed) + 1
            /\ \A j \in 1..Len(failed) : (<<a>> \o failed)[j + 1] = failed[j]
            /\ (<<a>> \o failed)[1] = a
        BY <1>0, <2>3, AttemptLists
      <4>3. k = 1 \/ (k - 1 \in 1..Len(failed) /\ (k - 1) + 1 = k)
        BY <2>4, <3>2, <4>2
      <4> QED BY <2>3, <3>2, <4>1, <4>2, <4>3 DEF Chain
    <3> QED BY <2>1, <3>1, <3>2
  <2>5. \A d \in delay' : Below(d.item)
    <3>1. ASSUME ~Q!Spent(a) PROVE Below([a EXCEPT !.tries = @ + 1])
      <4>1. [a EXCEPT !.tries = @ + 1].id = a.id /\ [a EXCEPT !.tries = @ + 1].tries = a.tries + 1
        BY <2>3 DEF Q!Attempts
      <4>2. a.tries \in Nat /\ a = [id |-> a.id, tries |-> a.tries]
        BY <2>3, AttemptFacts
      <4>3. ASSUME NEW n \in 0..MaxRetries, n < a.tries + 1
            PROVE  times[[id |-> a.id, tries |-> n]] > 0
        <5>1. n < a.tries \/ n = a.tries
          BY <4>2, <4>3
        <5> QED BY <2>3, <4>2, <5>1 DEF Below
      <4> QED BY <4>1, <4>3 DEF Below
    <3> QED BY <2>1, <3>1 DEF Q!Delay, Chain
  <2> QED BY <1>7, <2>2, <2>4, <2>5, NoTakeKeepsChain DEF Q!RetryFailed, Chain
<1>8. ASSUME NEW w \in Workers, Q!Crash(w) PROVE Chain'
  <2>1. Q!Free \in WorkerStates /\ Q!Free.seen = {} /\ Q!Free.hand = {}
    BY DEF Q!Free, WorkerStates
  <2>2. worker' = [worker EXCEPT ![w] = Q!Free]
    BY <1>8 DEF Q!Crash
  <2>3. worker'[w] = Q!Free /\ \A v \in Workers : v # w => worker'[v] = worker[v]
    BY <2>1, <2>2, OneWorker
  <2> QED BY <1>8, <2>1, <2>3, NoTakeKeepsChain DEF Q!Crash, Chain
<1>9. CASE Q!Clear
  BY <1>9, NoTakeKeepsChain DEF Q!Clear, Chain
<1>10. CASE Q!Due
  <2>1. \A d \in [item : Q!Attempts, due : BOOLEAN] : [d EXCEPT !.due = TRUE].item = d.item
    OBVIOUS
  <2>2. \A d \in delay' : Below(d.item)
    BY <1>10, <2>1 DEF Q!Due, QueueTyped, Chain
  <2> QED BY <1>10, <2>2, NoTakeKeepsChain DEF Q!Due, Chain
<1>11. CASE Q!LockTimeout \/ UNCHANGED Q!vars
  BY <1>11, NoTakeKeepsChain DEF Q!LockTimeout, Q!vars, Chain
<1> HIDE DEF Q!At
<1> QED
  BY <1>1, <1>2, <1>3, <1>4, <1>5, <1>6, <1>7, <1>8, <1>9, <1>10, <1>11 DEF Q!Next

QueueBase == QueueTyped /\ Chain

LEMMA QueueBaseHolds ==
  ASSUME MaxRetries \in Nat
  PROVE  (Init => QueueBase) /\ (QueueBase /\ [Next]_vars => QueueBase')
<1>1. ASSUME Init PROVE QueueBase
  <2>1. Q!Init
    BY <1>1 DEF Init
  <2>2. <<>> \in Seq(Q!Attempts) /\ Q!Free \in WorkerStates
    BY DEF Q!Free, WorkerStates
  <2>3. QueueTyped
    BY <2>1, <2>2 DEF Q!Init, QueueTyped
  <2>4. \A w \in Workers : worker[w].seen = {} /\ worker[w].hand = {}
    BY <2>1 DEF Q!Init, Q!Free
  <2>5. \A a \in Q!Attempts : times[a] = 0
    BY <2>1 DEF Q!Init
  <2>6. queue = <<>> /\ delay = {} /\ failed = <<>>
    BY <2>1 DEF Q!Init
  <2>7. Chain
    BY <2>4, <2>5, <2>6 DEF Chain
  <2> QED BY <2>3, <2>7 DEF QueueBase
<1>2. ASSUME QueueBase, [Next]_vars PROVE QueueBase'
  BY <1>2, Steps, QueueTypedStep, ChainStep DEF QueueBase
<1> QED BY <1>1, <1>2

(* An item is in the list of failed items only when every one of its MaxRetries + 1 attempts
   has been given to a worker: RetryFailed (queue.go) neither skips a try nor gives up early,
   with any number of workers, whatever crashes and whatever locks time out. *)
THEOREM GivenUpAfterAllTries ==
  ASSUME MaxRetries \in Nat
  PROVE  Spec => []RetriesSpent
<1>1. (Init => QueueBase) /\ (QueueBase /\ [Next]_vars => QueueBase')
  BY QueueBaseHolds
<1>2. QueueBase => RetriesSpent
  <2> SUFFICES ASSUME QueueBase, NEW a \in Q!ToSet(failed), NEW n \in 0..MaxRetries
               PROVE  times[[id |-> a.id, tries |-> n]] > 0
    BY DEF RetriesSpent, Q!RetriesSpent
  <2>1. failed \in Seq(Q!Attempts)
    BY DEF QueueBase, QueueTyped
  <2>2. PICK k \in 1..Len(failed) : a = failed[k]
    BY <2>1 DEF Q!ToSet
  <2>3. a \in Q!Attempts /\ a.tries = MaxRetries /\ times[a] > 0 /\ Below(a)
    BY <2>1, <2>2 DEF QueueBase, Chain
  <2>4. a = [id |-> a.id, tries |-> a.tries]
    BY <2>3, AttemptFacts
  <2>5. n < a.tries \/ n = a.tries
    BY <2>3
  <2> QED BY <2>3, <2>4, <2>5 DEF Below
<1> QED BY <1>1, <1>2, PTL DEF Spec

(* The queue holds what has arrived and has not been given out, in the order of its type;
   what is retried, and what is delayed, never enters it. *)
OnlyRetriesWait ==
  /\ type = "delayed" => queue = <<>> /\ arrived = <<>>
  /\ type # "delayed" => /\ \A d \in delay : d.item.tries > 0
                         /\ \A w \in Workers : \A a \in worker[w].seen : a.tries > 0
InQueue ==
  /\ \A i \in 1..Len(arrived) : arrived[i].tries = 0
  /\ \A i, j \in 1..Len(arrived) : arrived[i] = arrived[j] => i = j
  /\ \A k, l \in 1..Len(queue) : queue[k] = queue[l] => k = l
  /\ \A k \in 1..Len(queue) : /\ times[queue[k]] = 0
                              /\ \E i \in 1..Len(arrived) : arrived[i] = queue[k]
  /\ \A i \in 1..Len(arrived) : times[arrived[i]] = 0 => \E k \in 1..Len(queue) : queue[k] = arrived[i]
InLine ==
  \A k, l \in 1..Len(queue), i, j \in 1..Len(arrived) :
    k < l /\ queue[k] = arrived[i] /\ queue[l] = arrived[j] =>
      /\ type = "fifo" => i < j
      /\ type = "lifo" => j < i
Ordered == OnlyRetriesWait /\ InQueue /\ InLine

LEMMA QueueUntouched ==
  ASSUME Ordered, type' = type, queue' = queue, arrived' = arrived,
         \A i \in 1..Len(arrived) : times'[arrived[i]] = times[arrived[i]],
         OnlyRetriesWait'
  PROVE  Ordered'
<1>1. \A k \in 1..Len(queue) : times'[queue[k]] = times[queue[k]]
  BY DEF Ordered, InQueue
<1>2. InQueue'
  <2>1. \A k \in 1..Len(queue) : times'[queue[k]] = 0
    BY <1>1 DEF Ordered, InQueue
  <2>2. \A i \in 1..Len(arrived) :
          times'[arrived[i]] = 0 => \E k \in 1..Len(queue) : queue[k] = arrived[i]
    BY DEF Ordered, InQueue
  <2> QED BY <2>1, <2>2 DEF Ordered, InQueue
<1>3. InLine'
  BY DEF Ordered, InLine
<1> QED BY <1>2, <1>3 DEF Ordered

LEMMA EnqueueKeepsOrder ==
  ASSUME MaxRetries \in Nat, QueueTyped, Ordered, NEW i \in Items, Q!Enqueue(i), type # "delayed"
  PROVE  Ordered'
<1> DEFINE x == Q!First(i)
           LA == Len(arrived)
           LQ == Len(queue)
<1>1. /\ x \in Q!Attempts /\ x.tries = 0
      /\ queue \in Seq(Q!Attempts) /\ arrived \in Seq(Q!Attempts) /\ LA \in Nat /\ LQ \in Nat
  BY AttemptFacts DEF QueueTyped
<1>2. /\ times[x] = 0 /\ arrived' = Append(arrived, x) /\ times' = times /\ type' = type
      /\ queue' = IF type = "lifo" THEN <<x>> \o queue ELSE Append(queue, x)
      /\ delay' = delay /\ worker' = worker
  BY DEF Q!Enqueue
<1>3. \A j \in 1..LA : arrived[j] # x
  BY <1>1 DEF Q!Enqueue, Q!ToSet
<1>4. \A k \in 1..LQ : queue[k] # x
  BY <1>3 DEF Ordered, InQueue
<1>5. /\ Len(arrived') = LA + 1 /\ arrived'[LA + 1] = x /\ \A j \in 1..LA : arrived'[j] = arrived[j]
  BY <1>1, <1>2, AttemptLists
<1>6. OnlyRetriesWait'
  BY <1>2 DEF Ordered, OnlyRetriesWait
<1>7. \A j \in 1..(LA + 1) : j = LA + 1 \/ j \in 1..LA
  BY <1>1
<1>8. \A j \in 1..LA : j \in 1..(LA + 1) /\ j < LA + 1
  BY <1>1
<1>9. LA + 1 \in 1..(LA + 1)
  BY <1>1
<1>12. /\ \A j \in 1..LA : arrived[j].tries = 0
       /\ \A j, k \in 1..LA : arrived[j] = arrived[k] => j = k
       /\ \A k, l \in 1..LQ : queue[k] = queue[l] => k = l
       /\ \A k \in 1..LQ : times[queue[k]] = 0 /\ \E j \in 1..LA : arrived[j] = queue[k]
       /\ \A j \in 1..LA : times[arrived[j]] = 0 => \E k \in 1..LQ : queue[k] = arrived[j]
  BY DEF Ordered, InQueue
<1>13. Len(arrived') = LA + 1
  BY <1>5
<1> HIDE DEF LA, LQ, x
<1>14. \A j \in 1..(LA + 1) : arrived'[j].tries = 0
  <2> SUFFICES ASSUME NEW j \in 1..(LA + 1) PROVE arrived'[j].tries = 0
    OBVIOUS
  <2>1. CASE j \in 1..LA
    BY <1>5, <1>12, <2>1
  <2>2. CASE j = LA + 1
    BY <1>1, <1>5, <2>2
  <2> QED BY <1>7, <2>1, <2>2
<1>15. \A j, k \in 1..(LA + 1) : arrived'[j] = arrived'[k] => j = k
  <2> SUFFICES ASSUME NEW j \in 1..(LA + 1), NEW k \in 1..(LA + 1), arrived'[j] = arrived'[k]
               PROVE  j = k
    OBVIOUS
  <2>1. CASE j \in 1..LA /\ k \in 1..LA
    BY <1>5, <1>12, <2>1
  <2>2. CASE j \in 1..LA /\ k = LA + 1
    BY <1>3, <1>5, <2>2
  <2>3. CASE j = LA + 1 /\ k \in 1..LA
    BY <1>3, <1>5, <2>3
  <2>4. CASE j = LA + 1 /\ k = LA + 1
    BY <2>4
  <2> QED BY <1>7, <2>1, <2>2, <2>3, <2>4
<1>16. \A k \in 1..LQ : /\ times'[queue[k]] = 0
                        /\ \E j \in 1..(LA + 1) : arrived'[j] = queue[k]
  BY <1>2, <1>5, <1>8, <1>12
<1>17. \E j \in 1..(LA + 1) : arrived'[j] = x
  BY <1>5, <1>9
<1>10. CASE type = "lifo"
  <2>1. /\ Len(queue') = LQ + 1 /\ queue'[1] = x /\ \A k \in 1..LQ : queue'[k + 1] = queue[k]
    BY <1>1, <1>2, <1>10, AttemptLists DEF LQ
  <2>2. \A k \in 1..(LQ + 1) : k = 1 \/ (k - 1 \in 1..LQ /\ (k - 1) + 1 = k)
    BY <1>1
  <2>3. \A k \in 1..(LQ + 1) : k = 1 \/ \E k0 \in 1..LQ : k = k0 + 1 /\ queue'[k] = queue[k0]
    BY <2>1, <2>2
  <2>4. \A k \in 1..LQ : k + 1 \in 1..(LQ + 1)
    BY <1>1
  <2>5. 1 \in 1..(LQ + 1)
    BY <1>1
  <2>6. InQueue'
    <3>1. \A k, l \in 1..(LQ + 1) : queue'[k] = queue'[l] => k = l
      <4> SUFFICES ASSUME NEW k \in 1..(LQ + 1), NEW l \in 1..(LQ + 1), queue'[k] = queue'[l]
                   PROVE  k = l
        OBVIOUS
      <4>1. CASE k = 1 /\ l = 1
        BY <4>1
      <4>2. CASE k = 1 /\ l # 1
        BY <1>4, <2>1, <2>3, <4>2
      <4>3. CASE k # 1 /\ l = 1
        BY <1>4, <2>1, <2>3, <4>3
      <4>4. CASE k # 1 /\ l # 1
        <5>1. PICK k0 \in 1..LQ : k = k0 + 1 /\ queue'[k] = queue[k0]
          BY <2>3, <4>4
        <5>2. PICK l0 \in 1..LQ : l = l0 + 1 /\ queue'[l] = queue[l0]
          BY <2>3, <4>4
        <5> QED BY <1>12, <5>1, <5>2
      <4> QED BY <4>1, <4>2, <4>3, <4>4
    <3>2. \A k \in 1..(LQ + 1) : /\ times'[queue'[k]] = 0
                                 /\ \E j \in 1..(LA + 1) : arrived'[j] = queue'[k]
      <4> SUFFICES ASSUME NEW k \in 1..(LQ + 1)
                   PROVE  /\ times'[queue'[k]] = 0
                          /\ \E j \in 1..(LA + 1) : arrived'[j] = queue'[k]
        OBVIOUS
      <4>1. CASE k = 1
        BY <1>2, <1>17, <2>1, <4>1
      <4>2. CASE k # 1
        BY <1>16, <2>3, <4>2
      <4> QED BY <4>1, <4>2
    <3>3. \A j \in 1..(LA + 1) :
            times'[arrived'[j]] = 0 => \E k \in 1..(LQ + 1) : queue'[k] = arrived'[j]
      <4> SUFFICES ASSUME NEW j \in 1..(LA + 1), times'[arrived'[j]] = 0
                   PROVE  \E k \in 1..(LQ + 1) : queue'[k] = arrived'[j]
        OBVIOUS
      <4>1. CASE j = LA + 1
        BY <1>5, <2>1, <2>5, <4>1
      <4>2. CASE j \in 1..LA
        <5>1. PICK k \in 1..LQ : queue[k] = arrived[j]
          BY <1>2, <1>5, <1>12, <4>2
        <5> QED BY <1>5, <2>1, <2>4, <4>2, <5>1
      <4> QED BY <1>7, <4>1, <4>2
    <3> QED BY <1>13, <1>14, <1>15, <2>1, <3>1, <3>2, <3>3 DEF InQueue
  <2>7. InLine'
    <3> SUFFICES ASSUME NEW k \in 1..Len(queue'), NEW l \in 1..Len(queue'),
                        NEW p \in 1..Len(arrived'), NEW q \in 1..Len(arrived'),
                        k < l, queue'[k] = arrived'[p], queue'[l] = arrived'[q]
                 PROVE  q < p
      BY <1>2, <1>10 DEF InLine
    <3>1. PICK l0 \in 1..LQ : l = l0 + 1 /\ queue'[l] = queue[l0]
      <4>1. l # 1
        BY <1>1, <2>1
      <4> QED BY <2>1, <2>3, <4>1
    <3>2. q \in 1..LA
      BY <1>4, <1>5, <1>7, <3>1
    <3>3. CASE k = 1
      <4>1. p = LA + 1
        BY <1>3, <1>5, <1>7, <2>1, <3>3
      <4> QED BY <1>8, <3>2, <4>1
    <3>4. CASE k # 1
      <4>1. PICK k0 \in 1..LQ : k = k0 + 1 /\ queue'[k] = queue[k0]
        BY <2>1, <2>3, <3>4
      <4>2. p \in 1..LA
        BY <1>4, <1>5, <1>7, <4>1
      <4>3. k0 < l0
        BY <1>1, <3>1, <4>1
      <4> QED BY <1>5, <1>10, <3>1, <3>2, <4>1, <4>2, <4>3 DEF Ordered, InLine, LA, LQ
    <3> QED BY <3>3, <3>4
  <2> QED BY <1>6, <2>6, <2>7 DEF Ordered
<1>11. CASE type # "lifo"
  <2>1. /\ Len(queue') = LQ + 1 /\ queue'[LQ + 1] = x /\ \A k \in 1..LQ : queue'[k] = queue[k]
    BY <1>1, <1>2, <1>11, AttemptLists DEF LQ
  <2>2. \A k \in 1..(LQ + 1) : k = LQ + 1 \/ k \in 1..LQ
    BY <1>1
  <2>3. \A k \in 1..LQ : k \in 1..(LQ + 1)
    BY <1>1
  <2>4. LQ + 1 \in 1..(LQ + 1)
    BY <1>1
  <2>5. InQueue'
    <3>1. \A k, l \in 1..(LQ + 1) : queue'[k] = queue'[l] => k = l
      <4> SUFFICES ASSUME NEW k \in 1..(LQ + 1), NEW l \in 1..(LQ + 1), queue'[k] = queue'[l]
                   PROVE  k = l
        OBVIOUS
      <4>1. CASE k \in 1..LQ /\ l \in 1..LQ
        BY <1>12, <2>1, <4>1
      <4>2. CASE k \in 1..LQ /\ l = LQ + 1
        BY <1>4, <2>1, <4>2
      <4>3. CASE k = LQ + 1 /\ l \in 1..LQ
        BY <1>4, <2>1, <4>3
      <4>4. CASE k = LQ + 1 /\ l = LQ + 1
        BY <4>4
      <4> QED BY <2>2, <4>1, <4>2, <4>3, <4>4
    <3>2. \A k \in 1..(LQ + 1) : /\ times'[queue'[k]] = 0
                                 /\ \E j \in 1..(LA + 1) : arrived'[j] = queue'[k]
      <4> SUFFICES ASSUME NEW k \in 1..(LQ + 1)
                   PROVE  /\ times'[queue'[k]] = 0
                          /\ \E j \in 1..(LA + 1) : arrived'[j] = queue'[k]
        OBVIOUS
      <4>1. CASE k = LQ + 1
        BY <1>2, <1>17, <2>1, <4>1
      <4>2. CASE k \in 1..LQ
        BY <1>16, <2>1, <4>2
      <4> QED BY <2>2, <4>1, <4>2
    <3>3. \A j \in 1..(LA + 1) :
            times'[arrived'[j]] = 0 => \E k \in 1..(LQ + 1) : queue'[k] = arrived'[j]
      <4> SUFFICES ASSUME NEW j \in 1..(LA + 1), times'[arrived'[j]] = 0
                   PROVE  \E k \in 1..(LQ + 1) : queue'[k] = arrived'[j]
        OBVIOUS
      <4>1. CASE j = LA + 1
        BY <1>5, <2>1, <2>4, <4>1
      <4>2. CASE j \in 1..LA
        <5>1. PICK k \in 1..LQ : queue[k] = arrived[j]
          BY <1>2, <1>5, <1>12, <4>2
        <5> QED BY <1>5, <2>1, <2>3, <4>2, <5>1
      <4> QED BY <1>7, <4>1, <4>2
    <3> QED BY <1>13, <1>14, <1>15, <2>1, <3>1, <3>2, <3>3 DEF InQueue
  <2>6. InLine'
    <3> SUFFICES ASSUME NEW k \in 1..Len(queue'), NEW l \in 1..Len(queue'),
                        NEW p \in 1..Len(arrived'), NEW q \in 1..Len(arrived'),
                        k < l, queue'[k] = arrived'[p], queue'[l] = arrived'[q], type = "fifo"
                 PROVE  p < q
      <4>1. type' # "lifo" /\ type' = type
        BY <1>2, <1>11
      <4> QED BY <4>1 DEF InLine
    <3>1. k \in 1..LQ /\ queue'[k] = queue[k]
      BY <1>1, <2>1
    <3>2. p \in 1..LA
      BY <1>4, <1>5, <1>7, <3>1
    <3>3. CASE l = LQ + 1
      <4>1. q = LA + 1
        BY <1>3, <1>5, <1>7, <2>1, <3>3
      <4> QED BY <1>8, <3>2, <4>1
    <3>4. CASE l # LQ + 1
      <4>1. l \in 1..LQ /\ queue'[l] = queue[l]
        BY <2>1, <2>2, <3>4
      <4>2. q \in 1..LA
        BY <1>4, <1>5, <1>7, <4>1
      <4> QED BY <1>5, <3>1, <3>2, <4>1, <4>2 DEF Ordered, InLine, LA, LQ
    <3> QED BY <3>3, <3>4
  <2> QED BY <1>6, <2>5, <2>6 DEF Ordered
<1> QED BY <1>10, <1>11

LEMMA DequeueKeepsOrder ==
  ASSUME MaxRetries \in Nat, QueueTyped, Ordered, NEW w \in Workers, Q!Dequeue(w)
  PROVE  Ordered'
<1>0. queue \in Seq(Q!Attempts) /\ arrived \in Seq(Q!Attempts) /\ type # "delayed"
  BY DEF QueueTyped, Q!Dequeue
<1>1. PICK n \in 1..BatchSize :
        n <= Len(queue) /\ \E pop \in Q!Popped(n) : Q!Take(w, pop.taken, "in") /\ queue' = pop.left
  BY DEF Q!Dequeue
<1>2. PICK pop \in Q!Popped(n) : Q!Take(w, pop.taken, "in") /\ queue' = pop.left
  BY <1>1
<1>3. n \in 1..Len(queue)
  BY <1>0, <1>1
<1>4. pop.taken \in SUBSET Q!Attempts
  BY <1>0, <1>3, PoppedCuts
<1>5. PICK g, T : Cut(pop, g, T)
  BY <1>0, <1>3, PoppedCuts
<1>6. /\ worker'[w].seen = {} /\ \A v \in Workers : v # w => worker'[v] = worker[v]
      /\ \A a \in pop.taken : times'[a] = times[a] + 1
      /\ \A a \in Q!Attempts : a \notin pop.taken => times'[a] = times[a]
  BY <1>2, <1>4, TakeEffect
<1>7. arrived' = arrived /\ type' = type /\ delay' = delay
  BY DEF Q!Dequeue
<1>8. /\ \A k \in 1..Len(queue) : queue[k] \in Q!Attempts
      /\ \A i \in 1..Len(arrived) : arrived[i] \in Q!Attempts
      /\ \A a \in Q!Attempts : times[a] \in Nat
  BY <1>0 DEF QueueTyped
<1>9. \A k \in 1..Len(queue') : /\ g[k] \in 1..Len(queue) /\ queue'[k] = queue[g[k]]
                                /\ g[k] \notin T
  BY <1>2, <1>5 DEF Cut
<1>10. \A p \in 1..Len(queue) : queue[p] \in pop.taken <=> p \in T
  BY <1>5 DEF Cut, Ordered, InQueue
<1>11. OnlyRetriesWait'
  BY <1>0, <1>6, <1>7 DEF Ordered, OnlyRetriesWait
<1>12. InQueue'
  <2>1. \A k, l \in 1..Len(queue') : queue'[k] = queue'[l] => k = l
    <3>1. \A k, l \in 1..Len(queue') : k < l => g[k] < g[l]
      BY <1>2, <1>5 DEF Cut
    <3>2. \A k, l \in 1..Len(queue') : g[k] = g[l] => k = l
      <4> SUFFICES ASSUME NEW k \in 1..Len(queue'), NEW l \in 1..Len(queue'), g[k] = g[l]
                   PROVE  k = l
        OBVIOUS
      <4>1. g[k] \in Int /\ ~(g[k] < g[k])
        BY <1>9
      <4>2. ~(k < l) /\ ~(l < k)
        BY <3>1, <4>1
      <4>3. k \in Nat /\ l \in Nat
        <5>1. queue' \in Seq(Q!Attempts)
          BY <1>0, <1>2, <1>3, PoppedCuts
        <5> QED BY <5>1
      <4> QED BY <4>2, <4>3
    <3>3. \A p, q \in 1..Len(queue) : queue[p] = queue[q] => p = q
      BY DEF Ordered, InQueue
    <3> QED BY <1>9, <3>2, <3>3
  <2>2. \A k \in 1..Len(queue') : /\ times'[queue'[k]] = 0
                                  /\ \E i \in 1..Len(arrived') : arrived'[i] = queue'[k]
    <3> SUFFICES ASSUME NEW k \in 1..Len(queue')
                 PROVE  times'[queue'[k]] = 0 /\ \E i \in 1..Len(arrived) : arrived[i] = queue'[k]
      BY <1>7
    <3>1. g[k] \in 1..Len(queue) /\ queue'[k] = queue[g[k]] /\ queue'[k] \notin pop.taken
      BY <1>9, <1>10
    <3>2. queue'[k] \in Q!Attempts
      BY <1>8, <3>1
    <3>3. times[queue'[k]] = 0 /\ \E i \in 1..Len(arrived) : arrived[i] = queue'[k]
      <4>1. \A p \in 1..Len(queue) : /\ times[queue[p]] = 0
                                     /\ \E i \in 1..Len(arrived) : arrived[i] = queue[p]
        BY DEF Ordered, InQueue
      <4>2. PICK p \in 1..Len(queue) : queue'[k] = queue[p]
        BY <3>1
      <4> QED BY <4>1, <4>2
    <3> QED BY <1>6, <3>1, <3>2, <3>3
  <2>3. ASSUME NEW i \in 1..Len(arrived), times'[arrived[i]] = 0
        PROVE  \E k \in 1..Len(queue') : queue'[k] = arrived[i]
    <3>1. times[arrived[i]] = 0 /\ arrived[i] \notin pop.taken
      BY <1>6, <1>8, <2>3
    <3>2. PICK p \in 1..Len(queue) : queue[p] = arrived[i]
      BY <3>1 DEF Ordered, InQueue
    <3>3. p \notin T
      BY <1>10, <3>1, <3>2
    <3>4. PICK k \in 1..Len(pop.left) : g[k] = p
      BY <1>5, <3>3 DEF Cut
    <3> QED BY <1>2, <1>9, <3>2, <3>4
  <2> QED BY <1>7, <2>1, <2>2, <2>3 DEF Ordered, InQueue
<1>13. InLine'
  <2> SUFFICES ASSUME NEW k \in 1..Len(queue'), NEW l \in 1..Len(queue'),
                      NEW i \in 1..Len(arrived), NEW j \in 1..Len(arrived),
                      k < l, queue'[k] = arrived[i], queue'[l] = arrived[j]
               PROVE  (type = "fifo" => i < j) /\ (type = "lifo" => j < i)
    BY <1>7 DEF InLine
  <2>1. g[k] < g[l]
    BY <1>2, <1>5 DEF Cut
  <2> QED BY <1>9, <2>1 DEF Ordered, InLine
<1> QED BY <1>11, <1>12, <1>13 DEF Ordered

LEMMA OrderedStep ==
  ASSUME MaxRetries \in Nat, QueueTyped, Ordered, [Q!Next]_(Q!vars)
  PROVE  Ordered'
<1> USE DEF Q!At
<1>0. \A w \in Workers : worker[w] \in WorkerStates
  BY DEF QueueTyped
<1>1. ASSUME NEW i \in Items, Q!Enqueue(i) PROVE Ordered'
  <2>1. CASE type = "delayed"
    BY <1>1, <2>1, QueueUntouched DEF Q!Enqueue, Ordered, OnlyRetriesWait
  <2> QED BY <1>1, <2>1, EnqueueKeepsOrder
<1>2. ASSUME NEW w \in Workers, Q!AcquireLock(w) \/ Q!ReleaseLock(w) PROVE Ordered'
  <2>1. PICK l \in {"idle", "in", "work"} : worker' = [worker EXCEPT ![w].at = l]
    BY <1>2 DEF Q!AcquireLock, Q!ReleaseLock
  <2>2. \A v \in Workers : worker'[v].seen = worker[v].seen
    BY <2>1, MoveEffect
  <2>3. /\ type' = type /\ queue' = queue /\ arrived' = arrived /\ times' = times
        /\ delay' = delay
    BY <1>2 DEF Q!AcquireLock, Q!ReleaseLock
  <2>4. OnlyRetriesWait'
    BY <2>2, <2>3 DEF Ordered, OnlyRetriesWait
  <2> QED BY <2>3, <2>4, QueueUntouched
<1>3. ASSUME NEW w \in Workers, Q!ZRange(w) PROVE Ordered'
  <2>1. PICK d \in delay :
          worker' = [worker EXCEPT ![w] = [at |-> "zrem", seen |-> {d.item}, hand |-> @.hand]]
    BY <1>3 DEF Q!ZRange
  <2>2. d.item \in Q!Attempts
    BY DEF QueueTyped
  <2>3. /\ worker'[w].seen = {d.item}
        /\ \A v \in Workers : v # w => worker'[v] = worker[v]
    BY <2>1, <2>2, SeeEffect
  <2>4. /\ type' = type /\ queue' = queue /\ arrived' = arrived /\ times' = times
        /\ delay' = delay
    BY <1>3 DEF Q!ZRange
  <2>5. OnlyRetriesWait'
    BY <2>3, <2>4 DEF Ordered, OnlyRetriesWait
  <2> QED BY <2>4, <2>5, QueueUntouched
<1>4. ASSUME NEW w \in Workers, Q!ZRem(w) PROVE Ordered'
  <2>1. worker[w].seen \in SUBSET Q!Attempts
    BY <1>0 DEF WorkerStates
  <2>2. /\ Q!Take(w, worker[w].seen, "in") /\ delay' \subseteq delay
        /\ type' = type /\ queue' = queue /\ arrived' = arrived
    BY <1>4 DEF Q!ZRem
  <2>3. /\ worker'[w].seen = {} /\ \A v \in Workers : v # w => worker'[v] = worker[v]
        /\ \A a \in Q!Attempts : a \notin worker[w].seen => times'[a] = times[a]
    BY <2>1, <2>2, TakeEffect
  <2>4. OnlyRetriesWait'
    BY <2>2, <2>3 DEF Ordered, OnlyRetriesWait
  <2>5. ASSUME NEW i \in 1..Len(arrived) PROVE times'[arrived[i]] = times[arrived[i]]
    <3>1. CASE type = "delayed"
      BY <2>5, <3>1 DEF Ordered, OnlyRetriesWait
    <3>2. CASE type # "delayed"
      <4>1. arrived[i] \in Q!Attempts /\ arrived[i].tries = 0
        BY DEF QueueTyped, Ordered, InQueue
      <4>2. \A a \in worker[w].seen : a.tries > 0
        BY <3>2 DEF Ordered, OnlyRetriesWait
      <4> QED BY <2>3, <4>1, <4>2
    <3> QED BY <3>1, <3>2
  <2> QED BY <2>2, <2>4, <2>5, QueueUntouched
<1>5. ASSUME NEW w \in Workers, Q!Finish(w) PROVE Ordered'
  <2>1. PICK a \in worker[w].hand : Q!Drop(w, a)
    BY <1>5 DEF Q!Finish
  <2>2. worker'[w].seen = {} /\ \A v \in Workers : v # w => worker'[v] = worker[v]
    BY <2>1, DropEffect
  <2>3. /\ type' = type /\ queue' = queue /\ arrived' = arrived /\ times' = times
        /\ delay' = delay
    BY <1>5 DEF Q!Finish
  <2>4. OnlyRetriesWait'
    BY <2>2, <2>3 DEF Ordered, OnlyRetriesWait
  <2> QED BY <2>3, <2>4, QueueUntouched
<1>6. ASSUME NEW w \in Workers, Q!RetryFailed(w) PROVE Ordered'
  <2>1. PICK a \in worker[w].hand :
          /\ Q!Drop(w, a)
          /\ delay' = delay \/ Q!Delay([a EXCEPT !.tries = @ + 1])
    BY <1>6 DEF Q!RetryFailed
  <2>2. worker'[w].seen = {} /\ \A v \in Workers : v # w => worker'[v] = worker[v]
    BY <2>1, DropEffect
  <2>3. type' = type /\ queue' = queue /\ arrived' = arrived /\ times' = times
    BY <1>6 DEF Q!RetryFailed
  <2>4. a \in Q!Attempts
    BY <1>0 DEF WorkerStates
  <2>5. [a EXCEPT !.tries = @ + 1].tries > 0
    BY <2>4 DEF Q!Attempts
  <2>6. \A d \in delay' : d \in delay \/ d.item.tries > 0
    <3> DEFINE b == [a EXCEPT !.tries = @ + 1]
    <3>1. b.tries > 0
      BY <2>5
    <3> HIDE DEF b
    <3>2. delay' = delay \/ delay' = delay \cup {[item |-> b, due |-> FALSE]}
      BY <2>1 DEF Q!Delay, b
    <3>3. [item |-> b, due |-> FALSE].item = b
      OBVIOUS
    <3> QED BY <3>1, <3>2, <3>3
  <2>7. OnlyRetriesWait'
    BY <2>2, <2>3, <2>6 DEF Ordered, OnlyRetriesWait
  <2> QED BY <2>3, <2>7, QueueUntouched
<1>7. ASSUME NEW w \in Workers, Q!Crash(w) PROVE Ordered'
  <2>1. Q!Free \in WorkerStates /\ Q!Free.seen = {}
    BY DEF Q!Free, WorkerStates
  <2>2. worker' = [worker EXCEPT ![w] = Q!Free]
    BY <1>7 DEF Q!Crash
  <2>3. worker'[w] = Q!Free /\ \A v \in Workers : v # w => worker'[v] = worker[v]
    BY <2>1, <2>2, OneWorker
  <2>4. /\ type' = type /\ queue' = queue /\ arrived' = arrived /\ times' = times
        /\ delay' = delay
    BY <1>7 DEF Q!Crash
  <2>5. OnlyRetriesWait'
    BY <2>1, <2>3, <2>4 DEF Ordered, OnlyRetriesWait
  <2> QED BY <2>4, <2>5, QueueUntouched
<1>8. CASE Q!Clear
  <2>1. /\ queue' = <<>> /\ arrived' = <<>> /\ type' = type /\ worker' = worker
        /\ delay' \subseteq delay
    BY <1>8 DEF Q!Clear
  <2> QED BY <2>1 DEF Ordered, OnlyRetriesWait, InQueue, InLine
<1>9. CASE Q!Due
  <2>1. \A d \in [item : Q!Attempts, due : BOOLEAN] : [d EXCEPT !.due = TRUE].item = d.item
    OBVIOUS
  <2>2. /\ type' = type /\ queue' = queue /\ arrived' = arrived /\ times' = times
        /\ worker' = worker
    BY <1>9 DEF Q!Due
  <2>3. \A d \in delay' : \E e \in delay : d.item = e.item
    BY <1>9, <2>1 DEF Q!Due, QueueTyped
  <2>4. OnlyRetriesWait'
    BY <2>2, <2>3 DEF Ordered, OnlyRetriesWait
  <2> QED BY <2>2, <2>4, QueueUntouched
<1>10. CASE Q!LockTimeout \/ UNCHANGED Q!vars
  BY <1>10, QueueUntouched DEF Q!LockTimeout, Q!vars, Ordered, OnlyRetriesWait
<1>11. ASSUME NEW w \in Workers, Q!Dequeue(w) PROVE Ordered'
  BY <1>11, DequeueKeepsOrder
<1> HIDE DEF Q!At
<1> QED
  BY <1>1, <1>2, <1>3, <1>4, <1>5, <1>6, <1>7, <1>8, <1>9, <1>10, <1>11 DEF Q!Next

(* Items leave the queue in the order of its type: the first of a FIFO, the last of a LIFO,
   one of the greatest priority (Enqueue, dequeueWithTimeout and the batch script of queue.go),
   with any number of workers, with locks or without, whatever crashes. *)
THEOREM ItemsInOrder ==
  ASSUME MaxRetries \in Nat, Types \subseteq {"fifo", "lifo", "priority", "delayed"}
  PROVE  Spec => InOrder
<1>1. Init => QueueBase /\ Ordered
  <2>1. Init => QueueBase
    BY QueueBaseHolds
  <2>2. ASSUME Q!Init PROVE Ordered
    <3>1. queue = <<>> /\ arrived = <<>> /\ delay = {} /\ \A w \in Workers : worker[w].seen = {}
      BY <2>2 DEF Q!Init, Q!Free
    <3> QED BY <3>1 DEF Ordered, OnlyRetriesWait, InQueue, InLine
  <2> QED BY <2>1, <2>2 DEF Init
<1>2. QueueBase /\ Ordered /\ [Next]_vars => QueueBase' /\ Ordered'
  BY QueueBaseHolds, OrderedStep, Steps DEF QueueBase
<1>3. QueueBase /\ Ordered /\ [Next]_vars =>
        [\A i, j \in 1..Len(arrived) :
           times[arrived[i]] = 0 /\ times'[arrived[i]] = 1 /\ times'[arrived[j]] = 0
             => CASE type = "fifo" -> i < j [] type = "lifo" -> j < i
                  [] type = "priority" -> Priority[arrived[j].id] <= Priority[arrived[i].id]]_(Q!vars)
  <2> SUFFICES ASSUME QueueTyped, Ordered, [Q!Next]_(Q!vars),
                      NEW i \in 1..Len(arrived), NEW j \in 1..Len(arrived),
                      times[arrived[i]] = 0, times'[arrived[i]] = 1, times'[arrived[j]] = 0
               PROVE  \/ type = "fifo" /\ i < j
                      \/ type = "lifo" /\ j < i
                      \/ type = "priority" /\ Priority[arrived[j].id] <= Priority[arrived[i].id]
    BY Steps DEF QueueBase
  <2>1. /\ arrived[i] \in Q!Attempts /\ arrived[i].tries = 0 /\ arrived[j] \in Q!Attempts
        /\ type # "delayed" /\ times[arrived[j]] \in Nat
    <3>1. arrived \in Seq(Q!Attempts) /\ times \in [Q!Attempts -> Nat]
      BY DEF QueueTyped
    <3>2. arrived[i] \in Q!Attempts /\ arrived[j] \in Q!Attempts
      BY <3>1
    <3>3. arrived[i].tries = 0
      BY DEF Ordered, InQueue
    <3>4. type # "delayed"
      <4>1. arrived # <<>>
        BY <3>1
      <4> QED BY <4>1 DEF Ordered, OnlyRetriesWait
    <3> QED BY <3>1, <3>2, <3>3, <3>4
  <2>2. times' # times
    OBVIOUS
  <2>3. PICK w \in Workers : Q!Dequeue(w) \/ Q!ZRem(w)
    BY <2>2 DEF Q!Next, Q!vars, Q!Enqueue, Q!AcquireLock, Q!ZRange, Q!ReleaseLock, Q!Finish,
                Q!RetryFailed, Q!Crash, Q!Clear, Q!Due, Q!LockTimeout
  <2>4. ~Q!ZRem(w)
    <3> SUFFICES ASSUME Q!ZRem(w) PROVE FALSE
      OBVIOUS
    <3>1. worker[w].seen \in SUBSET Q!Attempts
      BY DEF QueueTyped, WorkerStates
    <3>2. arrived[i] \in worker[w].seen
      BY <2>1, <3>1, TakeEffect DEF Q!ZRem
    <3> QED BY <2>1, <3>2 DEF Ordered, OnlyRetriesWait
  <2>5. PICK n \in 1..BatchSize :
          n <= Len(queue) /\ \E pop \in Q!Popped(n) : Q!Take(w, pop.taken, "in") /\ queue' = pop.left
    BY <2>3, <2>4 DEF Q!Dequeue
  <2>6. PICK pop \in Q!Popped(n) : Q!Take(w, pop.taken, "in") /\ queue' = pop.left
    BY <2>5
  <2>7. n \in 1..Len(queue) /\ queue \in Seq(Q!Attempts) /\ DOMAIN queue = 1..Len(queue)
    BY <2>5 DEF QueueTyped
  <2>8. pop.taken \in SUBSET Q!Attempts
    BY <2>7, PoppedCuts
  <2>9. PICK g, T : Cut(pop, g, T)
    BY <2>7, PoppedCuts
  <2>10. /\ \A a \in pop.taken : times'[a] = times[a] + 1
         /\ \A a \in Q!Attempts : a \notin pop.taken => times'[a] = times[a]
    BY <2>6, <2>8, TakeEffect
  <2>11. PICK t \in T : arrived[i] = queue[t] /\ t \in 1..Len(queue)
    <3>1. arrived[i] \in pop.taken
      BY <2>1, <2>10
    <3> QED BY <2>9, <3>1 DEF Cut
  <2>12. times[arrived[j]] = 0 /\ arrived[j] \notin pop.taken
    BY <2>1, <2>10
  <2>13. PICK p \in 1..Len(queue) : queue[p] = arrived[j]
    BY <2>12 DEF Ordered, InQueue
  <2>14. p \notin T
    BY <2>9, <2>12, <2>13 DEF Cut
  <2>15. CASE type = "priority"
    <3>1. t \in Q!Greatest
      BY <2>9, <2>11, <2>15 DEF Cut
    <3>2. Priority[queue[p].id] <= Priority[queue[t].id]
      BY <2>7, <3>1 DEF Q!Greatest
    <3> QED BY <2>11, <2>13, <2>15, <3>2
  <2>16. CASE type # "priority"
    <3>1. PICK k \in 1..Len(pop.left) : g[k] = p
      BY <2>9, <2>14 DEF Cut
    <3>2. t < p
      BY <2>9, <2>11, <2>16, <3>1 DEF Cut
    <3>3. (type = "fifo" => i < j) /\ (type = "lifo" => j < i)
      BY <2>11, <2>13, <3>2 DEF Ordered, InLine
    <3> QED BY <2>1, <2>16, <3>3 DEF QueueTyped
  <2> QED BY <2>15, <2>16
<1> QED BY <1>1, <1>2, <1>3, PTL DEF Spec, InOrder, Q!InOrder

(* While a lock is used and has not timed out under its holder, one worker at a time is
   between AcquireLock and ReleaseLock. *)
Alone == locking /\ ~lapsed
Shapes ==
  \A w \in Workers : /\ worker[w].at = "idle" => worker[w].hand = {}
                     /\ worker[w].at # "zrem" => worker[w].seen = {}
Locked == Alone => \A w \in Workers : worker[w].at \in {"in", "zrem"} => lock = w

(* An attempt waits in the delay set, or a worker has seen it there and not yet removed it. *)
Waits(a) == (\E d \in delay : d.item = a) \/ \E w \in Workers : a \in worker[w].seen
Fresh(a) == \A n \in 0..MaxRetries : n >= a.tries => times[[id |-> a.id, tries |-> n]] = 0
Last(a) ==
  times[a] = 1 /\ \A n \in 0..MaxRetries : n > a.tries => times[[id |-> a.id, tries |-> n]] = 0

(* An item is then in one place, as one attempt, and no later one has been made. *)
InOnePlace ==
  Alone =>
    /\ \A a : Waits(a) => Fresh(a)
    /\ \A a, b : Waits(a) /\ Waits(b) /\ a.id = b.id => a = b
    /\ \A w \in Workers : \A a \in worker[w].hand : Last(a)
    /\ \A v, w \in Workers : \A a \in worker[v].hand, b \in worker[w].hand :
         a.id = b.id => v = w /\ a = b
    /\ \A w \in Workers : \A a \in worker[w].hand : \A b : Waits(b) => a.id # b.id

LEMMA WaitingFacts ==
  ASSUME QueueTyped
  PROVE  /\ \A a : Waits(a) => a \in Q!Attempts
         /\ \A w \in Workers : \A a \in worker[w].hand : a \in Q!Attempts
  BY DEF QueueTyped, WorkerStates, Waits

LEMMA ShapesStep ==
  ASSUME QueueTyped, Shapes, [Q!Next]_(Q!vars)
  PROVE  Shapes'
<1> USE DEF Q!At
<1>0. \A w \in Workers : worker[w] \in WorkerStates
  BY DEF QueueTyped
<1>1. ASSUME NEW w \in Workers, Q!AcquireLock(w) PROVE Shapes'
  <2>1. worker' = [worker EXCEPT ![w].at = "in"] /\ worker[w].at = "idle"
    BY <1>1 DEF Q!AcquireLock
  <2>2. /\ worker'[w].at = "in" /\ worker'[w].seen = worker[w].seen
        /\ \A v \in Workers : v # w => worker'[v] = worker[v]
    BY <2>1, MoveEffect
  <2> QED BY <2>1, <2>2 DEF Shapes
<1>2. ASSUME NEW w \in Workers, Q!ReleaseLock(w) PROVE Shapes'
  <2>1. PICK l \in {"idle", "work"} :
          /\ worker' = [worker EXCEPT ![w].at = l] /\ worker[w].at = "in"
          /\ l = "idle" => worker[w].hand = {}
    BY <1>2 DEF Q!ReleaseLock
  <2>2. /\ worker'[w].at = l /\ worker'[w].seen = worker[w].seen
        /\ worker'[w].hand = worker[w].hand
        /\ \A v \in Workers : v # w => worker'[v] = worker[v]
    BY <2>1, MoveEffect
  <2> QED BY <2>1, <2>2 DEF Shapes
<1>3. ASSUME NEW w \in Workers, NEW as \in SUBSET Q!Attempts, Q!Take(w, as, "in") PROVE Shapes'
  <2>1. /\ worker'[w].at = "in" /\ worker'[w].seen = {} /\ worker'[w].hand = worker[w].hand \cup as
        /\ \A v \in Workers : v # w => worker'[v] = worker[v]
    BY <1>3, TakeEffect
  <2> QED BY <2>1 DEF Shapes
<1>4. ASSUME NEW w \in Workers, Q!Dequeue(w) PROVE Shapes'
  <2>1. PICK n \in 1..BatchSize :
          n <= Len(queue) /\ \E pop \in Q!Popped(n) : Q!Take(w, pop.taken, "in")
    BY <1>4 DEF Q!Dequeue
  <2>2. n \in 1..Len(queue) /\ queue \in Seq(Q!Attempts)
    BY <2>1 DEF QueueTyped
  <2>3. \A pop \in Q!Popped(n) : pop.taken \in SUBSET Q!Attempts
    BY <2>2, PoppedCuts
  <2> QED BY <1>3, <2>1, <2>3
<1>5. ASSUME NEW w \in Workers, Q!ZRange(w) PROVE Shapes'
  <2>1. PICK d \in delay :
          /\ worker' = [worker EXCEPT ![w] = [at |-> "zrem", seen |-> {d.item}, hand |-> @.hand]]
          /\ d.item \in Q!Attempts
    BY <1>5 DEF Q!ZRange, QueueTyped
  <2>2. /\ worker'[w].at = "zrem" /\ \A v \in Workers : v # w => worker'[v] = worker[v]
    BY <2>1, SeeEffect
  <2> QED BY <2>2 DEF Shapes
<1>6. ASSUME NEW w \in Workers, Q!ZRem(w) PROVE Shapes'
  BY <1>0, <1>3, <1>6 DEF Q!ZRem, WorkerStates
<1>7. ASSUME NEW w \in Workers, Q!Finish(w) \/ Q!RetryFailed(w) PROVE Shapes'
  <2>1. PICK a \in worker[w].hand : Q!Drop(w, a)
    BY <1>7 DEF Q!Finish, Q!RetryFailed
  <2>2. /\ worker'[w].at = IF worker[w].hand = {a} THEN "idle" ELSE "work"
        /\ worker'[w].seen = {} /\ worker'[w].hand = worker[w].hand \ {a}
        /\ \A v \in Workers : v # w => worker'[v] = worker[v]
    BY <2>1, DropEffect
  <2> QED BY <2>2 DEF Shapes
<1>8. ASSUME NEW w \in Workers, Q!Crash(w) PROVE Shapes'
  <2>1. Q!Free \in WorkerStates /\ Q!Free.seen = {} /\ Q!Free.hand = {}
    BY DEF Q!Free, WorkerStates
  <2>2. worker' = [worker EXCEPT ![w] = Q!Free]
    BY <1>8 DEF Q!Crash
  <2>3. worker'[w] = Q!Free /\ \A v \in Workers : v # w => worker'[v] = worker[v]
    BY <2>1, <2>2, OneWorker
  <2> QED BY <2>1, <2>3 DEF Shapes
<1>9. CASE worker' = worker
  BY <1>9 DEF Shapes
<1> HIDE DEF Q!At
<1> QED
  BY <1>1, <1>2, <1>4, <1>5, <1>6, <1>7, <1>8, <1>9 DEF Q!Next, Q!vars, Q!Enqueue, Q!Clear, Q!Due,
     Q!LockTimeout

LEMMA LockedStep ==
  ASSUME NoWorker \notin Workers, QueueTyped, Locked, [Q!Next]_(Q!vars)
  PROVE  Locked' /\ (Alone' => Alone)
<1> USE DEF Q!At
<1>0. Alone' => Alone
  BY DEF Alone, QueueTyped, Q!Next, Q!vars, Q!Enqueue, Q!AcquireLock, Q!Dequeue, Q!ZRange, Q!ZRem,
         Q!ReleaseLock, Q!Finish, Q!RetryFailed, Q!Crash, Q!Clear, Q!Due, Q!LockTimeout, Q!Mishap
<1> SUFFICES ASSUME Alone' PROVE \A v \in Workers : worker'[v].at \in {"in", "zrem"} => lock' = v
  BY <1>0 DEF Locked
<1>1. \A v \in Workers : worker[v].at \in {"in", "zrem"} => lock = v
  BY <1>0 DEF Locked
<1>2. ASSUME NEW w \in Workers, \A v \in Workers : v # w => worker'[v] = worker[v],
             \/ lock' = lock /\ (worker[w].at \in {"in", "zrem"} \/ worker'[w].at \notin {"in", "zrem"})
             \/ lock = NoWorker /\ lock' = w
             \/ worker[w].at = "in" /\ worker'[w].at \notin {"in", "zrem"}
      PROVE  \A v \in Workers : worker'[v].at \in {"in", "zrem"} => lock' = v
  BY <1>1, <1>2
<1>3. ASSUME NEW w \in Workers, Q!AcquireLock(w)
      PROVE  \A v \in Workers : worker'[v].at \in {"in", "zrem"} => lock' = v
  <2>1. /\ worker' = [worker EXCEPT ![w].at = "in"] /\ lock = NoWorker /\ lock' = w
    BY <1>0, <1>3 DEF Q!AcquireLock, Alone
  <2> QED BY <1>2, <2>1, MoveEffect
<1>4. ASSUME NEW w \in Workers, Q!ReleaseLock(w)
      PROVE  \A v \in Workers : worker'[v].at \in {"in", "zrem"} => lock' = v
  <2>1. PICK l \in {"idle", "work"} :
          worker' = [worker EXCEPT ![w].at = l] /\ worker[w].at = "in"
    BY <1>4 DEF Q!ReleaseLock
  <2>2. worker'[w].at = l /\ \A v \in Workers : v # w => worker'[v] = worker[v]
    BY <2>1, MoveEffect
  <2> QED BY <1>2, <2>1, <2>2
<1>5. ASSUME NEW w \in Workers, Q!Dequeue(w)
      PROVE  \A v \in Workers : worker'[v].at \in {"in", "zrem"} => lock' = v
  <2>1. /\ worker[w].at = "in" /\ lock' = lock
        /\ \A v \in Workers : v # w => worker'[v] = worker[v]
    BY <1>5 DEF Q!Dequeue, Q!Take, QueueTyped
  <2> QED BY <1>2, <2>1
<1>6. ASSUME NEW w \in Workers, Q!ZRange(w) \/ Q!ZRem(w)
      PROVE  \A v \in Workers : worker'[v].at \in {"in", "zrem"} => lock' = v
  <2>1. /\ worker[w].at \in {"in", "zrem"} /\ lock' = lock
        /\ \A v \in Workers : v # w => worker'[v] = worker[v]
    BY <1>6 DEF Q!ZRange, Q!ZRem, Q!Take, QueueTyped
  <2> QED BY <1>2, <2>1
<1>7. ASSUME NEW w \in Workers, Q!Finish(w) \/ Q!RetryFailed(w)
      PROVE  \A v \in Workers : worker'[v].at \in {"in", "zrem"} => lock' = v
  <2>1. PICK a \in worker[w].hand : Q!Drop(w, a)
    BY <1>7 DEF Q!Finish, Q!RetryFailed
  <2>2. /\ worker'[w].at \notin {"in", "zrem"}
        /\ \A v \in Workers : v # w => worker'[v] = worker[v]
    BY <2>1, DropEffect
  <2>3. lock' = lock
    BY <1>7 DEF Q!Finish, Q!RetryFailed
  <2> QED BY <1>2, <2>2, <2>3
<1>8. ASSUME NEW w \in Workers, Q!Crash(w)
      PROVE  \A v \in Workers : worker'[v].at \in {"in", "zrem"} => lock' = v
  <2>1. Q!Free \in WorkerStates /\ Q!Free.at = "idle"
    BY DEF Q!Free, WorkerStates
  <2>2. worker' = [worker EXCEPT ![w] = Q!Free] /\ lock' = lock
    BY <1>8 DEF Q!Crash
  <2>3. worker'[w] = Q!Free /\ \A v \in Workers : v # w => worker'[v] = worker[v]
    BY <2>1, <2>2, OneWorker
  <2> QED BY <1>2, <2>1, <2>2, <2>3
<1>9. CASE Q!LockTimeout
  <2>1. worker' = worker /\ lock \in Workers /\ worker[lock].at \notin {"in", "zrem"}
    BY <1>9 DEF Q!LockTimeout, Alone, QueueTyped
  <2> QED BY <1>1, <2>1
<1>10. CASE worker' = worker /\ lock' = lock
  BY <1>1, <1>10
<1> HIDE DEF Q!At
<1> QED
  BY <1>3, <1>4, <1>5, <1>6, <1>7, <1>8, <1>9, <1>10
     DEF Q!Next, Q!vars, Q!Enqueue, Q!Clear, Q!Due

(* Nothing is given out, and at most one fresh attempt of an item that is nowhere else starts
   to wait. *)
LEMMA WaitingKeepsPlace ==
  ASSUME InOnePlace, times' = times, Alone' => Alone, NEW X,
         \A a : Waits(a)' => Waits(a) \/ a \in X,
         \A w \in Workers : worker'[w].hand \subseteq worker[w].hand,
         Alone => \A x \in X : /\ Fresh(x) /\ \A y \in X : y = x
                               /\ \A b : Waits(b) /\ b.id = x.id => b = x
                               /\ \A w \in Workers : \A a \in worker'[w].hand : a.id # x.id
  PROVE  InOnePlace'
<1> SUFFICES ASSUME Alone'
             PROVE  /\ \A a : Waits(a)' => Fresh(a)'
                    /\ \A a, b : Waits(a)' /\ Waits(b)' /\ a.id = b.id => a = b
                    /\ \A w \in Workers : \A a \in worker'[w].hand : Last(a)'
                    /\ \A v, w \in Workers : \A a \in worker'[v].hand, b \in worker'[w].hand :
                         a.id = b.id => v = w /\ a = b
                    /\ \A w \in Workers : \A a \in worker'[w].hand : \A b : Waits(b)' => a.id # b.id
  BY DEF InOnePlace
<1>1. \A a : (Fresh(a)' <=> Fresh(a)) /\ (Last(a)' <=> Last(a))
  BY DEF Fresh, Last
<1>2. Alone
  OBVIOUS
<1>3. \A a : Waits(a)' => Fresh(a)'
  BY <1>1, <1>2 DEF InOnePlace
<1>4. \A a, b : Waits(a)' /\ Waits(b)' /\ a.id = b.id => a = b
  BY <1>2 DEF InOnePlace
<1>5. \A w \in Workers : \A a \in worker'[w].hand : Last(a)'
  BY <1>1, <1>2 DEF InOnePlace
<1>6. \A v, w \in Workers : \A a \in worker'[v].hand, b \in worker'[w].hand :
        a.id = b.id => v = w /\ a = b
  BY <1>2 DEF InOnePlace
<1>7. \A w \in Workers : \A a \in worker'[w].hand : \A b : Waits(b)' => a.id # b.id
  BY <1>2 DEF InOnePlace
<1> QED BY <1>3, <1>4, <1>5, <1>6, <1>7

(* Fresh attempts are given to one worker, and wait no more. *)
LEMMA TakingKeepsPlace ==
  ASSUME MaxRetries \in Nat, QueueTyped, InOnePlace, Alone' => Alone, NEW w \in Workers,
         NEW as \in SUBSET Q!Attempts, Q!Take(w, as, "in"),
         \A a : Waits(a)' => Waits(a),
         Alone => \A a \in as : /\ Fresh(a) /\ \A b \in as : a.id = b.id => a = b
                                /\ \A b : Waits(b)' => b.id # a.id
                                /\ \A v \in Workers : \A b \in worker[v].hand : b.id # a.id
  PROVE  InOnePlace'
<1> SUFFICES ASSUME Alone'
             PROVE  /\ \A a : Waits(a)' => Fresh(a)'
                    /\ \A a, b : Waits(a)' /\ Waits(b)' /\ a.id = b.id => a = b
                    /\ \A v \in Workers : \A a \in worker'[v].hand : Last(a)'
                    /\ \A u, v \in Workers : \A a \in worker'[u].hand, b \in worker'[v].hand :
                         a.id = b.id => u = v /\ a = b
                    /\ \A v \in Workers : \A a \in worker'[v].hand : \A b : Waits(b)' => a.id # b.id
  BY DEF InOnePlace
<1>1. /\ worker'[w].at = "in" /\ worker'[w].seen = {} /\ worker'[w].hand = worker[w].hand \cup as
      /\ \A v \in Workers : v # w => worker'[v] = worker[v]
      /\ \A a \in as : times'[a] = times[a] + 1
      /\ \A a \in Q!Attempts : a \notin as => times'[a] = times[a]
  BY TakeEffect
<1>2. Alone
  OBVIOUS
<1>3. /\ \A a : Waits(a) => a \in Q!Attempts
      /\ \A v \in Workers : \A a \in worker[v].hand : a \in Q!Attempts
  BY WaitingFacts
<1>4. /\ \A a \in Q!Attempts : /\ a.id \in Items /\ a.tries \in 0..MaxRetries
                               /\ a = [id |-> a.id, tries |-> a.tries]
      /\ \A i \in Items, n \in 0..MaxRetries :
           [id |-> i, tries |-> n] \in Q!Attempts /\ [id |-> i, tries |-> n].id = i
  BY AttemptFacts
<1>5. \A v \in Workers : \A a \in worker'[v].hand : a \in worker[v].hand \/ (v = w /\ a \in as)
  BY <1>1
<1>6. ASSUME NEW b \in Q!Attempts, \A a \in as : a.id # b.id
      PROVE  (Fresh(b) => Fresh(b)') /\ (Last(b) => Last(b)')
  <2>1. \A n \in 0..MaxRetries : [id |-> b.id, tries |-> n] \notin as
    BY <1>4, <1>6
  <2>2. \A n \in 0..MaxRetries :
          times'[[id |-> b.id, tries |-> n]] = times[[id |-> b.id, tries |-> n]]
    BY <1>1, <1>4, <2>1
  <2>3. times'[b] = times[b]
    BY <1>1, <1>6
  <2> QED BY <2>2, <2>3 DEF Fresh, Last
<1>7. ASSUME NEW a \in as PROVE Last(a)'
  <2>1. Fresh(a) /\ a \in Q!Attempts
    BY <1>2
  <2>2. times[a] = 0
    BY <1>4, <2>1 DEF Fresh
  <2>3. times'[a] = 1
    <3>1. times'[a] = times[a] + 1
      BY <1>1
    <3> QED BY <2>2, <3>1
  <2>4. ASSUME NEW n \in 0..MaxRetries, n > a.tries
        PROVE  times'[[id |-> a.id, tries |-> n]] = 0
    <3> DEFINE c == [id |-> a.id, tries |-> n]
    <3>1. c \in Q!Attempts /\ c.id = a.id /\ c.tries = n
      BY <1>4, <2>1
    <3>2. c \notin as
      <4>1. a.tries # n
        BY <1>4, <2>1, <2>4
      <4> QED BY <1>2, <3>1, <4>1
    <3>3. times[c] = 0
      BY <1>4, <2>1, <2>4 DEF Fresh
    <3> QED BY <1>1, <3>1, <3>2, <3>3
  <2> QED BY <2>3, <2>4 DEF Last
<1>8. \A a : Waits(a)' => Fresh(a)'
  BY <1>2, <1>3, <1>6 DEF InOnePlace
<1>9. \A a, b : Waits(a)' /\ Waits(b)' /\ a.id = b.id => a = b
  BY <1>2 DEF InOnePlace
<1>10. ASSUME NEW v \in Workers, NEW a \in worker'[v].hand PROVE Last(a)'
  BY <1>2, <1>3, <1>5, <1>6, <1>7, <1>10 DEF InOnePlace
<1>11. \A u, v \in Workers : \A a \in worker'[u].hand, b \in worker'[v].hand :
         a.id = b.id => u = v /\ a = b
  BY <1>2, <1>5 DEF InOnePlace
<1>12. \A v \in Workers : \A a \in worker'[v].hand : \A b : Waits(b)' => a.id # b.id
  BY <1>2, <1>5 DEF InOnePlace
<1> QED BY <1>8, <1>9, <1>10, <1>11, <1>12

LEMMA EnqueueKeepsPlace ==
  ASSUME MaxRetries \in Nat, QueueTyped, Chain, InOnePlace, Alone' => Alone,
         NEW i \in Items, Q!Enqueue(i)
  PROVE  InOnePlace'
<1> DEFINE x == Q!First(i)
<1>1. /\ x \in Q!Attempts /\ x.id = i /\ x.tries = 0 /\ x = [id |-> i, tries |-> 0]
  BY AttemptFacts DEF Q!First
<1>2. times[x] = 0 /\ times' = times /\ worker' = worker
  BY DEF Q!Enqueue
<1>3. ASSUME NEW a \in Q!Attempts, a.id = i, Below(a), a # x PROVE FALSE
  <2>1. a.tries \in Nat /\ a = [id |-> a.id, tries |-> a.tries] /\ 0 \in 0..MaxRetries
    BY AttemptFacts
  <2>2. 0 < a.tries
    BY <1>1, <1>3, <2>1
  <2>3. times[[id |-> a.id, tries |-> 0]] > 0
    BY <1>3, <2>1, <2>2 DEF Below
  <2> QED BY <1>1, <1>2, <1>3, <2>3
<1>4. \A a : Waits(a) => a \in Q!Attempts /\ Below(a)
  BY WaitingFacts DEF Waits, Chain
<1>5. \A w \in Workers : \A a \in worker[w].hand : a \in Q!Attempts /\ Below(a) /\ times[a] > 0
  BY WaitingFacts DEF Chain
<1>6. Fresh(x)
  <2> SUFFICES ASSUME NEW n \in 0..MaxRetries PROVE times[[id |-> i, tries |-> n]] = 0
    BY <1>1 DEF Fresh
  <2> DEFINE c == [id |-> i, tries |-> n]
  <2>1. c \in Q!Attempts /\ c.id = i /\ times[c] \in Nat
    BY AttemptFacts DEF QueueTyped
  <2>2. times[c] > 0 => Below(c) /\ c # x
    BY <1>2, <2>1 DEF Chain
  <2> HIDE DEF c, x
  <2>3. ~(times[c] > 0)
    BY <1>3, <2>1, <2>2
  <2>4. times[c] = 0
    BY <2>1, <2>3
  <2> QED BY <2>4 DEF c
<1>7. \A b : Waits(b) /\ b.id = x.id => b = x
  BY <1>1, <1>3, <1>4
<1>8. \A w \in Workers : \A a \in worker'[w].hand : a.id # x.id
  BY <1>1, <1>2, <1>3, <1>5
<1>9. \A a : Waits(a)' => Waits(a) \/ a \in {x}
  <2>1. delay' = delay \/ delay' = delay \cup {[item |-> x, due |-> FALSE]}
    BY DEF Q!Enqueue, Q!Delay
  <2>2. [item |-> x, due |-> FALSE].item = x
    OBVIOUS
  <2> HIDE DEF x
  <2> QED BY <1>2, <2>1, <2>2 DEF Waits
<1> HIDE DEF x
<1>10. \A w \in Workers : worker'[w].hand \subseteq worker[w].hand
  BY <1>2
<1> DEFINE X == {x}
<1>11. \A z \in X : /\ Fresh(z) /\ \A y \in X : y = z
                    /\ \A b : Waits(b) /\ b.id = z.id => b = z
                    /\ \A w \in Workers : \A a \in worker'[w].hand : a.id # z.id
  BY <1>6, <1>7, <1>8
<1>12. \A a : Waits(a)' => Waits(a) \/ a \in X
  BY <1>9
<1>13. times' = times
  BY <1>2
<1> HIDE DEF X
<1> QED BY <1>10, <1>11, <1>12, <1>13, WaitingKeepsPlace

LEMMA DequeueKeepsPlace ==
  ASSUME MaxRetries \in Nat, QueueTyped, Chain, Ordered, InOnePlace, Alone' => Alone,
         NEW w \in Workers, Q!Dequeue(w)
  PROVE  InOnePlace'
<1>1. PICK n \in 1..BatchSize :
        n <= Len(queue) /\ \E pop \in Q!Popped(n) : Q!Take(w, pop.taken, "in")
  BY DEF Q!Dequeue
<1>2. PICK pop \in Q!Popped(n) : Q!Take(w, pop.taken, "in")
  BY <1>1
<1>3. n \in 1..Len(queue) /\ queue \in Seq(Q!Attempts)
  BY <1>1 DEF QueueTyped
<1>4. pop.taken \in SUBSET Q!Attempts
  BY <1>3, PoppedCuts
<1>5. PICK g, T : Cut(pop, g, T)
  BY <1>3, PoppedCuts
<1>6. \A a \in pop.taken : a.tries = 0 /\ times[a] = 0 /\ a \in Q!Attempts
  <2>1. \A k \in 1..Len(queue) : queue[k].tries = 0 /\ times[queue[k]] = 0
    BY DEF Chain, Ordered, InQueue
  <2>2. \A a \in pop.taken : \E k \in 1..Len(queue) : a = queue[k]
    BY <1>5 DEF Cut
  <2> QED BY <1>4, <2>1, <2>2
<1>7. \A a \in Q!Attempts : a = [id |-> a.id, tries |-> a.tries] /\ a.tries \in Nat /\ a.id \in Items
  BY AttemptFacts
<1>8. \A a, b \in pop.taken : a.id = b.id => a = b
  BY <1>6, <1>7
<1>9. ASSUME NEW a \in pop.taken, NEW c \in Q!Attempts, c.id = a.id, c.tries > 0 \/ times[c] > 0
      PROVE  ~Below(c)
  <2>1. 0 \in 0..MaxRetries
    OBVIOUS
  <2>2. c.tries > 0 /\ a = [id |-> c.id, tries |-> 0]
    BY <1>6, <1>7, <1>9
  <2> QED BY <1>6, <2>1, <2>2 DEF Below
<1>10. \A a \in pop.taken : Fresh(a)
  <2> SUFFICES ASSUME NEW a \in pop.taken, NEW m \in 0..MaxRetries
               PROVE  times[[id |-> a.id, tries |-> m]] = 0
    BY DEF Fresh
  <2> DEFINE c == [id |-> a.id, tries |-> m]
  <2>1. c \in Q!Attempts /\ c.id = a.id /\ times[c] \in Nat
    BY <1>6, <1>7, AttemptFacts DEF QueueTyped
  <2>2. times[c] > 0 => Below(c)
    BY <2>1 DEF Chain
  <2> HIDE DEF c
  <2>3. times[c] = 0
    BY <1>9, <2>1, <2>2
  <2> QED BY <2>3 DEF c
<1>11. ASSUME NEW a \in pop.taken, NEW b, Waits(b) PROVE b.id # a.id
  <2>1. b \in Q!Attempts /\ Below(b) /\ b.tries > 0
    BY <1>11, WaitingFacts DEF Waits, Chain, Ordered, OnlyRetriesWait, Q!Dequeue
  <2> QED BY <1>9, <2>1
<1>12. ASSUME NEW a \in pop.taken, NEW v \in Workers, NEW b \in worker[v].hand PROVE b.id # a.id
  <2>1. b \in Q!Attempts /\ times[b] > 0 /\ Below(b)
    BY WaitingFacts DEF Chain
  <2> QED BY <1>9, <2>1
<1>13. \A a : Waits(a)' => Waits(a)
  <2>1. /\ worker'[w].seen = {} /\ \A v \in Workers : v # w => worker'[v] = worker[v]
    BY <1>2, <1>4, TakeEffect
  <2>2. delay' = delay
    BY DEF Q!Dequeue
  <2> QED BY <2>1, <2>2 DEF Waits
<1> QED BY <1>2, <1>4, <1>8, <1>10, <1>11, <1>12, <1>13, TakingKeepsPlace

LEMMA NoOtherWaits ==
  ASSUME InOnePlace, times' = times, Alone' => Alone, \A a : Waits(a)' => Waits(a),
         \A w \in Workers : worker'[w].hand \subseteq worker[w].hand
  PROVE  InOnePlace'
<1> SUFFICES ASSUME Alone'
             PROVE  /\ \A a : Waits(a)' => Fresh(a)'
                    /\ \A a, b : Waits(a)' /\ Waits(b)' /\ a.id = b.id => a = b
                    /\ \A w \in Workers : \A a \in worker'[w].hand : Last(a)'
                    /\ \A v, w \in Workers : \A a \in worker'[v].hand, b \in worker'[w].hand :
                         a.id = b.id => v = w /\ a = b
                    /\ \A w \in Workers : \A a \in worker'[w].hand : \A b : Waits(b)' => a.id # b.id
  BY DEF InOnePlace
<1>1. \A a : (Fresh(a)' <=> Fresh(a)) /\ (Last(a)' <=> Last(a))
  BY DEF Fresh, Last
<1>2. Alone
  OBVIOUS
<1>3. \A a : Waits(a)' => Fresh(a)'
  BY <1>1, <1>2 DEF InOnePlace
<1>4. \A a, b : Waits(a)' /\ Waits(b)' /\ a.id = b.id => a = b
  BY <1>2 DEF InOnePlace
<1>5. \A w \in Workers : \A a \in worker'[w].hand : Last(a)'
  BY <1>1, <1>2 DEF InOnePlace
<1>6. \A v, w \in Workers : \A a \in worker'[v].hand, b \in worker'[w].hand :
        a.id = b.id => v = w /\ a = b
  BY <1>2 DEF InOnePlace
<1>7. \A w \in Workers : \A a \in worker'[w].hand : \A b : Waits(b)' => a.id # b.id
  BY <1>2 DEF InOnePlace
<1> QED BY <1>3, <1>4, <1>5, <1>6, <1>7

(* A worker that removes what it has seen takes it, since none other can have seen it. *)
LEMMA ZRemKeepsPlace ==
  ASSUME MaxRetries \in Nat, QueueTyped, Shapes, Locked, InOnePlace, Alone' => Alone,
         NEW w \in Workers, Q!ZRem(w)
  PROVE  InOnePlace'
<1> DEFINE as == worker[w].seen
<1>1. as \in SUBSET Q!Attempts
  BY DEF QueueTyped, WorkerStates
<1>2. /\ Q!Take(w, as, "in") /\ delay' = {d \in delay : d.item \notin as}
      /\ worker[w].at = "zrem"
  BY DEF Q!ZRem, Q!At
<1>3. \A a \in as : Waits(a)
  BY DEF Waits
<1>4. worker'[w].seen = {} /\ \A v \in Workers : v # w => worker'[v] = worker[v]
  BY <1>1, <1>2, TakeEffect
<1>5. \A a : Waits(a)' => Waits(a)
  BY <1>2, <1>4 DEF Waits
<1> HIDE DEF as
<1>6. ASSUME Alone, NEW a \in as
      PROVE  /\ Fresh(a) /\ \A b \in as : a.id = b.id => a = b
             /\ \A b : Waits(b)' => b.id # a.id
             /\ \A v \in Workers : \A b \in worker[v].hand : b.id # a.id
  <2>1. Waits(a)
    BY <1>3
  <2>2. Fresh(a)
    BY <1>6, <2>1 DEF InOnePlace
  <2>3. \A b \in as : a.id = b.id => a = b
    BY <1>3, <1>6 DEF InOnePlace
  <2>4. \A v \in Workers : \A b \in worker[v].hand : b.id # a.id
    BY <1>6, <2>1 DEF InOnePlace
  <2>5. ASSUME NEW b, Waits(b)', b.id = a.id PROVE FALSE
    <3>1. b = a
      BY <1>5, <1>6, <2>1, <2>5 DEF InOnePlace
    <3>2. \A d \in delay' : d.item # a
      BY <1>2
    <3>3. PICK v \in Workers : a \in worker'[v].seen
      BY <2>5, <3>1, <3>2 DEF Waits
    <3>4. v # w /\ a \in worker[v].seen
      BY <1>4, <3>3
    <3>5. worker[v].at = "zrem"
      BY <3>4 DEF Shapes
    <3> QED BY <1>2, <1>6, <3>4, <3>5 DEF Locked
  <2> QED BY <2>2, <2>3, <2>4, <2>5
<1> QED BY <1>1, <1>2, <1>5, <1>6, TakingKeepsPlace

(* What a worker has failed to handle it gives back as the next attempt. *)
LEMMA RetryKeepsPlace ==
  ASSUME MaxRetries \in Nat, QueueTyped, InOnePlace, Alone' => Alone,
         NEW w \in Workers, Q!RetryFailed(w)
  PROVE  InOnePlace'
<1>1. PICK a \in worker[w].hand :
        /\ Q!Drop(w, a)
        /\ delay' = delay \/ (~Q!Spent(a) /\ Q!Delay([a EXCEPT !.tries = @ + 1]))
  BY DEF Q!RetryFailed
<1>2. /\ worker'[w].seen = {} /\ worker'[w].hand = worker[w].hand \ {a}
      /\ \A v \in Workers : v # w => worker'[v] = worker[v]
  BY <1>1, DropEffect
<1>3. times' = times
  BY DEF Q!RetryFailed
<1>4. \A v \in Workers : worker'[v].hand \subseteq worker[v].hand
  BY <1>2
<1>5. CASE delay' = delay
  <2>1. \A b : Waits(b)' => Waits(b)
    BY <1>2, <1>5 DEF Waits
  <2> QED BY <1>3, <1>4, <2>1, NoOtherWaits
<1>6. CASE ~Q!Spent(a) /\ Q!Delay([a EXCEPT !.tries = @ + 1])
  <2> DEFINE x == [a EXCEPT !.tries = @ + 1]
  <2>1. a \in Q!Attempts
    BY WaitingFacts
  <2>2. x.id = a.id /\ x.tries = a.tries + 1
    BY <2>1 DEF Q!Attempts
  <2>3. delay' = delay \cup {[item |-> x, due |-> FALSE]}
    BY <1>6 DEF Q!Delay
  <2>4. [item |-> x, due |-> FALSE].item = x
    OBVIOUS
  <2> HIDE DEF x
  <2>5. \A b : Waits(b)' => Waits(b) \/ b \in {x}
    BY <1>2, <2>3, <2>4 DEF Waits
  <2>6. ASSUME Alone
        PROVE  /\ Fresh(x) /\ \A b : Waits(b) /\ b.id = x.id => b = x
               /\ \A v \in Workers : \A b \in worker'[v].hand : b.id # x.id
    <3>1. Last(a)
      BY <2>6 DEF InOnePlace
    <3>2. a.tries \in Nat
      BY <2>1, AttemptFacts
    <3>3. \A n \in 0..MaxRetries : n >= a.tries + 1 => n > a.tries
      BY <3>2
    <3>4. Fresh(x)
      BY <2>2, <3>1, <3>3 DEF Fresh, Last
    <3>5. \A b : Waits(b) => b.id # a.id
      BY <2>6 DEF InOnePlace
    <3>6. ASSUME NEW v \in Workers, NEW b \in worker'[v].hand, b.id = a.id PROVE FALSE
      <4>1. b \in worker[v].hand
        BY <1>4
      <4>2. v = w /\ b = a
        BY <2>6, <3>6, <4>1 DEF InOnePlace
      <4> QED BY <1>2, <3>6, <4>2
    <3> QED BY <2>2, <3>4, <3>5, <3>6
  <2>7. Alone => \A z \in {x} : /\ Fresh(z) /\ \A y \in {x} : y = z
                                /\ \A b : Waits(b) /\ b.id = z.id => b = z
                                /\ \A v \in Workers : \A b \in worker'[v].hand : b.id # z.id
    BY <2>6
  <2> QED BY <1>3, <1>4, <2>5, <2>7, WaitingKeepsPlace
<1> QED BY <1>1, <1>5, <1>6

(* No new attempt waits, and none is given out. *)
LEMMA NothingNewWaits ==
  ASSUME InOnePlace, times' = times, Alone' => Alone,
         \A d \in delay' : \E e \in delay : e.item = d.item,
         \A w \in Workers : /\ worker'[w].seen \subseteq worker[w].seen
                            /\ worker'[w].hand \subseteq worker[w].hand
  PROVE  InOnePlace'
<1>1. \A a : Waits(a)' => Waits(a)
  BY DEF Waits
<1> QED BY <1>1, NoOtherWaits

LEMMA InOnePlaceStep ==
  ASSUME MaxRetries \in Nat, QueueTyped, Chain, Ordered, Shapes, Locked, InOnePlace,
         Alone' => Alone, [Q!Next]_(Q!vars)
  PROVE  InOnePlace'
<1>1. ASSUME NEW w \in Workers, Q!AcquireLock(w) \/ Q!ReleaseLock(w) PROVE InOnePlace'
  <2>1. PICK l \in {"idle", "in", "work"} : worker' = [worker EXCEPT ![w].at = l]
    BY <1>1 DEF Q!AcquireLock, Q!ReleaseLock
  <2>2. \A v \in Workers : worker'[v].seen = worker[v].seen /\ worker'[v].hand = worker[v].hand
    BY <2>1, MoveEffect
  <2>3. delay' = delay /\ times' = times
    BY <1>1 DEF Q!AcquireLock, Q!ReleaseLock
  <2> QED BY <2>2, <2>3, NothingNewWaits
<1>2. ASSUME NEW w \in Workers, Q!ZRange(w) PROVE InOnePlace'
  <2>1. PICK d \in delay :
          worker' = [worker EXCEPT ![w] = [at |-> "zrem", seen |-> {d.item}, hand |-> @.hand]]
    BY <1>2 DEF Q!ZRange
  <2>2. d.item \in Q!Attempts
    BY DEF QueueTyped
  <2>3. /\ worker'[w].seen = {d.item} /\ worker'[w].hand = worker[w].hand
        /\ \A v \in Workers : v # w => worker'[v] = worker[v]
    BY <2>1, <2>2, SeeEffect
  <2>4. delay' = delay /\ times' = times
    BY <1>2 DEF Q!ZRange
  <2>5. \A a : Waits(a)' => Waits(a)
    BY <2>3, <2>4 DEF Waits
  <2>6. \A v \in Workers : worker'[v].hand \subseteq worker[v].hand
    BY <2>3
  <2> QED BY <2>4, <2>5, <2>6, NoOtherWaits
<1>3. ASSUME NEW w \in Workers, Q!Finish(w) PROVE InOnePlace'
  <2>1. PICK a \in worker[w].hand : Q!Drop(w, a)
    BY <1>3 DEF Q!Finish
  <2>2. /\ worker'[w].seen = {} /\ worker'[w].hand = worker[w].hand \ {a}
        /\ \A v \in Workers : v # w => worker'[v] = worker[v]
    BY <2>1, DropEffect
  <2>3. delay' = delay /\ times' = times
    BY <1>3 DEF Q!Finish
  <2> QED BY <2>2, <2>3, NothingNewWaits
<1>4. ASSUME NEW w \in Workers, Q!Crash(w) PROVE InOnePlace'
  <2>1. Q!Free \in WorkerStates /\ Q!Free.seen = {} /\ Q!Free.hand = {}
    BY DEF Q!Free, WorkerStates
  <2>2. worker' = [worker EXCEPT ![w] = Q!Free] /\ delay' = delay /\ times' = times
    BY <1>4 DEF Q!Crash
  <2>3. worker'[w] = Q!Free /\ \A v \in Workers : v # w => worker'[v] = worker[v]
    BY <2>1, <2>2, OneWorker
  <2> QED BY <2>1, <2>2, <2>3, NothingNewWaits
<1>5. CASE Q!Clear
  <2>1. worker' = worker /\ times' = times /\ delay' \subseteq delay
    BY <1>5 DEF Q!Clear
  <2> QED BY <2>1, NothingNewWaits
<1>6. CASE Q!Due
  <2>1. worker' = worker /\ times' = times
    BY <1>6 DEF Q!Due
  <2>2. \A d \in [item : Q!Attempts, due : BOOLEAN] : [d EXCEPT !.due = TRUE].item = d.item
    OBVIOUS
  <2>3. \A d \in delay' : \E e \in delay : e.item = d.item
    BY <1>6, <2>2 DEF Q!Due, QueueTyped
  <2> QED BY <2>1, <2>3, NothingNewWaits
<1>7. CASE Q!LockTimeout \/ UNCHANGED Q!vars
  <2>1. worker' = worker /\ times' = times /\ delay' = delay
    BY <1>7 DEF Q!LockTimeout, Q!vars
  <2> QED BY <2>1, NothingNewWaits
<1> QED
  BY <1>1, <1>2, <1>3, <1>4, <1>5, <1>6, <1>7, EnqueueKeepsPlace, DequeueKeepsPlace,
     ZRemKeepsPlace, RetryKeepsPlace DEF Q!Next

(* No attempt has been given out twice, nor has a first one that came through the queue. *)
AtMostOnce ==
  \A a \in Q!Attempts : (type # "delayed" /\ a.tries = 0) \/ Alone => times[a] <= 1

LEMMA AtMostOnceStep ==
  ASSUME MaxRetries \in Nat, QueueTyped, Ordered, InOnePlace, AtMostOnce, Alone' => Alone,
         [Q!Next]_(Q!vars)
  PROVE  AtMostOnce'
<1>0. type' = type
  BY DEF Q!Next, Q!vars, Q!Enqueue, Q!AcquireLock, Q!Dequeue, Q!ZRange, Q!ZRem, Q!ReleaseLock,
         Q!Finish, Q!RetryFailed, Q!Crash, Q!Clear, Q!Due, Q!LockTimeout
<1>1. CASE times' = times
  BY <1>0, <1>1 DEF AtMostOnce
<1>2. ASSUME NEW w \in Workers, NEW as \in SUBSET Q!Attempts, Q!Take(w, as, "in"),
             \A a \in as : (type # "delayed" /\ a.tries = 0) \/ Alone => times[a] = 0
      PROVE  AtMostOnce'
  <2> SUFFICES ASSUME NEW a \in Q!Attempts, (type # "delayed" /\ a.tries = 0) \/ Alone
               PROVE  times'[a] <= 1
    BY <1>0 DEF AtMostOnce
  <2>1. CASE a \in as
    <3>1. times'[a] = times[a] + 1
      BY <1>2, <2>1, TakeEffect
    <3>2. times[a] = 0
      BY <1>2, <2>1
    <3> QED BY <3>1, <3>2
  <2>2. CASE a \notin as
    <3>1. times'[a] = times[a]
      BY <1>2, <2>2, TakeEffect
    <3> QED BY <3>1 DEF AtMostOnce
  <2> QED BY <2>1, <2>2
<1>3. ASSUME NEW w \in Workers, Q!Dequeue(w) PROVE AtMostOnce'
  <2>1. PICK n \in 1..BatchSize :
          n <= Len(queue) /\ \E pop \in Q!Popped(n) : Q!Take(w, pop.taken, "in")
    BY <1>3 DEF Q!Dequeue
  <2>2. PICK pop \in Q!Popped(n) : Q!Take(w, pop.taken, "in")
    BY <2>1
  <2>3. n \in 1..Len(queue) /\ queue \in Seq(Q!Attempts)
    BY <2>1 DEF QueueTyped
  <2>4. pop.taken \in SUBSET Q!Attempts
    BY <2>3, PoppedCuts
  <2>5. PICK g, T : Cut(pop, g, T)
    BY <2>3, PoppedCuts
  <2>6. \A a \in pop.taken : \E k \in 1..Len(queue) : a = queue[k]
    BY <2>5 DEF Cut
  <2>7. \A a \in pop.taken : times[a] = 0
    BY <2>6 DEF Ordered, InQueue
  <2> QED BY <1>2, <2>2, <2>4, <2>7
<1>4. ASSUME NEW w \in Workers, Q!ZRem(w) PROVE AtMostOnce'
  <2>1. worker[w].seen \in SUBSET Q!Attempts /\ Q!Take(w, worker[w].seen, "in")
    BY <1>4 DEF QueueTyped, WorkerStates, Q!ZRem
  <2>2. ASSUME NEW a \in worker[w].seen, type # "delayed" PROVE a.tries # 0
    BY <2>2, AttemptFacts DEF Ordered, OnlyRetriesWait
  <2>3. ASSUME NEW a \in worker[w].seen, Alone PROVE times[a] = 0
    <3>1. Fresh(a)
      BY <2>3 DEF InOnePlace, Waits
    <3>2. a.tries \in 0..MaxRetries /\ a.tries >= a.tries /\ a = [id |-> a.id, tries |-> a.tries]
      BY <2>1, AttemptFacts
    <3> QED BY <3>1, <3>2 DEF Fresh
  <2> QED BY <1>2, <2>1, <2>2, <2>3
<1> QED
  BY <1>1, <1>3, <1>4 DEF Q!Next, Q!vars, Q!Enqueue, Q!AcquireLock, Q!ZRange, Q!ReleaseLock,
     Q!Finish, Q!RetryFailed, Q!Crash, Q!Clear, Q!Due, Q!LockTimeout

(* An attempt is given to one worker only, but for a delayed one where no lock is used or one
   has timed out under its holder (processDelayedQueue of queue.go reads with ZRANGEBYSCORE and
   removes with ZREM): for any number of workers and items, whatever crashes. *)
THEOREM GivenToOne ==
  ASSUME MaxRetries \in Nat, NoWorker \notin Workers
  PROVE  Spec => []GivenOnce
<1> DEFINE IInv == QueueBase /\ Ordered /\ Shapes /\ Locked /\ InOnePlace /\ AtMostOnce
<1>1. Init => IInv
  <2>1. Init => QueueBase
    BY QueueBaseHolds
  <2>2. ASSUME Q!Init PROVE Ordered /\ Shapes /\ Locked /\ InOnePlace /\ AtMostOnce
    <3>1. /\ queue = <<>> /\ arrived = <<>> /\ delay = {}
          /\ \A w \in Workers : worker[w] = Q!Free
          /\ \A a \in Q!Attempts : times[a] = 0
      BY <2>2 DEF Q!Init
    <3>2. \A w \in Workers : worker[w].seen = {} /\ worker[w].hand = {} /\ worker[w].at = "idle"
      BY <3>1 DEF Q!Free
    <3>3. Ordered
      BY <3>1, <3>2 DEF Ordered, OnlyRetriesWait, InQueue, InLine
    <3>4. Shapes /\ Locked
      BY <3>2 DEF Shapes, Locked
    <3>5. InOnePlace
      BY <3>1, <3>2 DEF InOnePlace, Waits
    <3>6. AtMostOnce
      BY <3>1 DEF AtMostOnce
    <3> QED BY <3>3, <3>4, <3>5, <3>6
  <2> QED BY <2>1, <2>2 DEF Init
<1>2. IInv /\ [Next]_vars => IInv'
  <2> SUFFICES ASSUME IInv, [Next]_vars PROVE IInv'
    OBVIOUS
  <2>1. QueueTyped /\ Chain /\ [Q!Next]_(Q!vars)
    BY Steps DEF QueueBase
  <2>2. Locked' /\ (Alone' => Alone)
    BY <2>1, LockedStep
  <2>3. QueueBase'
    BY QueueBaseHolds
  <2>4. Ordered' /\ Shapes'
    BY <2>1, OrderedStep, ShapesStep
  <2>5. InOnePlace'
    BY <2>1, <2>2, InOnePlaceStep
  <2>6. AtMostOnce'
    BY <2>1, <2>2, AtMostOnceStep
  <2> QED BY <2>2, <2>3, <2>4, <2>5, <2>6
<1>3. IInv => GivenOnce
  BY DEF AtMostOnce, Alone, GivenOnce, Q!GivenOnce
<1> QED BY <1>1, <1>2, <1>3, PTL DEF Spec
=============================================================================
