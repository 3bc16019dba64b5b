---------------------------- MODULE BcacheProofs ----------------------------
(***************************************************************************)
(* For any number of buffers, blocks, callers and readers: no block is in  *)
(* two buffers and every b->refcnt is exact (BuffersExact), recycling      *)
(* buffers loses no update (UpdatesKept), log_write() does not panic and   *)
(* within BufferBudget neither does bget() (NoPanic).  The inductive       *)
(* invariant is IInv of BcacheStepProofs.                                  *)
(*                                                                         *)
(* FiniteSetTheorems, from which Counting is proved, is instantiated only  *)
(* at the end: its theorems would be in the scope of every other proof.    *)
(***************************************************************************)
EXTENDS BcacheStepProofs

(* ---- begin_op(), log_write() and end_op() ---- *)

\* The slots that some callers reserved are finitely many.
LEMMA FiniteSlots ==
  ASSUME Counting, NEW S \in SUBSET Callers, NEW R \in SUBSET (S \X (1..MAXOPBLOCKS))
  PROVE  /\ IsFiniteSet(S) /\ Cardinality(S) \in Nat
         /\ IsFiniteSet(R) /\ Cardinality(R) \in Nat
         /\ Cardinality(R) <= Cardinality(S) * MAXOPBLOCKS
<1>1. IsFiniteSet(S) /\ Cardinality(S) \in Nat
  BY CountSubset, CountNat, BcacheAssumption, Zenon
<1>2. IsFiniteSet(1..MAXOPBLOCKS) /\ Cardinality(1..MAXOPBLOCKS) = MAXOPBLOCKS
  BY CountInterval, Constants
<1>3. /\ IsFiniteSet(S \X (1..MAXOPBLOCKS))
      /\ Cardinality(S \X (1..MAXOPBLOCKS)) = Cardinality(S) * MAXOPBLOCKS
  BY <1>1, <1>2, CountProduct, Zenon
<1> QED BY <1>1, <1>3, CountSubset, CountNat, Zenon

\* Every running call still has the slots beyond OpBlocks.
LEMMA ReservedLeast ==
  ASSUME Counting, IInv
  PROVE  /\ IsFiniteSet(Active) /\ outstanding = Cardinality(Active) /\ outstanding \in Nat
         /\ IsFiniteSet(Reserved) /\ Cardinality(Reserved) \in Nat
         /\ outstanding * (MAXOPBLOCKS - OpBlocks) <= Cardinality(Reserved)
<1> DEFINE T == (OpBlocks + 1)..MAXOPBLOCKS
<1>1. Active \in SUBSET Callers /\ Reserved \in SUBSET (Active \X (1..MAXOPBLOCKS))
  BY Zenon DEF Active, Reserved
<1>2. IsFiniteSet(Active) /\ Cardinality(Active) \in Nat /\ IsFiniteSet(Reserved) /\ Cardinality(Reserved) \in Nat
  BY <1>1, FiniteSlots, Zenon
<1>3. outstanding = Cardinality(Active)
  BY Zenon DEF IInv, Turns
<1>4. IsFiniteSet(T) /\ Cardinality(T) = MAXOPBLOCKS - OpBlocks
  BY CountInterval, Constants
<1>5. Active \X T \subseteq Reserved
  <2>1. \A q \in Active : Cardinality(wrote[q]) <= OpBlocks /\ Cardinality(wrote[q]) \in Nat
    <3>1. IsFiniteSet(Home)
      <4>1. 1 \in Int /\ NBLOCKS \in Int
        BY Constants, SMTT(30)
      <4> QED BY <4>1, CountInterval, Zenon DEF Home
    <3>2. \A q \in Active : wrote[q] \in SUBSET Home
      BY <1>1, Zenon DEF IInv, BuffersExact, TypeOK, Procs
    <3> QED BY <3>1, <3>2, CountSubset, CountNat, Zenon DEF IInv, Space
  <2>2. \A q \in Active, t \in T : t > Cardinality(wrote[q]) /\ t \in 1..MAXOPBLOCKS
    BY <2>1, Constants
  <2> HIDE DEF T
  <2>3. \A q \in Active, t \in T : <<q, t>> \in Reserved
    BY <2>2, Zenon DEF Reserved
  <2> QED BY <2>3
<1>6. Cardinality(Active \X T) = Cardinality(Active) * Cardinality(T)
  BY <1>2, <1>4, CountProduct, Zenon
<1>7. Cardinality(Active \X T) <= Cardinality(Reserved)
  BY <1>2, <1>5, CountSubset, Zenon
<1> QED BY <1>2, <1>3, <1>4, <1>6, <1>7, Zenon

\* A process in a call runs while nobody commits.
LEMMA CallCalm ==
  ASSUME IInv, NEW p \in Callers, Stage(p) = "call"
  PROVE  /\ p \in Active /\ committing = 0 /\ tail = 1 /\ unpinned = 0
         /\ \A q \in Callers : Stage(q) \in {"idle", "call"} /\ ~Commits(q)
<1>1. p \in Active /\ (0 = 1) = FALSE
  BY DEF Active
<1>2. committing = 0
  BY <1>1, Zenon DEF IInv, Turns, BuffersExact, TypeOK
<1>3. tail = 1 /\ unpinned = 0
  BY <1>2, Zenon DEF IInv, Progress
<1>4. \A q \in Callers : ~Commits(q)
  BY <1>1, Zenon DEF IInv, Turns
<1> QED BY <1>1, <1>2, <1>3, <1>4, Zenon DEF Commits

\* While nobody commits, a step into, within or out of a call leaves commit()'s progress alone.
Calm(p) ==
  /\ Moves(p) /\ committing = 0 /\ committing' = 0 /\ Stage(p)' \in {"idle", "call"}
  /\ UNCHANGED <<tail, unpinned>> /\ Len(lh)' \in Nat

\* Such a step of a call keeps what concerns commit().
LEMMA CalmKeeps ==
  ASSUME IInv, NEW p \in Callers, Calm(p)
  PROVE  /\ Progress' /\ Copied' /\ (\A q \in Callers : ~Commits(q)')
         /\ (\A q \in Callers \ {p} : Stage(q)' = Stage(q) /\ ~Commits(q))
         /\ Active' \ {p} = Active \ {p} /\ \A q \in Callers : ~Commits(q)
<1>1. \A q \in Callers \ {p} : Stage(q)' = Stage(q)
  <2>1. \A q \in Callers \ {p} : At(q)' = At(q)
    BY Zenon DEF Calm, Moves, At, Procs
  <2> QED BY <2>1, StageStays, Zenon
<1>2. \A q \in Callers : ~Commits(q)
  <2>1. (0 = 1) = FALSE
    OBVIOUS
  <2> QED BY <2>1, Zenon DEF IInv, Turns, Calm
<1>3. \A q \in Callers : Stage(q)' \in {"idle", "call"}
  BY <1>1, <1>2, Zenon DEF Commits, Calm
<1>4. tail' = 1 /\ unpinned' = 0
  BY Zenon DEF IInv, Progress, Calm
<1>5. unpinned' <= Len(lh)'
  BY <1>4 DEF Calm
<1>6. Progress'
  BY <1>3, <1>4, <1>5, Zenon DEF Progress
<1>7. Copied'
  BY <1>3, Zenon DEF Copied
<1>8. Active' \ {p} = Active \ {p}
  BY <1>1, Zenon DEF Active
<1> QED BY <1>1, <1>2, <1>3, <1>6, <1>7, <1>8, Zenon DEF Commits

\* begin_op() lets a call in when its reservation fits.
LEMMA BeginOpKeeps ==
  ASSUME Counting, IInv, NEW p \in Callers, BeginOp(p)
  PROVE  IInv'
<1>1. /\ pc[p] = "idle" /\ ops < MaxOps /\ committing # 1
      /\ ~(Len(lh) + (outstanding + 1) * MAXOPBLOCKS > LOGBLOCKS)
      /\ pc' = [pc EXCEPT ![p] = "call"] /\ outstanding' = outstanding + 1 /\ ops' = ops + 1
      /\ seen' = [seen EXCEPT ![p] = MaxBreads]
      /\ UNCHANGED <<bufVars, lru, disk, lh, committing, tail, unpinned>>
      /\ UNCHANGED <<then, bp, held, wrote, latest>>
  BY Zenon DEF BeginOp, MustWait
<1>2. p \in Procs /\ p \notin Readers /\ Stage(p) = "idle"
  BY <1>1, Constants, Zenon DEF Procs, At, Stage, Transit
<1>3. TypeOK /\ InHand(p) /\ Turns /\ Space
  BY <1>2, Zenon DEF IInv, BuffersExact, Hands
<1>4. outstanding \in Nat /\ Len(lh) \in Nat /\ ops \in 0..MaxOps /\ committing = 0
  BY <1>1, <1>3 DEF TypeOK
<1>5. TypeOK'
  <2>1. pc' \in [Procs -> Locations]
    BY <1>1, <1>3, Zenon DEF TypeOK, Locations
  <2>2. seen' \in [Procs -> 0..MaxBreads]
    <3>1. MaxBreads \in 0..MaxBreads
      BY Constants
    <3> QED BY <1>1, <1>3, <3>1, Zenon DEF TypeOK
  <2>3. ops' \in 0..MaxOps /\ outstanding' \in Nat
    BY <1>1, <1>4, Constants
  <2> QED BY <1>1, <1>3, <2>1, <2>2, <2>3, Zenon DEF TypeOK, bufVars
<1>6. Moves(p) /\ pc'[p] = "call" /\ At(p)' = "call" /\ pc'[p] \notin Transit /\ pc[p] \notin Transit
  BY <1>1, <1>2, <1>3, Zenon DEF Moves, TypeOK, At, Transit
<1>7. Locks' /\ OneBufferPerBlock' /\ Kept' /\ RefcntExact'
  BY <1>1, <1>2, <1>5, <1>6, HandsStay, Zenon
<1>8. Hands'
  <2>1. InHand(p)'
    <3>1. Len(held[p]) = 0
      BY <1>1, <1>3, Zenon DEF InHand, NoneHeld
    <3> QED BY <1>1, <1>2, <1>6, <3>1, Zenon DEF InHand, NoneHeld, OneHeld, TwoHeld, Transit
  <2>2. Asked(p)'
    BY <1>6, Zenon DEF Asked
  <2>3. BlocksStay
    BY <1>1, Zenon DEF BlocksStay, bufVars
  <2> QED BY <1>1, <1>2, <1>6, <2>1, <2>2, <2>3, OthersHands, Zenon DEF Hands
<1>9. Calm(p) /\ Stage(p)' = "call"
  <2>1. Stage(p)' = "call"
    BY <1>6, Zenon DEF Stage
  <2> QED BY <1>1, <1>4, <1>6, <2>1, Zenon DEF Calm
<1>10. /\ Progress' /\ Copied' /\ \A q \in Callers : ~Commits(q)'
       /\ Active' \ {p} = Active \ {p}
  BY <1>9, CalmKeeps, Zenon
<1>11. p \notin Active /\ Active' = Active \cup {p}
  BY <1>2, <1>9, <1>10, Zenon DEF Active
<1>12. outstanding' = Cardinality(Active') /\ IsFiniteSet(Active)
  BY <1>1, <1>11, ReservedLeast, CountAdd, Zenon
<1>13. Turns'
  <2>1. (0 = 1) = FALSE
    OBVIOUS
  <2> QED BY <1>1, <1>4, <1>10, <1>11, <1>12, <2>1, Zenon DEF Turns
<1>14. Space'
  <2>1. wrote[p] = {} /\ Cardinality({}) = 0
    BY <1>3, <1>11, CountEmpty, Zenon DEF Space
  <2>2. Cardinality(wrote[p]) <= OpBlocks /\ wrote[p] \subseteq Range(lh)
    BY <2>1, Constants, SMTT(30)
  <2>3. \A q \in Active' : Cardinality(wrote'[q]) <= OpBlocks /\ wrote'[q] \subseteq Range(lh)'
    BY <1>1, <1>3, <1>11, <2>2, Zenon DEF Space
  <2>4. \A q \in Callers : q \notin Active' => wrote'[q] = {}
    BY <1>1, <1>3, <1>11, Zenon DEF Space
  <2>5. Active' \in SUBSET Callers /\ Reserved' \in SUBSET (Active' \X (1..MAXOPBLOCKS))
    BY Zenon DEF Active, Reserved
  <2>6. Cardinality(Reserved') \in Nat /\ Cardinality(Reserved') <= outstanding' * MAXOPBLOCKS
    BY <1>12, <2>5, FiniteSlots, Zenon
  <2>7. outstanding' * MAXOPBLOCKS \in Nat /\ Len(lh) + outstanding' * MAXOPBLOCKS <= LOGBLOCKS
    BY <1>1, <1>4, Constants, SMTT(30)
  <2>8. Len(lh)' + Cardinality(Reserved') <= LOGBLOCKS /\ outstanding' * MAXOPBLOCKS <= LOGBLOCKS
    BY <1>1, <1>4, <2>6, <2>7, Constants
  <2>9. committing' # 1
    BY <1>1, Zenon
  <2> QED BY <2>3, <2>4, <2>8, <2>9, Zenon DEF Space
<1> QED BY <1>5, <1>7, <1>8, <1>10, <1>13, <1>14, Zenon DEF IInv, BuffersExact

\* end_op(): the last call commits what all of them logged.
LEMMA EndOpKeeps ==
  ASSUME Counting, IInv, NEW p \in Callers, EndOp(p)
  PROVE  IInv'
<1> DEFINE to == IF outstanding > 1 THEN "idle" ELSE IF lh = <<>> THEN "committed" ELSE "write_log"
<1>1. /\ pc[p] = "call" /\ outstanding' = outstanding - 1
      /\ committing' = (IF outstanding = 1 THEN 1 ELSE 0) /\ pc' = [pc EXCEPT ![p] = to]
      /\ wrote' = [wrote EXCEPT ![p] = {}] /\ seen' = [seen EXCEPT ![p] = 0]
      /\ UNCHANGED <<bufVars, lru, disk, lh, tail, unpinned>>
      /\ UNCHANGED <<then, bp, held, ops, latest>>
  BY Zenon DEF EndOp
<1>2. p \in Procs /\ p \notin Readers /\ Stage(p) = "call"
  BY <1>1, Constants, Zenon DEF Procs, At, Stage, Transit
<1>3. TypeOK /\ InHand(p) /\ Turns /\ Space
  BY <1>2, Zenon DEF IInv, BuffersExact, Hands
<1>4. /\ p \in Active /\ committing = 0 /\ tail = 1 /\ unpinned = 0
      /\ \A q \in Callers : Stage(q) \in {"idle", "call"} /\ ~Commits(q)
  BY <1>2, CallCalm, Zenon
<1>5. /\ IsFiniteSet(Active) /\ outstanding = Cardinality(Active) /\ outstanding \in Nat
      /\ IsFiniteSet(Reserved) /\ Cardinality(Reserved) \in Nat
      /\ outstanding * (MAXOPBLOCKS - OpBlocks) <= Cardinality(Reserved)
  BY ReservedLeast, Zenon
<1>6. outstanding >= 1 /\ Len(lh) \in Nat /\ lh \in Seq(Home)
  <2>1. outstanding # 0
    BY <1>4, <1>5, CountEmpty, Zenon
  <2> QED BY <1>3, <1>5, <2>1 DEF TypeOK
<1>7. to \in {"idle", "committed", "write_log"} /\ (to = "idle" <=> outstanding > 1)
      /\ (to = "committed" => lh = <<>>) /\ (to = "write_log" => lh # <<>>)
  BY Zenon
<1> HIDE DEF to
<1>8. TypeOK'
  <2>1. pc' \in [Procs -> Locations] /\ wrote' \in [Procs -> SUBSET Home]
    <3>1. to \in Locations /\ {} \in SUBSET Home
      BY <1>7, Zenon DEF Locations
    <3> QED BY <1>1, <1>3, <3>1, Zenon DEF TypeOK
  <2>2. seen' \in [Procs -> 0..MaxBreads]
    <3>1. 0 \in 0..MaxBreads
      BY Constants
    <3> QED BY <1>1, <1>3, <3>1, Zenon DEF TypeOK
  <2>3. outstanding' \in Nat /\ committing' \in {0, 1}
    BY <1>1, <1>5, <1>6, SMTT(30)
  <2> QED BY <1>1, <1>3, <2>1, <2>2, <2>3, Zenon DEF TypeOK, bufVars
<1>9. pc'[p] = to /\ wrote'[p] = {} /\ to \notin Transit /\ pc[p] \notin Transit
  BY <1>1, <1>2, <1>3, <1>7, Zenon DEF TypeOK, Transit
<1>10. Moves(p)
  BY <1>1, <1>2, <1>3, Zenon DEF Moves, TypeOK
<1>11. At(p)' = to /\ Stage(p)' = to
  BY <1>7, <1>9, Zenon DEF At, Stage, Transit
<1>12. Locks' /\ OneBufferPerBlock' /\ Kept' /\ RefcntExact'
  BY <1>1, <1>2, <1>8, <1>9, <1>10, HandsStay, Zenon
<1>13. Hands'
  <2>1. InHand(p)'
    <3>1. Len(held[p]) = 0
      BY <1>1, <1>3, Zenon DEF InHand, NoneHeld
    <3> QED BY <1>1, <1>2, <1>7, <1>9, <3>1, Zenon DEF InHand, NoneHeld, OneHeld, TwoHeld, Transit
  <2>2. Asked(p)'
    BY <1>7, <1>9, <1>11, Zenon DEF Asked
  <2>3. BlocksStay
    BY <1>1, Zenon DEF BlocksStay, bufVars
  <2> QED BY <1>1, <1>2, <1>10, <2>1, <2>2, <2>3, OthersHands, Zenon DEF Hands
<1>14. \A q \in Callers \ {p} : Stage(q)' = Stage(q)
  <2>1. \A q \in Callers \ {p} : At(q)' = At(q)
    BY <1>10, Zenon DEF Moves, At, Procs
  <2> QED BY <2>1, StageStays, Zenon
<1>15. Active' = Active \ {p} /\ \A q \in Callers \ {p} : ~Commits(q)'
  <2>1. to # "call"
    BY <1>7, Zenon
  <2> QED BY <1>4, <1>11, <1>14, <2>1, Zenon DEF Active, Commits
<1>16. outstanding' = Cardinality(Active')
  BY <1>1, <1>4, <1>5, <1>15, CountRemove, Zenon
<1>17. Reserved' \subseteq Reserved
  BY <1>1, <1>3, <1>15, Zenon DEF Reserved, TypeOK, Active, Procs
<1>18. Space'
  <2>1. \A q \in Active' : Cardinality(wrote'[q]) <= OpBlocks /\ wrote'[q] \subseteq Range(lh)'
    <3>1. \A q \in Active' : wrote'[q] = wrote[q] /\ q \in Active
      BY <1>10, <1>15, Zenon DEF Moves, Active, Procs
    <3> QED BY <1>1, <1>3, <3>1, Zenon DEF Space
  <2>2. \A q \in Callers : q \notin Active' => wrote'[q] = {}
    <3>1. \A q \in Callers \ {p} : wrote'[q] = wrote[q]
      BY <1>10, Zenon DEF Moves, Procs
    <3> QED BY <1>3, <1>9, <1>15, <3>1, Zenon DEF Space
  <2>3. Cardinality(Reserved') \in Nat /\ Cardinality(Reserved') <= Cardinality(Reserved)
    BY <1>5, <1>17, CountSubset, CountNat, Zenon
  <2>4. Len(lh) + Cardinality(Reserved) <= LOGBLOCKS /\ outstanding * MAXOPBLOCKS <= LOGBLOCKS
    BY <1>3, Zenon DEF Space
  <2>5. Len(lh)' + Cardinality(Reserved') <= LOGBLOCKS
    BY <1>1, <1>5, <1>6, <2>3, <2>4, Constants, SMTT(30)
  <2>6. outstanding' * MAXOPBLOCKS <= LOGBLOCKS
    <3>1. outstanding' * MAXOPBLOCKS = outstanding * MAXOPBLOCKS - MAXOPBLOCKS
      BY <1>1, <1>5, Constants
    <3>2. outstanding * MAXOPBLOCKS \in Nat
      BY <1>5, Constants, SMTT(30)
    <3> QED BY <2>4, <3>1, <3>2, Constants
  <2>7. committing' = 1 => Len(lh)' + MAXOPBLOCKS <= LOGBLOCKS + OpBlocks
    <3>1. committing' = 1 => outstanding = 1
      BY <1>1
    <3>2. outstanding = 1 => MAXOPBLOCKS - OpBlocks <= Cardinality(Reserved)
      BY <1>5, Constants
    <3> QED BY <1>1, <1>5, <1>6, <2>4, <3>1, <3>2, Constants, SMTT(30)
  <2> QED BY <2>1, <2>2, <2>5, <2>6, <2>7, Zenon DEF Space
<1>19. Turns' /\ Progress' /\ Copied'
  <2>1. CASE outstanding > 1
    <3>1. to = "idle" /\ committing' = 0 /\ outstanding' # 0 /\ (0 = 1) = FALSE
      BY <1>1, <1>5, <1>7, <2>1
    <3>2. Calm(p)
      BY <1>1, <1>4, <1>6, <1>10, <1>11, <3>1, Zenon DEF Calm
    <3>3. Progress' /\ Copied' /\ \A q \in Callers : ~Commits(q)'
      BY <3>2, CalmKeeps, Zenon
    <3>4. Active' # {}
      BY <1>16, <3>1, CountEmpty, Zenon
    <3> QED BY <1>16, <3>1, <3>3, <3>4, Zenon DEF Turns
  <2>2. CASE ~(outstanding > 1)
    <3>1. outstanding = 1 /\ to # "idle" /\ committing' = 1 /\ (1 = 0) = FALSE
      BY <1>1, <1>5, <1>6, <1>7, <2>2
    <3>2. Active' = {}
      <4>1. IsFiniteSet(Active') /\ Cardinality(Active') = 0
        BY <1>1, <1>5, <1>15, <1>16, <3>1, CountRemove
      <4> QED BY <4>1, CountEmpty, Zenon
    <3>3. Alone(p, to)
      BY <1>4, <1>11, <1>14, <1>15, <3>1, <3>2, Zenon DEF Alone, Active
    <3>4. Turns'
      BY <1>15, <1>16, <3>1, <3>2, Zenon DEF Turns
    <3>5. Progress'
      <4>1. lh # <<>> => 1 <= Len(lh)
        BY <1>6
      <4>2. unpinned' = 0 /\ tail' = 1 /\ unpinned' <= Len(lh)' /\ lh' = lh
        BY <1>1, <1>4, <1>6
      <4>3. to \in {"committed", "write_log"} /\ (to = "write_log" => tail' <= Len(lh)')
        BY <1>7, <3>1, <4>1, <4>2, Zenon
      <4> QED BY <1>7, <3>3, <4>2, <4>3, AloneProgress, Zenon
    <3>6. Copied'
      <4>1. \A t \in DOMAIN lh' : ~(t < tail')
        BY <1>1, <1>4, <1>6
      <4> QED BY <1>7, <3>3, <4>1, AloneCopied, Zenon
    <3> QED BY <3>4, <3>5, <3>6, Zenon
  <2> QED BY <2>1, <2>2, Zenon
<1> QED BY <1>8, <1>12, <1>13, <1>18, <1>19, Zenon DEF IInv, BuffersExact

\* What log_write() of block b, in buffer i, does to the list of blocks and the pins.
Logs(i, b) ==
  /\ i \in Bufs /\ b \in Home /\ lh' \in Seq(Home) /\ Len(lh) \in Nat
  /\ Len(lh)' = IF b \in Range(lh) THEN Len(lh) ELSE Len(lh) + 1
  /\ Range(lh') = Range(lh) \cup {b}
  /\ \A c : Pending(c)' <=> Pending(c) \/ c = b
  /\ \A j \in Bufs : j # i => Pins(j)' = Pins(j)
  /\ Cardinality(Pins(i)') = Cardinality(Pins(i)) + (IF b \in Range(lh) THEN 0 ELSE 1)

\* log_write() absorbs a block that is already listed and else appends it and pins
\* its buffer.
LEMMA LogWriteLogs ==
  ASSUME Counting, IInv, NEW i \in Bufs, NEW b \in Home, blockno[i] = b, unpinned = 0,
         UNCHANGED <<blockno, unpinned>>, lh' = IF b \in Range(lh) THEN lh ELSE Append(lh, b)
  PROVE  Logs(i, b)
<1>1. TypeOK /\ OneBufferPerBlock
  BY Zenon DEF IInv, BuffersExact
<1>2. lh \in Seq(Home) /\ Len(lh) \in Nat /\ DOMAIN lh = 1..Len(lh)
  BY <1>1, SMTT(30) DEF TypeOK
<1>3. \A c : Pending(c) <=> c \in Range(lh)
  BY <1>2 DEF Pending, Range
<1>4. IsFiniteSet(Pins(i)) /\ Cardinality(Pins(i)) \in Nat
  BY <1>1, Finite, Zenon
<1>5. CASE b \in Range(lh)
  <2>1. lh' = lh /\ Range(lh') = Range(lh) \cup {b}
    BY <1>5, Zenon DEF Range
  <2>2. \A c : Pending(c)' = Pending(c)
    BY <2>1, Zenon DEF Pending
  <2>3. \A j \in Bufs : Pins(j)' = Pins(j)
    BY <2>1, Zenon DEF Pins
  <2>4. Cardinality(Pins(i)') = Cardinality(Pins(i)) + 0
    BY <1>4, <2>3, SMTT(30)
  <2> QED BY <1>2, <1>3, <1>5, <2>1, <2>2, <2>3, <2>4, Zenon DEF Logs
<1>6. CASE b \notin Range(lh)
  <2> DEFINE n == Len(lh) + 1
  <2>1. /\ lh' = Append(lh, b) /\ lh' \in Seq(Home) /\ Len(lh)' = n /\ DOMAIN lh' = 1..n
        /\ lh'[n] = b /\ \A t \in DOMAIN lh : lh'[t] = lh[t]
    BY <1>2, <1>6, SMTT(30)
  <2>2. \A t : t \in DOMAIN lh' <=> t \in DOMAIN lh \/ t = n
    BY <1>2, <2>1, SMTT(30)
  <2>3. n \notin DOMAIN lh /\ \A t \in DOMAIN lh' : t > 0
    BY <1>2, <2>1
  <2> HIDE DEF n
  <2>4. \A c : Pending(c)' <=> c \in Range(lh')
    BY <2>3, Zenon DEF Pending, Range
  <2>5. Range(lh') = Range(lh) \cup {b}
    BY <2>1, <2>2, Zenon DEF Range
  <2>6. ASSUME NEW j \in Bufs PROVE Pins(j)' = IF j = i THEN Pins(j) \cup {n} ELSE Pins(j)
    <3>1. \A t : t \in Pins(j) <=> t \in DOMAIN lh /\ lh[t] = blockno[j]
      BY <1>2 DEF Pins
    <3>2. \A t : t \in Pins(j)' <=> t \in DOMAIN lh' /\ lh'[t] = blockno[j]
      BY <2>3, Zenon DEF Pins
    <3>3. CASE j = i
      BY <2>1, <2>2, <3>1, <3>2, <3>3, Zenon
    <3>4. CASE j # i
      <4>1. blockno[j] # b
        BY <1>1, <3>4, BlockNumbers, Zenon DEF OneBufferPerBlock
      <4> QED BY <2>1, <2>2, <3>1, <3>2, <3>4, <4>1, Zenon
    <3> QED BY <3>3, <3>4, Zenon
  <2>7. Pins(i)' = Pins(i) \cup {n} /\ n \notin Pins(i)
    BY <2>3, <2>6, Zenon DEF Pins
  <2>8. Cardinality(Pins(i)') = Cardinality(Pins(i)) + 1
    BY <1>4, <2>7, CountAdd, Zenon
  <2>9. \A c : Pending(c)' <=> Pending(c) \/ c = b
    BY <1>3, <2>4, <2>5, Zenon
  <2>10. \A j \in Bufs : j # i => Pins(j)' = Pins(j)
    BY <2>6, Zenon
  <2>11. lh' \in Seq(Home) /\ Len(lh) \in Nat /\ Len(lh)' = Len(lh) + 1
    BY <1>2, <2>1, Zenon DEF n
  <2> QED BY <1>6, <2>5, <2>8, <2>9, <2>10, <2>11, Zenon DEF Logs
<1> QED BY <1>5, <1>6, Zenon

\* log_write() uses one of the caller's reserved slots when it lengthens the list,
\* which it does only for a block the call has not logged yet.
LEMMA LogWriteSpace ==
  ASSUME Counting, IInv, NEW p \in Callers, NEW i, NEW b, Logs(i, b), Stage(p) = "call", Active' = Active,
         Cardinality(wrote[p] \cup {b}) <= OpBlocks, wrote' = [wrote EXCEPT ![p] = @ \cup {b}],
         UNCHANGED <<outstanding, committing>>
  PROVE  Space'
<1>1. TypeOK /\ Space /\ p \in Active /\ committing = 0
  BY CallCalm, Zenon DEF IInv, BuffersExact
<1>2. wrote'[p] = wrote[p] \cup {b} /\ \A q \in Callers \ {p} : wrote'[q] = wrote[q]
  BY <1>1, Zenon DEF TypeOK, Procs
<1>3. /\ IsFiniteSet(wrote[p]) /\ Cardinality(wrote[p]) \in Nat
      /\ Cardinality(wrote'[p]) = IF b \in wrote[p] THEN Cardinality(wrote[p]) ELSE Cardinality(wrote[p]) + 1
  <2>1. IsFiniteSet(Home)
    <3>1. 1 \in Int /\ NBLOCKS \in Int
      BY Constants, SMTT(30)
    <3> QED BY <3>1, CountInterval, Zenon DEF Home
  <2>2. wrote[p] \in SUBSET Home
    BY <1>1, Zenon DEF TypeOK, Procs
  <2>3. IsFiniteSet(wrote[p]) /\ Cardinality(wrote[p]) \in Nat
    BY <2>1, <2>2, CountSubset, CountNat, Zenon
  <2> QED BY <1>2, <2>3, CountAdd, Zenon
<1>4. \A q \in Callers : q \notin Active' => wrote'[q] = {}
  BY <1>1, <1>2, Zenon DEF Space
<1>5. \A q \in Active' : Cardinality(wrote'[q]) <= OpBlocks /\ wrote'[q] \subseteq Range(lh)'
  <2>1. Range(lh') = Range(lh) \cup {b}
    BY Zenon DEF Logs
  <2>2. ASSUME NEW q \in Active PROVE Cardinality(wrote'[q]) <= OpBlocks /\ wrote'[q] \subseteq Range(lh')
    <3>1. wrote[q] \subseteq Range(lh) /\ Cardinality(wrote[q]) <= OpBlocks /\ q \in Callers
      BY <1>1, Zenon DEF Space, Active
    <3> QED BY <1>2, <2>1, <3>1, Zenon
  <2> QED BY <2>2, Zenon
<1>6. IsFiniteSet(Reserved) /\ Cardinality(Reserved) \in Nat
  BY ReservedLeast, Zenon
<1>7. Len(lh) + Cardinality(Reserved) <= LOGBLOCKS
  BY <1>1, Zenon DEF Space
<1>8. Len(lh)' + Cardinality(Reserved') <= LOGBLOCKS
  <2>1. CASE b \in wrote[p]
    <3>1. b \in Range(lh)
      BY <1>1, <2>1, Zenon DEF Space
    <3>2. \A q \in Active : wrote'[q] = wrote[q]
      BY <1>2, <2>1, Zenon DEF Active
    <3>3. Reserved' = Reserved
      BY <3>2, Zenon DEF Reserved
    <3> QED BY <1>7, <3>1, <3>3, Zenon DEF Logs
  <2>2. CASE b \notin wrote[p]
    <3> DEFINE x == <<p, Cardinality(wrote[p]) + 1>>
    <3>1. Cardinality(wrote'[p]) = Cardinality(wrote[p]) + 1
      BY <1>3, <2>2, Zenon
    <3>2. x \in Reserved
      <4>1. Cardinality(wrote[p]) + 1 \in 1..MAXOPBLOCKS /\ Cardinality(wrote[p]) + 1 > Cardinality(wrote[p])
        <5>1. Cardinality(wrote[p]) + 1 <= OpBlocks
          BY <1>2, <3>1, Zenon
        <5> QED BY <1>3, <5>1, Constants
      <4> QED BY <1>1, <4>1, Zenon DEF Reserved
    <3>3. Reserved' \subseteq Reserved \ {x}
      <4>1. ASSUME NEW q \in Active, NEW t \in 1..MAXOPBLOCKS, t > Cardinality(wrote'[q])
            PROVE  <<q, t>> \in Reserved /\ <<q, t>> # x
        <5>1. CASE q = p
          <6>1. t > Cardinality(wrote[p]) /\ t # Cardinality(wrote[p]) + 1
            BY <1>3, <3>1, <4>1, <5>1, Constants, SMTT(30)
          <6> QED BY <5>1, <6>1, Zenon DEF Reserved
        <5>2. CASE q # p
          <6>1. t > Cardinality(wrote[q])
            BY <1>2, <4>1, <5>2, Zenon DEF Active
          <6> QED BY <5>2, <6>1, Zenon DEF Reserved
        <5> QED BY <5>1, <5>2, Zenon
      <4>2. \A y \in Reserved' : \E q \in Active, t \in 1..MAXOPBLOCKS : y = <<q, t>> /\ t > Cardinality(wrote'[q])
        BY DEF Reserved
      <4> HIDE DEF x
      <4>3. ASSUME NEW y \in Reserved' PROVE y \in Reserved /\ y # x
        <5>1. PICK q \in Active, t \in 1..MAXOPBLOCKS : y = <<q, t>> /\ t > Cardinality(wrote'[q])
          BY <4>2, Zenon
        <5>2. <<q, t>> \in Reserved /\ <<q, t>> # x
          BY <4>1, <5>1, Zenon
        <5> QED BY <5>1, <5>2, Zenon
      <4> QED BY <4>3, Zenon
    <3>4. IsFiniteSet(Reserved \ {x}) /\ Cardinality(Reserved \ {x}) = Cardinality(Reserved) - 1
      BY <1>6, <3>2, CountRemove, Zenon
    <3>5. Cardinality(Reserved') \in Nat /\ Cardinality(Reserved') <= Cardinality(Reserved \ {x})
      BY <3>3, <3>4, CountSubset, CountNat, Zenon
    <3>6. Len(lh)' <= Len(lh) + 1 /\ Len(lh)' \in Nat /\ Len(lh) \in Nat
      BY DEF Logs
    <3> QED BY <1>6, <1>7, <3>4, <3>5, <3>6, Constants
  <2> QED BY <2>1, <2>2, Zenon
<1>9. committing' # 1
  BY <1>1
<1> QED BY <1>1, <1>4, <1>5, <1>8, <1>9, Zenon DEF Space

\* log_write() of the buffer in hand: the update is pinned until it is installed.
LEMMA LogWriteKeeps ==
  ASSUME Counting, IInv, NEW p \in Callers, LogWrite(p)
  PROVE  IInv'
<1>0. InUse(p) \in Bufs /\ blockno[InUse(p)] \in Home /\ InUse(p) \in Range(held[p]) /\ Stage(p) = "call"
      /\ p \in Procs /\ p \notin Readers /\ valid[InUse(p)] = 1 /\ data[InUse(p)] = latest[blockno[InUse(p)]]
      /\ data[InUse(p)] \in {0, 1}
  <2>1. pc[p] = "using" /\ p \in Procs /\ p \notin Readers
    BY Constants, Zenon DEF LogWrite, Procs
  <2>2. At(p) = "using" /\ Stage(p) = "call"
    BY <2>1, Zenon DEF At, Stage, Transit
  <2>3. InHand(p) /\ Asked(p) /\ held[p] \in Seq(Bufs)
    BY <2>1, Zenon DEF IInv, Hands, BuffersExact, TypeOK
  <2>4. Len(held[p]) \in DOMAIN held[p]
    <3>1. Len(held[p]) \in {1, 2}
      BY <2>1, <2>3, Zenon DEF InHand
    <3>2. held[p] \in Seq(Bufs)
      BY <2>3, Zenon
    <3> QED BY <3>1, <3>2, SMTT(30)
  <2>5. blockno[InUse(p)] \in Home /\ InUse(p) \in Range(held[p])
    BY <2>2, <2>3, <2>4, Zenon DEF Asked, InUse, Range
  <2> QED BY <2>1, <2>2, <2>4, <2>5, HeldSees, Zenon DEF InUse
<1> PICK i \in Bufs : i = InUse(p)
  BY <1>0, Zenon
<1> PICK b \in Home : b = blockno[i]
  BY <1>0, Zenon
<1>1. /\ pc[p] = "using" /\ Cardinality(wrote[p] \cup {b}) <= OpBlocks
      /\ data' = [data EXCEPT ![i] = 1 - @] /\ refcnt' = [refcnt EXCEPT ![i] = Pinned(b, @)]
      /\ latest' = [latest EXCEPT ![b] = 1 - data[i]] /\ lh' = (IF b \in Range(lh) THEN lh ELSE Append(lh, b))
      /\ wrote' = [wrote EXCEPT ![p] = @ \cup {b}] /\ pc' = [pc EXCEPT ![p] = "used"]
      /\ UNCHANGED <<blockno, valid, lock, lru, disk, outstanding, committing>>
      /\ UNCHANGED <<tail, unpinned, then, bp, held, seen, ops>>
  BY Zenon DEF LogWrite
<1>2. TypeOK /\ OneBufferPerBlock /\ InHand(p) /\ Asked(p) /\ Locks /\ Kept /\ Turns
  BY <1>0, Zenon DEF IInv, BuffersExact, Hands
<1>3. /\ p \in Active /\ committing = 0 /\ unpinned = 0
      /\ \A q \in Callers : ~Commits(q)
  BY <1>0, CallCalm, Zenon
<1>4. Logs(i, b)
  BY <1>1, <1>3, LogWriteLogs, Zenon
<1>5. /\ \A j \in Bufs : data'[j] = IF j = i THEN 1 - data[i] ELSE data[j]
      /\ \A c \in AllBlocks : latest'[c] = IF c = b THEN 1 - data[i] ELSE latest[c]
      /\ \A j \in Bufs : refcnt'[j] = IF j = i /\ b \notin Range(lh) THEN refcnt[j] + 1 ELSE refcnt[j]
  BY <1>1, <1>2, BlockNumbers, Zenon DEF TypeOK, Pinned
<1>6. TypeOK'
  <2>1. data' \in [Bufs -> {0, 1}] /\ latest' \in [AllBlocks -> {0, 1}]
    <3>1. 1 - data[i] \in {0, 1}
      BY <1>0, SMTT(30)
    <3>2. data \in [Bufs -> {0, 1}] /\ latest \in [AllBlocks -> {0, 1}]
      BY <1>2, Zenon DEF TypeOK
    <3> QED BY <1>1, <3>1, <3>2, Zenon
  <2>2. refcnt' \in [Bufs -> Nat]
    BY <1>1, <1>2 DEF TypeOK, Pinned
  <2>3. pc' \in [Procs -> Locations] /\ wrote' \in [Procs -> SUBSET Home]
    <3>1. pc' \in [Procs -> Locations]
      BY <1>1, <1>2, Zenon DEF TypeOK, Locations
    <3>2. wrote \in [Procs -> SUBSET Home] /\ wrote[p] \cup {b} \in SUBSET Home
      BY <1>0, <1>2, Zenon DEF TypeOK
    <3> QED BY <1>1, <3>1, <3>2, Zenon
  <2>4. lh' \in Seq(Home)
    BY <1>4, Zenon DEF Logs
  <2> QED BY <1>1, <1>2, <2>1, <2>2, <2>3, <2>4, Zenon DEF TypeOK
<1>7. Moves(p) /\ pc'[p] = "used" /\ At(p)' = "used" /\ At(p) = "using"
  BY <1>0, <1>1, <1>2, Zenon DEF Moves, TypeOK, At, Transit
<1>8. Stage(p)' = "call"
  BY <1>7, Zenon DEF Stage
<1>9. /\ Progress' /\ Copied' /\ (\A q \in Callers : ~Commits(q)') /\ Active' \ {p} = Active \ {p}
  <2>1. Len(lh)' \in Nat
    BY <1>6 DEF TypeOK
  <2>2. Calm(p)
    BY <1>1, <1>3, <1>7, <1>8, <2>1, Zenon DEF Calm
  <2> QED BY <2>2, CalmKeeps, Zenon
<1>10. Active' = Active
  BY <1>3, <1>8, <1>9, Zenon DEF Active
<1>11. Turns'
  <2>1. (0 = 1) = FALSE
    OBVIOUS
  <2> QED BY <1>1, <1>2, <1>3, <1>9, <1>10, <2>1, Zenon DEF Turns
<1>12. Space'
  BY <1>0, <1>1, <1>4, <1>10, LogWriteSpace, Zenon
<1>13. Hands'
  <2>1. InHand(p)'
    BY <1>0, <1>1, <1>2, <1>7, Zenon DEF InHand, NoneHeld, OneHeld, TwoHeld, Transit
  <2>2. Asked(p)'
    BY <1>1, <1>2, <1>7, Zenon DEF Asked
  <2>3. BlocksStay
    BY <1>1, Zenon DEF BlocksStay
  <2> QED BY <1>0, <1>3, <1>7, <2>1, <2>2, <2>3, OthersHands, Zenon DEF Hands
<1>14. Locks' /\ OneBufferPerBlock'
  BY <1>1, <1>2, Zenon DEF Locks, OneBufferPerBlock, NoBlock
<1>15. Kept'
  <2>1. \A c : Pending(c)' <=> Pending(c) \/ c = b
    BY <1>4, Zenon DEF Logs
  <2>2. b \in AllBlocks
    BY BlockNumbers, Zenon
  <2>3. \A j \in Bufs : valid[j] = 1 => blockno[j] # NoBlock /\ data'[j] = latest'[blockno[j]]
    <3> SUFFICES ASSUME NEW j \in Bufs, valid[j] = 1 PROVE blockno[j] # NoBlock /\ data'[j] = latest'[blockno[j]]
      BY Zenon
    <3>1. blockno[j] # NoBlock /\ data[j] = latest[blockno[j]] /\ blockno[j] \in AllBlocks
      BY <1>2 DEF Kept, TypeOK
    <3>2. j # i => blockno[j] # b
      BY <1>2, <3>1, Zenon DEF OneBufferPerBlock
    <3> QED BY <1>5, <2>2, <3>1, <3>2, Zenon
  <2>4. \A j \in Bufs : refcnt'[j] # 0 => blockno[j] # NoBlock
    <3>1. blockno[i] # NoBlock
      BY <2>2, BlockNumbers, Zenon
    <3>2. \A j \in Bufs : j # i => refcnt'[j] = refcnt[j]
      BY <1>5, Zenon
    <3> QED BY <1>2, <3>1, <3>2, Zenon DEF Kept
  <2>5. \A c \in AllBlocks : disk[c] # latest'[c] => Pending(c) \/ c = b
    <3>1. \A c \in AllBlocks : c # b => latest'[c] = latest[c]
      BY <1>5, Zenon
    <3> QED BY <1>2, <3>1, Zenon DEF Kept
  <2>6. \A c \in AllBlocks : Pending(c)' => \E j \in Bufs : blockno[j] = c /\ valid[j] = 1
    BY <1>0, <1>2, <2>1, Zenon DEF Kept
  <2> QED BY <1>1, <1>2, <2>1, <2>3, <2>4, <2>5, <2>6, Zenon DEF Kept, NoBlock
<1>16. RefcntExact'
  <2>1. \A j \in Bufs : /\ Has(p, j)' = Has(p, j) /\ Passes(p, j)' = 0 /\ Passes(p, j) = 0
                        /\ Has(p, j) \in Nat
    BY <1>1, <1>7, Zenon DEF Has, Passes, Transit
  <2>2. \A j \in Bufs : Cardinality(Pins(j)) \in Nat /\ refcnt[j] \in Nat
    BY <1>2, Finite, Zenon DEF TypeOK
  <2>3. \A j \in Bufs : refcnt'[j] + Has(p, j) + Passes(p, j) + Cardinality(Pins(j))
                        = refcnt[j] + Has(p, j)' + Passes(p, j)' + Cardinality(Pins(j)')
    <3> SUFFICES ASSUME NEW j \in Bufs
                 PROVE  refcnt'[j] + Has(p, j) + Passes(p, j) + Cardinality(Pins(j))
                        = refcnt[j] + Has(p, j)' + Passes(p, j)' + Cardinality(Pins(j)')
      BY Zenon
    <3>0. /\ Has(p, j)' = Has(p, j) /\ Passes(p, j)' = 0 /\ Passes(p, j) = 0 /\ Has(p, j) \in Nat
          /\ Cardinality(Pins(j)) \in Nat /\ refcnt[j] \in Nat
      BY <2>1, <2>2, Zenon
    <3>1. CASE j = i /\ b \notin Range(lh)
      <4>1. refcnt'[j] = refcnt[j] + 1
        BY <1>5, <3>1, Zenon
      <4>2. Cardinality(Pins(j)') = Cardinality(Pins(j)) + 1
        BY <1>4, <3>1, Zenon DEF Logs
      <4> QED BY <3>0, <4>1, <4>2, SMTT(30)
    <3>2. CASE j # i \/ b \in Range(lh)
      <4>1. refcnt'[j] = refcnt[j]
        BY <1>5, <3>2, Zenon
      <4>2. Cardinality(Pins(j)') = Cardinality(Pins(j))
        <5>1. CASE j # i
          BY <1>4, <5>1, Zenon DEF Logs
        <5>2. CASE j = i
          <6>1. b \in Range(lh)
            BY <3>2, <5>2, Zenon
          <6>2. Cardinality(Pins(i)') = Cardinality(Pins(i)) + 0
            BY <1>4, <6>1, Zenon DEF Logs
          <6> QED BY <3>0, <5>2, <6>2, SMTT(30)
        <5> QED BY <5>1, <5>2, Zenon
      <4> QED BY <3>0, <4>1, <4>2, Zenon
    <3> QED BY <3>1, <3>2, Zenon
  <2> QED BY <1>0, <1>6, <1>7, <2>3, RefcntStep, Zenon
<1> QED BY <1>6, <1>9, <1>11, <1>12, <1>13, <1>14, <1>15, <1>16, Zenon DEF IInv, BuffersExact

-----------------------------------------------------------------------------
(* ---- the inductive invariant ---- *)

\* binit() and initlog() leave every buffer unused and the log empty.
LEMMA InitIInv ==
  ASSUME Counting, Init
  PROVE  IInv
<1>1. /\ blockno = [i \in Bufs |-> NoBlock] /\ lock = [i \in Bufs |-> "none"]
      /\ valid = [i \in Bufs |-> 0] /\ refcnt = [i \in Bufs |-> 0] /\ data = [i \in Bufs |-> 0]
      /\ lru = [i \in Bufs |-> NBUF + 1 - i]
      /\ disk = [b \in AllBlocks |-> 0] /\ latest = [b \in AllBlocks |-> 0]
      /\ lh = <<>> /\ outstanding = 0 /\ committing = 0 /\ tail = 1 /\ unpinned = 0 /\ ops = 0
  BY Zenon DEF Init
<1>2. /\ pc = [p \in Procs |-> "idle"] /\ then = [p \in Procs |-> "idle"]
      /\ bp = [p \in Procs |-> 0] /\ held = [p \in Procs |-> <<>>]
      /\ wrote = [p \in Procs |-> {}] /\ seen = [p \in Procs |-> 0]
  BY Zenon DEF Init
<1>3. \A p \in Procs : /\ pc[p] = "idle" /\ At(p) = "idle" /\ Stage(p) = "idle" /\ held[p] = <<>>
                       /\ DOMAIN held[p] = {} /\ Len(held[p]) = 0 /\ wrote[p] = {} /\ seen[p] = 0
  BY <1>2 DEF At, Stage, Transit
<1>4. Range(lru) = Bufs /\ lru \in [Bufs -> Bufs]
  <2>1. lru \in [Bufs -> Bufs]
    BY <1>1, Constants, SMTT(30) DEF Bufs
  <2>2. \A j \in Bufs : NBUF + 1 - j \in Bufs /\ lru[NBUF + 1 - j] = j
    BY <1>1, Constants DEF Bufs
  <2>3. \A j \in Bufs : \E i \in Bufs : lru[i] = j
    BY <2>2, Zenon
  <2> QED BY <2>1, <2>3, Zenon DEF Range
<1>5. TypeOK
  <2>1. /\ blockno \in [Bufs -> AllBlocks \cup {NoBlock}] /\ lock \in [Bufs -> Procs \cup {"none"}]
        /\ valid \in [Bufs -> {0, 1}] /\ refcnt \in [Bufs -> Nat] /\ data \in [Bufs -> {0, 1}]
        /\ disk \in [AllBlocks -> {0, 1}] /\ latest \in [AllBlocks -> {0, 1}]
    BY <1>1, Zenon
  <2>2. /\ lh \in Seq(Home) /\ outstanding \in Nat /\ committing \in {0, 1}
        /\ tail \in 1..LOGBLOCKS /\ unpinned \in 0..LOGBLOCKS /\ ops \in 0..MaxOps
    BY <1>1, Constants
  <2>3. /\ pc \in [Procs -> Locations] /\ then \in [Procs -> Locations]
        /\ held \in [Procs -> Seq(Bufs)] /\ wrote \in [Procs -> SUBSET Home]
    BY <1>2 DEF Locations
  <2>4. bp \in [Procs -> 0..NBUF] /\ seen \in [Procs -> 0..MaxBreads]
    BY <1>2, Constants, SMTT(30)
  <2> QED BY <1>4, <2>1, <2>2, <2>3, <2>4, Zenon DEF TypeOK
<1>6. OneBufferPerBlock
  BY <1>1, Zenon DEF OneBufferPerBlock
<1>7. RefcntExact
  <2> SUFFICES ASSUME NEW i \in Bufs
               PROVE  refcnt[i] = Cardinality(Holders(i)) + Cardinality(Passing(i)) + Cardinality(Pins(i))
    BY Zenon DEF RefcntExact, Holders, Passing, Pins, Transit
  <2>1. Holders(i) = {}
    BY <1>3, Zenon DEF Holders, Range
  <2>2. Passing(i) = {}
    BY <1>3, Zenon DEF Passing, Transit
  <2>3. Pins(i) = {}
    BY <1>1 DEF Pins
  <2>4. Cardinality(Holders(i)) = 0 /\ Cardinality(Passing(i)) = 0 /\ Cardinality(Pins(i)) = 0 /\ refcnt[i] = 0
    BY <1>1, <2>1, <2>2, <2>3, CountEmpty, Zenon
  <2> QED BY <2>4
<1>8. Locks
  <2>1. \A i \in Bufs, p \in Procs : lock[i] # p /\ i \notin Range(held[p])
    BY <1>1, <1>3, Constants, Zenon DEF Range
  <2> QED BY <1>3, <2>1, Zenon DEF Locks
<1>9. Hands
  BY <1>3, Zenon DEF Hands, InHand, Asked, NoneHeld, OneHeld, TwoHeld, Transit
<1>10. Active = {} /\ \A p \in Callers : ~Commits(p) /\ Stage(p) = "idle"
  BY <1>3, Zenon DEF Active, Commits, Procs
<1>11. Turns
  <2>1. (0 = 1) = FALSE
    OBVIOUS
  <2> QED BY <1>1, <1>10, <2>1, CountEmpty, Zenon DEF Turns
<1>12. Progress
  <2>1. unpinned <= Len(lh)
    BY <1>1
  <2> QED BY <1>1, <1>10, <2>1, Zenon DEF Progress
<1>13. Copied
  BY <1>10, Zenon DEF Copied
<1>14. Kept
  <2>1. \A b : ~Pending(b)
    BY <1>1 DEF Pending
  <2>2. \A i \in Bufs : lock[i] = "none" /\ valid[i] # 1 /\ refcnt[i] = 0
    BY <1>1
  <2>3. \A b \in AllBlocks : disk[b] = latest[b]
    BY <1>1, Zenon
  <2> QED BY <2>1, <2>2, <2>3, Zenon DEF Kept
<1>15. Space
  <2>1. Reserved = {}
    BY <1>10, Zenon DEF Reserved
  <2>2. Cardinality(Reserved) = 0
    BY <2>1, CountEmpty, Zenon
  <2>3. Len(lh) + Cardinality(Reserved) <= LOGBLOCKS /\ outstanding * MAXOPBLOCKS <= LOGBLOCKS /\ committing # 1
    BY <1>1, <2>2, Constants
  <2> QED BY <1>3, <1>10, <2>3, Zenon DEF Space, Procs
<1> QED BY <1>5, <1>6, <1>7, <1>8, <1>9, <1>11, <1>12, <1>13, <1>14, <1>15, Zenon DEF IInv, BuffersExact

\* A step that changes nothing.
LEMMA StutterKeeps ==
  ASSUME IInv, UNCHANGED vars
  PROVE  IInv'
<1>1. /\ UNCHANGED <<blockno, valid, refcnt, lock, data, lru, disk, lh, outstanding, committing, tail, unpinned>>
      /\ UNCHANGED <<pc, then, bp, held, wrote, seen, ops, latest>>
  BY Zenon DEF vars, bufVars, logVars, procVars
<1>2. TypeOK' /\ OneBufferPerBlock' /\ RefcntExact'
  <2>1. TypeOK /\ OneBufferPerBlock /\ RefcntExact
    BY Zenon DEF IInv, BuffersExact
  <2>2. TypeOK'
    BY <1>1, <2>1, Zenon DEF TypeOK
  <2>3. OneBufferPerBlock'
    BY <1>1, <2>1, Zenon DEF OneBufferPerBlock, NoBlock
  <2>4. RefcntExact'
    BY <1>1, <2>1, Zenon DEF RefcntExact
  <2> QED BY <2>2, <2>3, <2>4, Zenon
<1>3. \A q : At(q)' = At(q) /\ Stage(q)' = Stage(q)
  BY <1>1, StageStays, Zenon DEF At
<1>4. Turns' /\ Progress' /\ Copied' /\ Space'
  BY <1>1, <1>3, LogFrame, Zenon
<1>5. Locks' /\ Kept'
  <2>1. \A b : Pending(b)' = Pending(b)
    BY <1>1, Zenon DEF Pending
  <2> QED BY <1>1, <2>1, Zenon DEF IInv, Locks, Kept, NoBlock
<1>6. Hands'
  <2>1. ASSUME NEW q \in Procs PROVE InHand(q)' /\ Asked(q)'
    <3>1. InHand(q) /\ Asked(q)
      BY Zenon DEF IInv, Hands
    <3>2. First(q)' = First(q) /\ Second(q)' = Second(q)
      BY <1>1, Zenon DEF First, Second
    <3>3. InHand(q)'
      BY <1>1, <1>3, <3>1, Zenon DEF InHand
    <3>4. Asked(q)'
      BY <1>1, <1>3, <3>1, <3>2, Zenon DEF Asked, LogBlock
    <3> QED BY <3>3, <3>4, Zenon
  <2> QED BY <2>1, Zenon DEF Hands
<1> QED BY <1>2, <1>4, <1>5, <1>6, Zenon DEF IInv, BuffersExact

\* Every step of bio.c, of a call and of commit() keeps the invariant.
LEMMA NextIInv ==
  ASSUME Counting, IInv, [Next]_vars
  PROVE  IInv'
<1>1. CASE \E p \in Procs : Bread(p) \/ Brelse(p) \/ Used(p) \/ \E b \in Wants(p) : Bget(p, b)
  BY <1>1, BreadKeeps, BrelseKeeps, UsedKeeps, BgetKeeps, Zenon
<1>2. CASE \E p \in Callers : BeginOp(p) \/ LogWrite(p) \/ EndOp(p)
  BY <1>2, BeginOpKeeps, LogWriteKeeps, EndOpKeeps, Zenon
<1>3. CASE \E p \in Callers : WriteLogCopy(p) \/ WriteLogNext(p) \/ WriteHead(p)
                              \/ InstallCopy(p) \/ InstallNext(p) \/ Committed(p)
  BY <1>3, WriteLogCopyKeeps, WriteLogNextKeeps, WriteHeadKeeps, InstallCopyKeeps, InstallNextKeeps,
     CommittedKeeps, Zenon
<1>4. CASE Rest \/ UNCHANGED vars
  BY <1>4, StutterKeeps, Zenon DEF Rest
<1> QED BY <1>1, <1>2, <1>3, <1>4, Zenon DEF Next

(* The conjuncts of UpdatesKept follow from the invariant. *)
LEMMA KeptUpdates ==
  ASSUME Counting, IInv
  PROVE  UpdatesKept
<1>1. TypeOK /\ Kept /\ Turns
  BY Zenon DEF IInv, BuffersExact
<1>2. Coherent
  BY <1>1, Zenon DEF Kept, Coherent
<1>3. CommittedOnDisk
  <2> SUFFICES ASSUME outstanding = 0, committing = 0 PROVE lh = <<>> /\ disk = latest
    BY Zenon DEF CommittedOnDisk
  <2>1. Active = {}
    BY ReservedLeast, CountEmpty, Zenon
  <2>2. lh = <<>>
    BY <1>1, <2>1, Zenon DEF Turns
  <2>3. \A b : ~Pending(b)
    BY <2>2 DEF Pending
  <2>4. \A b \in AllBlocks : disk[b] = latest[b]
    BY <1>1, <2>3, Zenon DEF Kept
  <2> QED BY <1>1, <2>2, <2>4 DEF TypeOK
<1> QED BY <1>2, <1>3, Zenon DEF UpdatesKept

(* ---- bget() and log_write() do not panic ---- *)

\* The callers that are in a call or commit.
Busy == {q \in Callers : Stage(q) # "idle"}

\* The pins, two buffers for each busy caller and one for each reader fit in the cache.
LEMMA BusyFits ==
  ASSUME Counting, IInv, BufferBudget
  PROVE  /\ IsFiniteSet(Busy) /\ Cardinality(Busy) \in Nat /\ Cardinality(Readers) \in Nat /\ Len(lh) \in Nat
         /\ Len(lh) + Cardinality(Busy) * 2 + Cardinality(Readers) <= NBUF
<1>1. TypeOK /\ Turns /\ Space
  BY Zenon DEF IInv, BuffersExact
<1>2. Len(lh) \in Nat /\ Cardinality(Readers) \in Nat /\ committing \in {0, 1}
  BY <1>1, CountNat, BcacheAssumption DEF TypeOK
<1>3. /\ IsFiniteSet(Active) /\ outstanding = Cardinality(Active) /\ outstanding \in Nat
      /\ IsFiniteSet(Reserved) /\ Cardinality(Reserved) \in Nat
      /\ outstanding * (MAXOPBLOCKS - OpBlocks) <= Cardinality(Reserved)
  BY ReservedLeast, Zenon
<1>4. LOGBLOCKS + (2 + OpBlocks - MAXOPBLOCKS) + Cardinality(Readers) <= NBUF
  <2>1. 1 \in 1..LOGBLOCKS /\ 1 * MAXOPBLOCKS <= LOGBLOCKS
    BY Constants
  <2>2. LOGBLOCKS + 1 * (2 + OpBlocks - MAXOPBLOCKS) + Cardinality(Readers) <= NBUF
    BY <2>1, Zenon DEF BufferBudget
  <2> QED BY <2>2, Constants
<1>5. CASE committing = 0
  <2>1. Busy = Active
    <3>1. \A q \in Callers : ~Commits(q)
      <4>1. (0 = 1) = FALSE
        OBVIOUS
      <4> QED BY <1>1, <1>5, <4>1, Zenon DEF Turns
    <3> QED BY <3>1, Zenon DEF Busy, Active, Commits
  <2>2. CASE outstanding = 0
    <3>1. Active = {}
      BY <1>3, <2>2, CountEmpty, Zenon
    <3>2. Len(lh) = 0
      BY <1>1, <1>5, <3>1, SMTT(30) DEF Turns
    <3> QED BY <1>2, <1>3, <1>4, <2>1, <2>2, <3>2, Constants, SMTT(30)
  <2>3. CASE outstanding # 0
    <3>1. outstanding * MAXOPBLOCKS <= LOGBLOCKS /\ Len(lh) + Cardinality(Reserved) <= LOGBLOCKS
      BY <1>1, Zenon DEF Space
    <3>2. outstanding \in 1..LOGBLOCKS
      <4>1. outstanding <= outstanding * MAXOPBLOCKS
        BY <1>3, Constants
      <4> QED BY <1>3, <2>3, <3>1, <4>1, Constants, SMTT(30)
    <3>3. LOGBLOCKS + outstanding * (2 + OpBlocks - MAXOPBLOCKS) + Cardinality(Readers) <= NBUF
      BY <3>1, <3>2, Zenon DEF BufferBudget
    <3> DEFINE x == outstanding * (MAXOPBLOCKS - OpBlocks)
           y == outstanding * (2 + OpBlocks - MAXOPBLOCKS)
    <3>4. y = outstanding * 2 - x /\ x \in Int /\ y \in Int
      BY <1>3, Constants
    <3>5. x <= Cardinality(Reserved) /\ Cardinality(Reserved) \in Nat /\ outstanding \in Nat
      BY <1>3, Zenon
    <3>7. LOGBLOCKS + y + Cardinality(Readers) <= NBUF
      BY <3>3, Zenon
    <3>8. Len(lh) + Cardinality(Reserved) <= LOGBLOCKS
      BY <3>1, Zenon
    <3> HIDE DEF x, y
    <3>6. Len(lh) + outstanding * 2 + Cardinality(Readers) <= NBUF
      BY <1>2, <3>4, <3>5, <3>7, <3>8, Constants, SMTT(30)
    <3> QED BY <1>2, <1>3, <2>1, <3>6, Zenon
  <2> QED BY <2>2, <2>3, Zenon
<1>6. CASE committing = 1
  <2>1. Active = {} /\ Len(lh) + MAXOPBLOCKS <= LOGBLOCKS + OpBlocks
    BY <1>1, <1>6, Zenon DEF Turns, Space
  <2>2. \A q \in Busy : q \in Callers /\ Commits(q)
    BY <2>1, Zenon DEF Busy, Active, Commits
  <2>3. \A q, r \in Busy : q = r
    BY <1>1, <2>2, Zenon DEF Turns
  <2>4. IsFiniteSet(Busy) /\ Cardinality(Busy) \in {0, 1}
    <3>1. CASE Busy = {}
      BY <3>1, CountEmpty, Zenon
    <3>2. CASE \E q : q \in Busy
      <4>1. PICK q : q \in Busy
        BY <3>2, Zenon
      <4>2. Busy = {q}
        BY <2>3, <4>1, Zenon
      <4>3. IsFiniteSet({q}) /\ Cardinality({q}) = 1
        BY CountOne, Zenon
      <4> QED BY <4>2, <4>3, Zenon
    <3> QED BY <3>1, <3>2, Zenon
  <2> QED BY <1>2, <1>4, <2>1, <2>4, Constants
<1> QED BY <1>2, <1>5, <1>6, Zenon

\* The places a buffer in use is used from: an entry of the log that pins it, or the
\* first or the second hand of a process.
Places == ({"none"} \X DOMAIN lh) \cup (Busy \X {1, 2}) \cup (Readers \X {1})
Hand(q, k) == IF k \in DOMAIN held[q] THEN held[q][k] ELSE bp[q]
UsedFrom(x, i) ==
  \/ x[1] = "none" /\ lh[x[2]] = blockno[i]
  \/ x[1] # "none" /\ Hand(x[1], x[2]) = i

\* There are at most NBUF places.
LEMMA PlacesFit ==
  ASSUME Counting, IInv, BufferBudget
  PROVE  IsFiniteSet(Places) /\ Cardinality(Places) \in Nat /\ Cardinality(Places) <= NBUF
<1> DEFINE A == {"none"} \X DOMAIN lh
           B == Busy \X {1, 2}
           C == Readers \X {1}
<1>1. /\ IsFiniteSet(Busy) /\ Cardinality(Busy) \in Nat /\ Cardinality(Readers) \in Nat /\ Len(lh) \in Nat
      /\ Len(lh) + Cardinality(Busy) * 2 + Cardinality(Readers) <= NBUF
  BY BusyFits, Zenon
<1>2. DOMAIN lh = 1..Len(lh) /\ IsFiniteSet(DOMAIN lh) /\ Cardinality(DOMAIN lh) = Len(lh)
  <2>1. DOMAIN lh = 1..Len(lh)
    BY DEF IInv, BuffersExact, TypeOK
  <2>2. IsFiniteSet(1..Len(lh)) /\ Cardinality(1..Len(lh)) = Len(lh)
    <3>1. 1 \in Int /\ Len(lh) \in Int
      BY <1>1
    <3>2. /\ IsFiniteSet(1..Len(lh))
          /\ Cardinality(1..Len(lh)) = IF 1 > Len(lh) THEN 0 ELSE Len(lh) - 1 + 1
      BY <3>1, CountInterval, Zenon
    <3> QED BY <1>1, <3>2
  <2> QED BY <2>1, <2>2, Zenon
<1>3. IsFiniteSet({"none"}) /\ Cardinality({"none"}) = 1 /\ IsFiniteSet({1}) /\ Cardinality({1}) = 1
  BY CountOne, Zenon
<1>4. IsFiniteSet({1, 2}) /\ Cardinality({1, 2}) = 2
  <2>1. {1, 2} = 1..2 /\ 1 \in Int /\ 2 \in Int
    OBVIOUS
  <2>2. /\ IsFiniteSet(1..2)
        /\ Cardinality(1..2) = IF 1 > 2 THEN 0 ELSE 2 - 1 + 1
    BY <2>1, CountInterval, Zenon
  <2> QED BY <2>1, <2>2
<1>5. IsFiniteSet(A) /\ Cardinality(A) = 1 * Len(lh)
  <2>1. IsFiniteSet(DOMAIN lh) /\ Cardinality(DOMAIN lh) = Len(lh)
    BY <1>2, Zenon
  <2>2. IsFiniteSet(A) /\ Cardinality(A) = Cardinality({"none"}) * Cardinality(DOMAIN lh)
    BY <1>3, <2>1, CountProduct, Zenon
  <2> QED BY <1>3, <2>1, <2>2, Zenon
<1>6. IsFiniteSet(B) /\ Cardinality(B) = Cardinality(Busy) * 2
  BY <1>1, <1>4, CountProduct, Zenon
<1>7. IsFiniteSet(C) /\ Cardinality(C) = Cardinality(Readers) * 1
  BY <1>3, BcacheAssumption, CountProduct, Zenon
<1> HIDE DEF A, B, C
<1>8. /\ IsFiniteSet(A \cup B) /\ Cardinality(A \cup B) = Cardinality(A) + Cardinality(B) - Cardinality(A \cap B)
      /\ Cardinality(A \cap B) \in Nat
  BY <1>5, <1>6, CountUnion, CountNat, Zenon
<1>9. /\ IsFiniteSet((A \cup B) \cup C)
      /\ Cardinality((A \cup B) \cup C) = Cardinality(A \cup B) + Cardinality(C) - Cardinality((A \cup B) \cap C)
      /\ Cardinality((A \cup B) \cap C) \in Nat /\ Cardinality((A \cup B) \cup C) \in Nat
  BY <1>7, <1>8, CountUnion, CountNat, Zenon
<1>10. Places = (A \cup B) \cup C
  BY Zenon DEF Places, A, B, C
<1>11. Cardinality((A \cup B) \cup C) <= NBUF
  BY <1>1, <1>5, <1>6, <1>7, <1>8, <1>9, Constants, SMTT(30)
<1> QED BY <1>9, <1>10, <1>11, Zenon

\* A process that asks for a block has a hand free.
FreeHand(p) == <<p, Len(held[p]) + 1>>

\* The free hand of a process that asks is one of the places.
LEMMA AsksFree ==
  ASSUME Counting, IInv, NEW p \in Procs, NEW b, Asks(p, b)
  PROVE  FreeHand(p) \in Places /\ pc[p] \notin Transit
<1>1. InHand(p) /\ pc[p] \notin Transit /\ At(p) = pc[p]
  BY AsksBlocks, Zenon DEF IInv, Hands, At
<1>2. CASE p \in Readers
  <2>1. seen[p] = 0
    BY <1>1, <1>2, Zenon DEF InHand
  <2>0. ~(seen[p] > 0)
    BY <2>1
  <2>2. pc[p] \in {"idle", "using"}
    BY <1>1, <1>2, Zenon DEF InHand
  <2>3. pc[p] = "idle"
    BY <2>0, <2>2, Zenon DEF Asks
  <2>4. Len(held[p]) = 0
    BY <1>1, <2>3, Zenon DEF InHand, NoneHeld
  <2>5. FreeHand(p) \in Readers \X {1}
    BY <1>2, <2>4 DEF FreeHand
  <2> QED BY <1>1, <2>5, Zenon DEF Places
<1>3. CASE p \in Callers
  <2>1. pc[p] # "idle" /\ p \notin Readers
    BY <1>3, Constants, Zenon DEF Asks
  <2>2. p \in Busy
    BY <1>1, <1>3, <2>1, Zenon DEF Asks, Stage, Busy
  <2>3. Len(held[p]) \in {0, 1}
    BY <1>1, <2>1, Zenon DEF Asks, InHand, NoneHeld, OneHeld
  <2>4. FreeHand(p) \in Busy \X {1, 2}
    <3>1. \A n \in {0, 1} : n + 1 \in {1, 2}
      OBVIOUS
    <3>2. Len(held[p]) + 1 \in {1, 2}
      BY <2>3, <3>1, Zenon
    <3> QED BY <2>2, <3>2, Zenon DEF FreeHand
  <2> QED BY <1>1, <2>4, Zenon DEF Places
<1> QED BY <1>2, <1>3, Zenon DEF Procs

\* A process with a buffer in hand or underway has it in one of its hands.
LEMMA HandInPlace ==
  ASSUME IInv, NEW q \in Procs, NEW k \in Nat, k >= 1,
         \/ k <= Len(held[q])
         \/ (k = Len(held[q]) + 1 /\ pc[q] \in Transit)
  PROVE  <<q, k>> \in Places
<1>1. InHand(q) /\ held[q] \in Seq(Bufs) /\ pc[q] \in Locations
  BY Zenon DEF IInv, Hands, BuffersExact, TypeOK
<1>2. PICK n \in Nat : n = Len(held[q])
  BY <1>1
<1>5. k <= n \/ (k = n + 1 /\ pc[q] \in Transit)
  BY <1>2, Zenon
<1>3. CASE q \in Readers
  <2>1. pc[q] \in Transit => n = 0
    BY <1>1, <1>2, <1>3, Zenon DEF InHand, Transit, NoneHeld
  <2>2. pc[q] \notin Transit => n \in {0, 1}
    BY <1>1, <1>2, <1>3, Zenon DEF InHand, NoneHeld, At
  <2>3. k = 1
    BY <1>5, <2>1, <2>2
  <2>4. <<q, k>> \in Readers \X {1}
    BY <1>3, <2>3, Zenon
  <2> QED BY <2>4, Zenon DEF Places
<1>4. CASE q \in Callers
  <2>1. pc[q] \in Transit => n \in {0, 1} /\ then[q] # "idle"
    BY <1>1, <1>2, <1>4, Zenon DEF InHand, Transit, NoneHeld, TwoHeld
  <2>2. pc[q] \notin Transit => n \in {0, 1, 2} /\ (pc[q] = "idle" => n = 0)
    BY <1>1, <1>2, <1>4, Zenon DEF InHand, NoneHeld, OneHeld, TwoHeld, Transit, Locations
  <2>3. k \in {1, 2} /\ (pc[q] \notin Transit => n # 0)
    BY <1>5, <2>1, <2>2
  <2>4. At(q) # "idle"
    BY <2>1, <2>2, <2>3, Zenon DEF At
  <2>5. q \in Busy
    BY <1>4, <2>4, Zenon DEF Busy, Stage
  <2>6. <<q, k>> \in Busy \X {1, 2}
    BY <2>3, <2>5, Zenon
  <2> QED BY <2>6, Zenon DEF Places
<1> QED BY <1>3, <1>4, Zenon DEF Procs

\* Every buffer with a count is used from a place other than the free hand of p.
LEMMA UsedBuffer ==
  ASSUME Counting, IInv, NEW p \in Procs, pc[p] \notin Transit, NEW i \in Bufs, refcnt[i] # 0
  PROVE  \E x \in Places \ {FreeHand(p)} : UsedFrom(x, i)
<1>1. TypeOK
  BY Zenon DEF IInv, BuffersExact
<1>2. Holders(i) # {} \/ Passing(i) # {} \/ Pins(i) # {}
  <2> SUFFICES ASSUME Holders(i) = {}, Passing(i) = {}, Pins(i) = {} PROVE FALSE
    BY Zenon
  <2>1. Cardinality(Holders(i)) = 0 /\ Cardinality(Passing(i)) = 0 /\ Cardinality(Pins(i)) = 0
    BY CountEmpty, Zenon
  <2>2. refcnt[i] = Cardinality(Holders(i)) + Cardinality(Passing(i)) + Cardinality(Pins(i))
    BY Refcount, Zenon
  <2> QED BY <2>1, <2>2
<1>3. held[p] \in Seq(Bufs) /\ Len(held[p]) \in Nat
  BY <1>1 DEF TypeOK
<1>4. CASE Holders(i) # {}
  <2>1. PICK q \in Procs : i \in Range(held[q])
    BY <1>4, Zenon DEF Holders
  <2>2. PICK k \in DOMAIN held[q] : held[q][k] = i
    BY <2>1, Zenon DEF Range
  <2>3. held[q] \in Seq(Bufs)
    BY <1>1, Zenon DEF TypeOK
  <2>4. k \in Nat /\ k >= 1 /\ k <= Len(held[q])
    BY <2>3
  <2>5. <<q, k>> \in Places
    BY <2>4, HandInPlace, Zenon
  <2>6. <<q, k>> # FreeHand(p)
    BY <1>3, <2>4, SMTT(30) DEF FreeHand
  <2>7. UsedFrom(<<q, k>>, i)
    BY <2>2, Constants, Zenon DEF UsedFrom, Hand
  <2> QED BY <2>5, <2>6, <2>7, Zenon
<1>5. CASE Passing(i) # {}
  <2>1. PICK q \in Procs : pc[q] \in Transit /\ bp[q] = i
    BY <1>5, Zenon DEF Passing
  <2> DEFINE k == Len(held[q]) + 1
  <2>2. held[q] \in Seq(Bufs)
    BY <1>1, Zenon DEF TypeOK
  <2>3. k \in Nat /\ k >= 1 /\ k \notin DOMAIN held[q]
    BY <2>2
  <2>4. <<q, k>> \in Places
    BY <2>1, <2>3, HandInPlace, Zenon
  <2> HIDE DEF k
  <2>5. <<q, k>> # FreeHand(p)
    BY <2>1, Zenon DEF FreeHand
  <2>6. UsedFrom(<<q, k>>, i)
    BY <2>1, <2>3, Constants, Zenon DEF UsedFrom, Hand
  <2> QED BY <2>4, <2>5, <2>6, Zenon
<1>6. CASE Pins(i) # {}
  <2>1. PICK t \in DOMAIN lh : lh[t] = blockno[i]
    BY <1>6, Zenon DEF Pins
  <2>2. <<"none", t>> \in {"none"} \X DOMAIN lh /\ <<"none", t>> # FreeHand(p)
    BY Constants, Zenon DEF FreeHand
  <2>3. UsedFrom(<<"none", t>>, i)
    BY <2>1, Zenon DEF UsedFrom
  <2> QED BY <2>2, <2>3, Zenon DEF Places
<1> QED BY <1>2, <1>4, <1>5, <1>6, Zenon

\* A place is that of one buffer.
LEMMA OneBufferPerPlace ==
  ASSUME IInv, NEW x \in Places, NEW i \in Bufs, NEW j \in Bufs, UsedFrom(x, i), UsedFrom(x, j)
  PROVE  i = j
<1>1. CASE x[1] # "none"
  BY <1>1, Zenon DEF UsedFrom
<1>2. CASE x[1] = "none"
  <2>1. lh[x[2]] = blockno[i] /\ lh[x[2]] = blockno[j]
    BY <1>2, Zenon DEF UsedFrom
  <2>2. x \in {"none"} \X DOMAIN lh
    <3>1. \A q \in Busy : q # "none"
      BY Constants, Zenon DEF Busy, Procs
    <3>2. \A q \in Readers : q # "none"
      BY Constants, Zenon DEF Procs
    <3> QED BY <1>2, <3>1, <3>2, Zenon DEF Places
  <2>3. x[2] \in DOMAIN lh
    BY <2>2, Zenon
  <2>4. lh[x[2]] \in Home
    <3>1. lh \in Seq(Home)
      BY Zenon DEF IInv, BuffersExact, TypeOK
    <3> QED BY <2>3, <3>1
  <2>5. blockno[i] # NoBlock
    BY <2>1, <2>4, BlockNumbers, Zenon
  <2> QED BY <2>1, <2>5, Zenon DEF IInv, BuffersExact, OneBufferPerBlock
<1> QED BY <1>1, <1>2, Zenon

\* Whoever asks for a block finds it or an unused buffer: the buffers in use have
\* different places, and one of the NBUF places is free.
LEMMA SomeUnused ==
  ASSUME Counting, IInv, BufferBudget, NEW p \in Procs, NEW b, Asks(p, b)
  PROVE  Unused # {}
<1> SUFFICES ASSUME Unused = {} PROVE FALSE
  BY Zenon
<1>1. \A i \in Bufs : refcnt[i] # 0
  <2>1. Range(lru) = Bufs
    BY Zenon DEF IInv, BuffersExact, TypeOK
  <2>2. DOMAIN lru = Bufs
    BY Zenon DEF IInv, BuffersExact, TypeOK
  <2> QED BY <2>1, <2>2, Zenon DEF Unused, Range
<1>2. FreeHand(p) \in Places /\ pc[p] \notin Transit
  BY AsksFree, Zenon
<1> DEFINE T == Places \ {FreeHand(p)}
           g == [i \in Bufs |-> CHOOSE x \in T : UsedFrom(x, i)]
<1>3. \A i \in Bufs : g[i] \in T /\ UsedFrom(g[i], i)
  BY <1>1, <1>2, UsedBuffer, Zenon
<1>4. g \in [Bufs -> T]
  BY <1>3, Zenon
<1>5. \A i, j \in Bufs : g[i] = g[j] => i = j
  <2> SUFFICES ASSUME NEW i \in Bufs, NEW j \in Bufs, g[i] = g[j] PROVE i = j
    BY Zenon
  <2>1. g[i] \in Places /\ UsedFrom(g[i], i) /\ UsedFrom(g[i], j)
    BY <1>3, Zenon
  <2> HIDE DEF g
  <2> QED BY <2>1, OneBufferPerPlace, Zenon
<1> HIDE DEF g
<1>7. IsFiniteSet(Places) /\ Cardinality(Places) \in Nat /\ Cardinality(Places) <= NBUF
  BY PlacesFit, Zenon
<1>8. IsFiniteSet(T) /\ Cardinality(T) = Cardinality(Places) - 1
  BY <1>2, <1>7, CountRemove, Zenon
<1> HIDE DEF T
<1>9. Cardinality(Bufs) <= Cardinality(T)
  BY <1>4, <1>5, <1>8, CountInjection, Zenon
<1>10. Cardinality(Bufs) = NBUF
  <2>1. 1 \in Int /\ NBUF \in Int
    BY Constants
  <2>2. Cardinality(1..NBUF) = IF 1 > NBUF THEN 0 ELSE NBUF - 1 + 1
    BY <2>1, CountInterval, Zenon
  <2> QED BY <2>2, Constants DEF Bufs
<1> QED BY <1>7, <1>8, <1>9, <1>10, Constants

(* A process that asks for a block gets a buffer, one that logs it a slot. *)
LEMMA NobodyPanics ==
  ASSUME Counting, IInv
  PROVE  NoPanic
<1>1. ASSUME BufferBudget, NEW p \in Procs, NEW b \in Wants(p) PROVE Unused # {}
  <2>1. pc[p] \in Locations
    BY Zenon DEF IInv, BuffersExact, TypeOK
  <2>2. Asks(p, b)
    BY <2>1, WantsAsks, Zenon
  <2> QED BY <1>1, <2>2, SomeUnused, Zenon
<1>2. ASSUME NEW p \in Callers, pc[p] = "using" PROVE Len(lh) < LOGBLOCKS
  <2>1. Stage(p) = "call"
    BY <1>2, Zenon DEF Stage, At, Transit
  <2>2. p \in Active
    BY <1>2, <2>1, Zenon DEF Active
  <2>3. /\ IsFiniteSet(Active) /\ outstanding = Cardinality(Active) /\ outstanding \in Nat
        /\ Cardinality(Reserved) \in Nat
        /\ outstanding * (MAXOPBLOCKS - OpBlocks) <= Cardinality(Reserved)
    BY ReservedLeast, Zenon
  <2>4. outstanding # 0
    BY <2>2, <2>3, CountEmpty, Zenon
  <2>5. outstanding * (MAXOPBLOCKS - OpBlocks) >= 1
    BY <2>3, <2>4, Constants
  <2>6. Len(lh) + Cardinality(Reserved) <= LOGBLOCKS
    BY Zenon DEF IInv, Space
  <2>7. Len(lh) \in Nat
    BY DEF IInv, BuffersExact, TypeOK
  <2> DEFINE x == outstanding * (MAXOPBLOCKS - OpBlocks)
  <2>8. x \in Int
    BY <2>3, Constants, SMTT(30)
  <2> HIDE DEF x
  <2> QED BY <2>3, <2>5, <2>6, <2>7, <2>8, Constants, SMTT(30) DEF x
<1> QED BY <1>1, <1>2, Zenon DEF NoPanic, BgetReturns

-----------------------------------------------------------------------------
(* ---- the facts about finite sets hold ---- *)

FS == INSTANCE FiniteSetTheorems

(* The instance means the same finite sets and the same cardinalities. *)
LEMMA SameSets ==
  \A S : FS!Cardinality(S) = Cardinality(S) /\ (FS!IsFiniteSet(S) <=> IsFiniteSet(S))
BY Zenon DEF FS!Cardinality, Cardinality, FS!IsFiniteSet, IsFiniteSet

(* The number of elements of a finite set, of none, of one and of an interval. *)
LEMMA CountingSmall ==
  /\ \A S : IsFiniteSet(S) => Cardinality(S) \in Nat
  /\ IsFiniteSet({}) /\ Cardinality({}) = 0
  /\ \A S : IsFiniteSet(S) => (Cardinality(S) = 0 <=> S = {})
  /\ \A x : IsFiniteSet({x}) /\ Cardinality({x}) = 1
  /\ \A a, b \in Int :
       IsFiniteSet(a..b) /\ Cardinality(a..b) = IF a > b THEN 0 ELSE b - a + 1
<1>1. \A S : IsFiniteSet(S) => Cardinality(S) \in Nat
  <2>1. ASSUME NEW S, FS!IsFiniteSet(S) PROVE FS!Cardinality(S) \in Nat
    BY <2>1, FS!FS_CardinalityType, Zenon
  <2> QED BY <2>1, SameSets, Zenon
<1>2. /\ IsFiniteSet({}) /\ Cardinality({}) = 0
      /\ \A S : IsFiniteSet(S) => (Cardinality(S) = 0 <=> S = {})
  BY FS!FS_EmptySet, SameSets, Zenon
<1>3. \A x : IsFiniteSet({x}) /\ Cardinality({x}) = 1
  BY FS!FS_Singleton, SameSets, Zenon
<1>4. ASSUME NEW a \in Int, NEW b \in Int
      PROVE  IsFiniteSet(a..b) /\ Cardinality(a..b) = IF a > b THEN 0 ELSE b - a + 1
  BY FS!FS_Interval, SameSets, Zenon
<1> QED BY <1>1, <1>2, <1>3, <1>4, Zenon

(* One element more or less, and a part of a finite set. *)
LEMMA CountingParts ==
  /\ \A S, x : IsFiniteSet(S) =>
       /\ IsFiniteSet(S \cup {x})
       /\ Cardinality(S \cup {x}) = IF x \in S THEN Cardinality(S) ELSE Cardinality(S) + 1
  /\ \A S, x : IsFiniteSet(S) =>
       /\ IsFiniteSet(S \ {x})
       /\ Cardinality(S \ {x}) = IF x \in S THEN Cardinality(S) - 1 ELSE Cardinality(S)
  /\ \A S : \A T \in SUBSET S : IsFiniteSet(S) =>
       IsFiniteSet(T) /\ Cardinality(T) <= Cardinality(S)
<1>1. ASSUME NEW S, NEW x, IsFiniteSet(S)
      PROVE  /\ IsFiniteSet(S \cup {x})
             /\ Cardinality(S \cup {x}) = IF x \in S THEN Cardinality(S) ELSE Cardinality(S) + 1
  <2>1. FS!IsFiniteSet(S)
    BY <1>1, SameSets, Zenon
  <2>2. /\ FS!IsFiniteSet(S \cup {x})
        /\ FS!Cardinality(S \cup {x}) = IF x \in S THEN FS!Cardinality(S) ELSE FS!Cardinality(S) + 1
    BY <2>1, FS!FS_AddElement, Zenon
  <2> QED BY <2>2, SameSets, Zenon
<1>2. ASSUME NEW S, NEW x, IsFiniteSet(S)
      PROVE  /\ IsFiniteSet(S \ {x})
             /\ Cardinality(S \ {x}) = IF x \in S THEN Cardinality(S) - 1 ELSE Cardinality(S)
  <2>1. FS!IsFiniteSet(S)
    BY <1>2, SameSets, Zenon
  <2>2. /\ FS!IsFiniteSet(S \ {x})
        /\ FS!Cardinality(S \ {x}) = IF x \in S THEN FS!Cardinality(S) - 1 ELSE FS!Cardinality(S)
    BY <2>1, FS!FS_RemoveElement, Zenon
  <2> QED BY <2>2, SameSets, Zenon
<1>3. ASSUME NEW S, NEW T \in SUBSET S, IsFiniteSet(S)
      PROVE  IsFiniteSet(T) /\ Cardinality(T) <= Cardinality(S)
  <2>1. FS!IsFiniteSet(S)
    BY <1>3, SameSets, Zenon
  <2>2. FS!IsFiniteSet(T) /\ FS!Cardinality(T) <= FS!Cardinality(S)
    BY <2>1, FS!FS_Subset, Zenon
  <2> QED BY <2>2, SameSets, Zenon
<1> QED BY <1>1, <1>2, <1>3, Zenon

(* Unions, pairs and one-to-one functions. *)
LEMMA CountingPairs ==
  /\ \A S, T : IsFiniteSet(S) /\ IsFiniteSet(T) =>
       /\ IsFiniteSet(S \cup T)
       /\ Cardinality(S \cup T) = Cardinality(S) + Cardinality(T) - Cardinality(S \cap T)
  /\ \A S, T : IsFiniteSet(S) => IsFiniteSet(S \cap T)
  /\ \A S, T : IsFiniteSet(S) /\ IsFiniteSet(T) =>
       IsFiniteSet(S \X T) /\ Cardinality(S \X T) = Cardinality(S) * Cardinality(T)
  /\ \A S, T : \A f \in [S -> T] : IsFiniteSet(T) /\ (\A x, y \in S : f[x] = f[y] => x = y) =>
       Cardinality(S) <= Cardinality(T)
<1>1. ASSUME NEW S, NEW T, IsFiniteSet(S), IsFiniteSet(T)
      PROVE  /\ IsFiniteSet(S \cup T)
             /\ Cardinality(S \cup T) = Cardinality(S) + Cardinality(T) - Cardinality(S \cap T)
             /\ IsFiniteSet(S \X T) /\ Cardinality(S \X T) = Cardinality(S) * Cardinality(T)
  <2>1. FS!IsFiniteSet(S) /\ FS!IsFiniteSet(T)
    BY <1>1, SameSets, Zenon
  <2>2. /\ FS!IsFiniteSet(S \cup T)
        /\ FS!Cardinality(S \cup T) = FS!Cardinality(S) + FS!Cardinality(T) - FS!Cardinality(S \cap T)
    BY <2>1, FS!FS_Union, Zenon
  <2>3. FS!IsFiniteSet(S \X T) /\ FS!Cardinality(S \X T) = FS!Cardinality(S) * FS!Cardinality(T)
    BY <2>1, FS!FS_Product, Zenon
  <2> QED BY <2>2, <2>3, SameSets, Zenon
<1>2. ASSUME NEW S, NEW T, IsFiniteSet(S) PROVE IsFiniteSet(S \cap T)
  <2>1. FS!IsFiniteSet(S)
    BY <1>2, SameSets, Zenon
  <2>2. FS!IsFiniteSet(S \cap T)
    BY <2>1, FS!FS_Intersection, Zenon
  <2> QED BY <2>2, SameSets, Zenon
<1>3. ASSUME NEW S, NEW T, NEW f \in [S -> T], IsFiniteSet(T), \A x, y \in S : f[x] = f[y] => x = y
      PROVE  Cardinality(S) <= Cardinality(T)
  <2>1. FS!IsFiniteSet(T)
    BY <1>3, SameSets, Zenon
  <2>2. f \in FS!Injection(S, T)
    BY <1>3, Zenon DEF FS!Injection, FS!IsInjective
  <2>3. FS!Cardinality(S) <= FS!Cardinality(T)
    BY <2>1, <2>2, FS!FS_Injection, Zenon
  <2> QED BY <2>3, SameSets, Zenon
<1> QED BY <1>1, <1>2, <1>3, Zenon

(* The facts about finite sets that the lemmas above assume. *)
LEMMA CountingHolds == Counting
BY CountingSmall, CountingParts, CountingPairs, Zenon DEF Counting, OneToOne

-----------------------------------------------------------------------------
(* ---- what bio.c and the log's pins promise ---- *)

(* Every reachable state satisfies the inductive invariant. *)
LEMMA Invariant == Spec => []IInv
<1>1. Init => IInv
  BY CountingHolds, InitIInv, Zenon
<1>2. IInv /\ [Next]_vars => IInv'
  BY CountingHolds, NextIInv, Zenon
<1> QED BY <1>1, <1>2, PTL DEF Spec

(* No block is ever in two buffers, no buffer leaves the list, and b->refcnt *)
(* is exactly the references of processes and of the log.                    *)
THEOREM BufferTableIsExact == Spec => []BuffersExact
<1>1. IInv => BuffersExact
  BY Zenon DEF IInv
<1> QED BY <1>1, Invariant, PTL

(* Whoever holds a buffer sees the last update of its block, and when the    *)
(* last commit is over every update is on the disk: recycling loses none.    *)
THEOREM NoUpdateIsLost == Spec => []UpdatesKept
<1>1. IInv => UpdatesKept
  BY CountingHolds, KeptUpdates, Zenon
<1> QED BY <1>1, Invariant, PTL

(* log_write() never panics for want of a slot and, within the budget of     *)
(* BufferBudget, bget() never for want of a buffer, whatever the sizes.      *)
THEOREM NoPanicInBudget == Spec => []NoPanic
<1>1. IInv => NoPanic
  BY CountingHolds, NobodyPanics, Zenon
<1> QED BY <1>1, Invariant, PTL

(* The code's proportions, NBUF = LOGBLOCKS, meet the budget as far as the   *)
(* calls leave reserved log slots unused: besides the two buffers of a call, *)
(* one reader for each slot that no call uses.                               *)
LEMMA CodeBudget ==
  ASSUME Counting, LOGBLOCKS <= NBUF, OpBlocks + 2 + Cardinality(Readers) <= MAXOPBLOCKS
  PROVE  BufferBudget
<1>1. Cardinality(Readers) \in Nat
  BY CountNat, BcacheAssumption, Zenon
<1> SUFFICES ASSUME NEW n \in 1..LOGBLOCKS
             PROVE  LOGBLOCKS + n * (2 + OpBlocks - MAXOPBLOCKS) + Cardinality(Readers) <= NBUF
  BY DEF BufferBudget
<1> DEFINE r == Cardinality(Readers)
           d == MAXOPBLOCKS - 2 - OpBlocks
<1>2. d \in Nat /\ r \in Nat /\ r <= d /\ n \in Nat \ {0}
  BY <1>1, Constants
<1>3. n * d >= d
  BY <1>2
<1>4. n * (2 + OpBlocks - MAXOPBLOCKS) = 0 - n * d
  BY <1>2, Constants
<1> QED BY <1>2, <1>3, <1>4, Constants

(* With the code's proportions bget() keeps its promise to any number of     *)
(* system calls, of which each writes at most OpBlocks of the MAXOPBLOCKS    *)
(* blocks it reserves, and to MAXOPBLOCKS - 2 - OpBlocks concurrent readers. *)
(* More readers can meet the panic, as the run BcacheFull shows.             *)
THEOREM BuffersSuffice ==
  LOGBLOCKS <= NBUF /\ OpBlocks + 2 + Cardinality(Readers) <= MAXOPBLOCKS
    => (Spec => []BgetReturns)
<1> SUFFICES ASSUME LOGBLOCKS <= NBUF, OpBlocks + 2 + Cardinality(Readers) <= MAXOPBLOCKS
             PROVE  Spec => []BgetReturns
  OBVIOUS
<1>1. BufferBudget
  BY CountingHolds, CodeBudget, Zenon
<1>2. NoPanic => BgetReturns
  BY <1>1, Zenon DEF NoPanic
<1> QED BY <1>2, NoPanicInBudget, PTL
=============================================================================
