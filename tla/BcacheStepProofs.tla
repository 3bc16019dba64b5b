-------------------------- MODULE BcacheStepProofs --------------------------
(***************************************************************************)
(* For any number of buffers, blocks, callers and readers: what bget(),    *)
(* bread(), brelse() and each step of commit() do to the buffer table.     *)
(* They keep IInv, which adds to BuffersExact who has which buffer in hand *)
(* and why, how far commit() is, and what calls reserved of the log.       *)
(* BcacheProofs treats begin_op(), log_write() and end_op() and draws the  *)
(* conclusions about the specification.                                    *)
(*                                                                         *)
(* The lemmas rest on facts about finite sets, collected in Counting and   *)
(* proved at the end of BcacheProofs.                                      *)
(***************************************************************************)
EXTENDS Bcache, TLAPS

\* Where p is, or returns to from bget() or brelse().
Transit == {"acquiresleep", "brelse"}
At(p) == IF pc[p] \in Transit THEN then[p] ELSE pc[p]

\* A buffer's lock names the process that has the buffer in hand.
Locks ==
  /\ \A i \in Bufs, p \in Procs : lock[i] = p <=> i \in Range(held[p])
  /\ \A p \in Procs : \A k, l \in DOMAIN held[p] : held[p][k] = held[p][l] => k = l

\* How many buffers p has in hand at each location; a reader never has a second one.
NoneHeld == {"idle", "call", "write_log", "write_head", "install_trans", "committed"}
OneHeld == {"write_log_from", "write_log_next", "write_head_copy", "install_dst", "install_next"}
TwoHeld == {"write_log_copy", "install_copy"}
InHand(p) ==
  /\ pc[p] \in NoneHeld => Len(held[p]) = 0
  /\ pc[p] \in OneHeld => Len(held[p]) = 1
  /\ pc[p] \in TwoHeld => Len(held[p]) = 2
  /\ pc[p] \in {"using", "used"} => Len(held[p]) \in {1, 2}
  /\ pc[p] \in Transit => bp[p] \in Bufs
  /\ pc[p] = "acquiresleep" =>
       \/ then[p] = "using" /\ Len(held[p]) \in {0, 1}
       \/ then[p] \in {"write_log_from", "write_head_copy", "install_dst"} /\ Len(held[p]) = 0
       \/ then[p] \in TwoHeld /\ Len(held[p]) = 1
  /\ pc[p] = "brelse" =>
       \/ then[p] \in NoneHeld /\ Len(held[p]) = 0
       \/ then[p] \in {"using", "write_log_next", "install_next"} /\ Len(held[p]) = 1
  /\ p \in Callers /\ pc[p] = "brelse" => then[p] # "idle"
  /\ p \in Readers =>
       /\ seen[p] = 0 /\ wrote[p] = {} /\ At(p) \in {"idle", "using"}
       /\ pc[p] = "using" => Len(held[p]) = 1
       /\ pc[p] = "acquiresleep" => Len(held[p]) = 0
       /\ pc[p] = "brelse" => then[p] = "idle"

\* The first and the second buffer that p has, or is about to have, in hand.
First(p) == IF Len(held[p]) = 0 THEN bp[p] ELSE held[p][1]
Second(p) == IF Len(held[p]) = 1 THEN bp[p] ELSE held[p][2]

\* The buffers in hand are those of the blocks asked for.
Asked(p) ==
  /\ At(p) \in {"using", "used"} => \A k \in DOMAIN held[p] : blockno[held[p][k]] \in Home
  /\ pc[p] = "acquiresleep" /\ then[p] = "using" => blockno[bp[p]] \in Home
  /\ At(p) \in {"write_log_from", "write_log_copy"} => blockno[First(p)] = LogBlock(tail)
  /\ At(p) = "write_log_copy" => blockno[Second(p)] = lh[tail]
  /\ At(p) = "write_head_copy" => blockno[First(p)] = LogBlock(0)
  /\ At(p) \in {"install_dst", "install_copy"} => blockno[First(p)] = LogBlock(unpinned + 1)
  /\ At(p) = "install_copy" => blockno[Second(p)] = lh[unpinned + 1]

Hands == \A p \in Procs : InHand(p) /\ Asked(p)

\* What a caller is doing, as far as the log is concerned.
Stage(p) ==
  IF At(p) \in {"call", "using", "used"} THEN "call"
  ELSE IF At(p) \in {"write_log", "write_log_from", "write_log_copy"} THEN "write_log"
  ELSE IF At(p) \in {"write_head", "write_head_copy"} THEN "write_head"
  ELSE IF At(p) \in {"install_trans", "install_dst", "install_copy"} THEN "install_trans"
  ELSE At(p)
Commits(p) == Stage(p) \notin {"idle", "call"}
Active == {p \in Callers : Stage(p) = "call"}

\* Calls and commits take turns, and only one process commits.
Turns ==
  /\ outstanding = Cardinality(Active)
  /\ committing = 1 => Active = {}
  /\ \A p \in Callers : Commits(p) => committing = 1
  /\ \A p, q \in Callers : Commits(p) /\ Commits(q) => p = q
  /\ committing = 0 /\ Active = {} => lh = <<>>

\* How far the loops of commit() are.
Progress ==
  /\ committing = 0 => tail = 1 /\ unpinned = 0
  /\ unpinned <= Len(lh)
  /\ \A p \in Callers :
       /\ Stage(p) \in {"write_log", "write_log_next"} => unpinned = 0 /\ tail <= Len(lh)
       /\ Stage(p) \in {"write_head", "committed"} => unpinned = 0 /\ tail = 1
       /\ Stage(p) = "committed" => lh = <<>>
       /\ Stage(p) \in {"install_trans", "install_next"} => tail = 1
       /\ Stage(p) = "install_trans" => unpinned < Len(lh)

\* What write_log() has copied stays equal to the block it was copied from.
Copied ==
  \A p \in Callers : \A t \in DOMAIN lh :
    (\/ Stage(p) \in {"write_log", "write_log_next"} /\ t < tail
     \/ Stage(p) = "write_log_next" /\ t = tail
     \/ Stage(p) \in {"write_head", "install_trans", "install_next"})
    => latest[LogBlock(t)] = latest[lh[t]]

\* A block that the disk does not have yet is pinned, in a filled buffer.
Pending(b) == \E t \in DOMAIN lh : t > unpinned /\ lh[t] = b
Kept ==
  /\ \A i \in Bufs : lock[i] # "none" => valid[i] = 1
  /\ \A i \in Bufs : valid[i] = 1 => blockno[i] # NoBlock /\ data[i] = latest[blockno[i]]
  /\ \A i \in Bufs : refcnt[i] # 0 => blockno[i] # NoBlock
  /\ \A b \in AllBlocks : disk[b] # latest[b] => Pending(b)
  /\ \A b \in AllBlocks : Pending(b) => \E i \in Bufs : blockno[i] = b /\ valid[i] = 1

\* The slots of the log that running calls reserved and have not used.
Reserved == {x \in Active \X (1..MAXOPBLOCKS) : x[2] > Cardinality(wrote[x[1]])}
Space ==
  /\ \A p \in Callers : p \notin Active => wrote[p] = {}
  /\ \A p \in Active : Cardinality(wrote[p]) <= OpBlocks /\ wrote[p] \subseteq Range(lh)
  /\ Len(lh) + Cardinality(Reserved) <= LOGBLOCKS
  /\ outstanding * MAXOPBLOCKS <= LOGBLOCKS
  /\ committing = 1 => Len(lh) + MAXOPBLOCKS <= LOGBLOCKS + OpBlocks

IInv == BuffersExact /\ Locks /\ Hands /\ Turns /\ Progress /\ Copied /\ Kept /\ Space

-----------------------------------------------------------------------------
Holders(i) == {p \in Procs : i \in Range(held[p])}
Passing(i) == {p \in Procs : pc[p] \in Transit /\ bp[p] = i}
Pins(i) == {t \in DOMAIN lh : t > unpinned /\ lh[t] = blockno[i]}

\* The constants as the provers use them.
LEMMA Constants ==
  /\ \A p \in Procs : p # "none"
  /\ NBUF \in Nat /\ NBLOCKS \in Nat /\ NBLOCKS >= 1 /\ LOGBLOCKS \in Nat /\ LOGBLOCKS >= 1
  /\ MAXOPBLOCKS \in Nat /\ MAXOPBLOCKS >= 1 /\ MAXOPBLOCKS <= LOGBLOCKS
  /\ OpBlocks \in Nat /\ OpBlocks < MAXOPBLOCKS /\ MaxBreads \in Nat /\ MaxOps \in Nat
  /\ \A p \in Callers : p \notin Readers
<1>1. \A p \in Procs : p # "none"
  BY BcacheAssumption, Zenon DEF Procs
<1> QED BY <1>1, BcacheAssumption

-----------------------------------------------------------------------------
(* ---- finite sets ---- *)

\* A set each of whose elements has a place of its own in T is no larger than T.
OneToOne ==
  \A S, T : \A f \in [S -> T] : IsFiniteSet(T) /\ (\A x, y \in S : f[x] = f[y] => x = y) =>
    Cardinality(S) <= Cardinality(T)

\* What the proofs use of finite sets; CountingHolds proves it.
Counting ==
  /\ \A S : IsFiniteSet(S) => Cardinality(S) \in Nat
  /\ IsFiniteSet({}) /\ Cardinality({}) = 0
  /\ \A S : IsFiniteSet(S) => (Cardinality(S) = 0 <=> S = {})
  /\ \A x : IsFiniteSet({x}) /\ Cardinality({x}) = 1
  /\ \A S, x : IsFiniteSet(S) =>
       /\ IsFiniteSet(S \cup {x})
       /\ Cardinality(S \cup {x}) = IF x \in S THEN Cardinality(S) ELSE Cardinality(S) + 1
  /\ \A S, x : IsFiniteSet(S) =>
       /\ IsFiniteSet(S \ {x})
       /\ Cardinality(S \ {x}) = IF x \in S THEN Cardinality(S) - 1 ELSE Cardinality(S)
  /\ \A S : \A T \in SUBSET S : IsFiniteSet(S) =>
       IsFiniteSet(T) /\ Cardinality(T) <= Cardinality(S)
  /\ \A a, b \in Int :
       IsFiniteSet(a..b) /\ Cardinality(a..b) = IF a > b THEN 0 ELSE b - a + 1
  /\ \A S, T : IsFiniteSet(S) /\ IsFiniteSet(T) =>
       /\ IsFiniteSet(S \cup T)
       /\ Cardinality(S \cup T) = Cardinality(S) + Cardinality(T) - Cardinality(S \cap T)
  /\ \A S, T : IsFiniteSet(S) => IsFiniteSet(S \cap T)
  /\ \A S, T : IsFiniteSet(S) /\ IsFiniteSet(T) =>
       IsFiniteSet(S \X T) /\ Cardinality(S \X T) = Cardinality(S) * Cardinality(T)
  /\ OneToOne

(* The conjuncts of Counting, one by one. *)
LEMMA CountNat ==
  ASSUME Counting, NEW S, IsFiniteSet(S)
  PROVE  Cardinality(S) \in Nat
BY Zenon DEF Counting

(* The empty set is the set without elements to count. *)
LEMMA CountEmpty ==
  ASSUME Counting
  PROVE  /\ IsFiniteSet({}) /\ Cardinality({}) = 0
         /\ \A S : IsFiniteSet(S) => (Cardinality(S) = 0 <=> S = {})
BY Zenon DEF Counting

(* One element counts one. *)
LEMMA CountOne ==
  ASSUME Counting
  PROVE  \A x : IsFiniteSet({x}) /\ Cardinality({x}) = 1
BY Zenon DEF Counting

(* A set with one more element. *)
LEMMA CountAdd ==
  ASSUME Counting, NEW S, NEW x, IsFiniteSet(S)
  PROVE  /\ IsFiniteSet(S \cup {x})
         /\ Cardinality(S \cup {x}) = IF x \in S THEN Cardinality(S) ELSE Cardinality(S) + 1
BY Zenon DEF Counting

(* A set with one element less. *)
LEMMA CountRemove ==
  ASSUME Counting, NEW S, NEW x, IsFiniteSet(S)
  PROVE  /\ IsFiniteSet(S \ {x})
         /\ Cardinality(S \ {x}) = IF x \in S THEN Cardinality(S) - 1 ELSE Cardinality(S)
BY Zenon DEF Counting

(* A part of a finite set. *)
LEMMA CountSubset ==
  ASSUME Counting, NEW S, IsFiniteSet(S), NEW T \in SUBSET S
  PROVE  IsFiniteSet(T) /\ Cardinality(T) <= Cardinality(S)
BY Zenon DEF Counting

(* The numbers from a to b. *)
LEMMA CountInterval ==
  ASSUME Counting, NEW a \in Int, NEW b \in Int
  PROVE  IsFiniteSet(a..b) /\ Cardinality(a..b) = IF a > b THEN 0 ELSE b - a + 1
BY Zenon DEF Counting

(* Two sets together. *)
LEMMA CountUnion ==
  ASSUME Counting, NEW S, NEW T, IsFiniteSet(S), IsFiniteSet(T)
  PROVE  /\ IsFiniteSet(S \cup T) /\ IsFiniteSet(S \cap T)
         /\ Cardinality(S \cup T) = Cardinality(S) + Cardinality(T) - Cardinality(S \cap T)
<1>1. /\ IsFiniteSet(S \cup T)
      /\ Cardinality(S \cup T) = Cardinality(S) + Cardinality(T) - Cardinality(S \cap T)
  BY Zenon DEF Counting
<1>2. IsFiniteSet(S \cap T)
  BY Zenon DEF Counting
<1> QED BY <1>1, <1>2, Zenon

(* Pairs. *)
LEMMA CountProduct ==
  ASSUME Counting, NEW S, NEW T, IsFiniteSet(S), IsFiniteSet(T)
  PROVE  IsFiniteSet(S \X T) /\ Cardinality(S \X T) = Cardinality(S) * Cardinality(T)
BY Zenon DEF Counting

(* A set each of whose elements has a place of its own in T. *)
LEMMA CountInjection ==
  ASSUME Counting, NEW S, NEW T, IsFiniteSet(T), NEW f \in [S -> T],
         \A x, y \in S : f[x] = f[y] => x = y
  PROVE  Cardinality(S) <= Cardinality(T)
<1>1. OneToOne
  BY Zenon DEF Counting
<1> QED BY <1>1, Zenon DEF OneToOne

(* There are finitely many processes. *)
LEMMA FiniteProcs ==
  ASSUME Counting
  PROVE  IsFiniteSet(Procs)
BY BcacheAssumption, CountUnion, Zenon DEF Procs

\* What the counts of RefcntExact count is finite.
LEMMA Finite ==
  ASSUME Counting, TypeOK, NEW i \in Bufs
  PROVE  /\ IsFiniteSet(Holders(i)) /\ Cardinality(Holders(i)) \in Nat
         /\ IsFiniteSet(Passing(i)) /\ Cardinality(Passing(i)) \in Nat
         /\ IsFiniteSet(Pins(i)) /\ Cardinality(Pins(i)) \in Nat
<1>1. Holders(i) \in SUBSET Procs /\ Passing(i) \in SUBSET Procs
  BY Zenon DEF Holders, Passing
<1>2. Len(lh) \in Nat /\ DOMAIN lh = 1..Len(lh)
  BY DEF TypeOK
<1>3. IsFiniteSet(1..Len(lh))
  BY <1>2, CountInterval
<1>4. Pins(i) \in SUBSET (1..Len(lh))
  BY <1>2, Zenon DEF Pins
<1> QED BY <1>1, <1>3, <1>4, FiniteProcs, CountSubset, CountNat, Zenon

\* b->refcnt in the words of Holders, Passing and Pins.
LEMMA Refcount ==
  ASSUME IInv, NEW i \in Bufs
  PROVE  refcnt[i] = Cardinality(Holders(i)) + Cardinality(Passing(i)) + Cardinality(Pins(i))
BY Zenon DEF IInv, BuffersExact, RefcntExact, Holders, Passing, Pins, Transit

\* A buffer that somebody has or waits for, or that holds a pinned block, has a
\* count that is not zero: bget() does not recycle it.
LEMMA Counted ==
  ASSUME Counting, IInv, NEW i \in Bufs, refcnt[i] = 0
  PROVE  Holders(i) = {} /\ Passing(i) = {} /\ Pins(i) = {}
<1>1. refcnt[i] = Cardinality(Holders(i)) + Cardinality(Passing(i)) + Cardinality(Pins(i))
  BY Refcount, Zenon
<1>2. TypeOK
  BY Zenon DEF IInv, BuffersExact
<1>3. Cardinality(Holders(i)) = 0 /\ Cardinality(Passing(i)) = 0 /\ Cardinality(Pins(i)) = 0
  BY <1>1, <1>2, Finite
<1> QED BY <1>2, <1>3, Finite, CountEmpty, Zenon

\* The number that binit() leaves in a buffer is no block's; the log is apart from
\* the blocks it logs.
LEMMA BlockNumbers ==
  /\ NoBlock \notin AllBlocks /\ Home \subseteq AllBlocks /\ FreeMap \in Home
  /\ LogBlock(0) \in AllBlocks /\ LogBlock(0) \notin Home
  /\ \A t \in 1..LOGBLOCKS : LogBlock(t) \in AllBlocks /\ LogBlock(t) \notin Home /\ LogBlock(t) # LogBlock(0)
  /\ \A t, u \in 1..LOGBLOCKS : LogBlock(t) = LogBlock(u) => t = u
BY Constants DEF NoBlock, AllBlocks, Home, FreeMap, LogBlock

\* A step of p leaves the other processes where they are.
Moves(p) ==
  \A q \in Procs \ {p} :
    /\ pc'[q] = pc[q] /\ then'[q] = then[q] /\ bp'[q] = bp[q] /\ held'[q] = held[q]
    /\ seen'[q] = seen[q] /\ wrote'[q] = wrote[q]

\* No buffer in use changes its block.
BlocksStay == \A i \in Bufs : refcnt[i] # 0 => blockno'[i] = blockno[i]

\* Buffers in hand or waited for keep their blocks.
LEMMA InUseStay ==
  ASSUME Counting, IInv, BlocksStay, NEW p \in Procs
  PROVE  /\ \A k \in DOMAIN held[p] : held[p][k] \in Bufs /\ blockno'[held[p][k]] = blockno[held[p][k]]
         /\ pc[p] \in Transit => bp[p] \in Bufs /\ blockno'[bp[p]] = blockno[bp[p]]
<1>1. \A k \in DOMAIN held[p] : held[p][k] \in Bufs
  BY DEF IInv, BuffersExact, TypeOK
<1>2. \A k \in DOMAIN held[p] : p \in Holders(held[p][k])
  BY Zenon DEF Holders, Range
<1>3. pc[p] \in Transit => bp[p] \in Bufs /\ p \in Passing(bp[p])
  BY Zenon DEF IInv, Hands, InHand, Passing
<1> QED BY <1>1, <1>2, <1>3, Counted, Zenon DEF BlocksStay

\* A process that stays where it is stays at its stage.
LEMMA StageStays ==
  ASSUME NEW q, At(q)' = At(q)
  PROVE  Stage(q)' = Stage(q)
BY Zenon DEF Stage

\* A step of p that recycles no buffer in use leaves what the others have in hand right.
LEMMA OthersHands ==
  ASSUME Counting, IInv, NEW p \in Procs, Moves(p), BlocksStay,
         \/ UNCHANGED <<lh, tail, unpinned>>
         \/ \A q \in Callers \ {p} : ~Commits(q)
  PROVE  \A q \in Procs \ {p} : InHand(q)' /\ Asked(q)'
<1> SUFFICES ASSUME NEW q \in Procs \ {p} PROVE InHand(q)' /\ Asked(q)'
  BY Zenon
<1>1. /\ pc'[q] = pc[q] /\ then'[q] = then[q] /\ bp'[q] = bp[q] /\ held'[q] = held[q]
      /\ seen'[q] = seen[q] /\ wrote'[q] = wrote[q] /\ At(q)' = At(q)
  BY Zenon DEF Moves, At
<1>2. InHand(q) /\ Asked(q)
  BY Zenon DEF IInv, Hands
<1>3. InHand(q)'
  BY <1>1, <1>2, Zenon DEF InHand
<1>4. /\ \A k \in DOMAIN held[q] : held[q][k] \in Bufs /\ blockno'[held[q][k]] = blockno[held[q][k]]
      /\ pc[q] \in Transit => bp[q] \in Bufs /\ blockno'[bp[q]] = blockno[bp[q]]
  BY InUseStay, Zenon
<1>5. /\ At(q) \in {"using", "used"} => \A k \in DOMAIN held[q] : blockno'[held[q][k]] \in Home
      /\ pc[q] = "acquiresleep" /\ then[q] = "using" => blockno'[bp[q]] \in Home
  BY <1>2, <1>4, Zenon DEF Asked, Transit
<1>6. CASE At(q) \in OneHeld \cup TwoHeld
  <2>1. Commits(q) /\ q \in Callers
    BY <1>2, <1>6, Zenon DEF Commits, Stage, OneHeld, TwoHeld, InHand, Procs
  <2>2. UNCHANGED <<lh, tail, unpinned>>
    BY <2>1, Zenon
  <2>3. held[q] \in Seq(Bufs)
    BY Zenon DEF IInv, BuffersExact, TypeOK
  <2>4. blockno'[First(q)] = blockno[First(q)]
    <3>1. CASE Len(held[q]) = 0
      <4>1. pc[q] \in Transit
        BY <1>2, <1>6, <3>1 DEF At, InHand
      <4> QED BY <1>4, <3>1, <4>1, Zenon DEF First
    <3>2. CASE Len(held[q]) # 0
      <4>1. 1 \in DOMAIN held[q]
        BY <2>3, <3>2
      <4> QED BY <1>4, <3>2, <4>1, Zenon DEF First
    <3> QED BY <3>1, <3>2, Zenon
  <2>5. At(q) \in TwoHeld => blockno'[Second(q)] = blockno[Second(q)]
    <3> SUFFICES ASSUME At(q) \in TwoHeld PROVE blockno'[Second(q)] = blockno[Second(q)]
      BY Zenon
    <3>1. CASE pc[q] \in Transit
      <4>1. Len(held[q]) = 1
        BY <1>2, <3>1, Zenon DEF At, InHand, TwoHeld, NoneHeld, Transit
      <4> QED BY <1>4, <3>1, <4>1, Zenon DEF Second
    <3>2. CASE pc[q] \notin Transit
      <4>1. Len(held[q]) = 2
        BY <1>2, <3>2, Zenon DEF At, InHand
      <4>2. 2 \in DOMAIN held[q] /\ Len(held[q]) # 1
        BY <2>3, <4>1
      <4> QED BY <1>4, <4>2, Zenon DEF Second
    <3> QED BY <3>1, <3>2, Zenon
  <2>6. First(q)' = First(q) /\ Second(q)' = Second(q)
    BY <1>1, Zenon DEF First, Second
  <2>7. LogBlock(tail)' = LogBlock(tail) /\ LogBlock(unpinned + 1)' = LogBlock(unpinned + 1) /\ LogBlock(0)' = LogBlock(0)
    BY <2>2, Zenon DEF LogBlock
  <2> QED BY <1>1, <1>2, <1>3, <1>5, <2>2, <2>4, <2>5, <2>6, <2>7, Zenon DEF Asked, OneHeld, TwoHeld
<1>7. CASE At(q) \notin OneHeld \cup TwoHeld
  BY <1>1, <1>3, <1>5, <1>7, Zenon DEF Asked, OneHeld, TwoHeld
<1> QED BY <1>6, <1>7, Zenon

\* One step of p changes the counts by p's own references and by the pins.
Has(p, i) == IF i \in Range(held[p]) THEN 1 ELSE 0
Passes(p, i) == IF pc[p] \in Transit /\ bp[p] = i THEN 1 ELSE 0

\* The count of a set from which one element comes or goes.
LEMMA CardChange ==
  ASSUME Counting, NEW S, NEW T, NEW x, IsFiniteSet(S), \A y : y # x => (y \in S <=> y \in T)
  PROVE  /\ Cardinality(T) \in Nat
         /\ Cardinality(T) + (IF x \in S THEN 1 ELSE 0) = Cardinality(S) + (IF x \in T THEN 1 ELSE 0)
<1>1. Cardinality(S) \in Nat
  BY CountNat, Zenon
<1>2. CASE x \in T
  <2>1. T = S \cup {x}
    BY <1>2, Zenon
  <2>2. Cardinality(T) = IF x \in S THEN Cardinality(S) ELSE Cardinality(S) + 1
    BY <2>1, CountAdd, Zenon
  <2> QED BY <1>1, <1>2, <2>2
<1>3. CASE x \notin T
  <2>1. T = S \ {x}
    BY <1>3, Zenon
  <2>2. /\ IsFiniteSet(T)
        /\ Cardinality(T) = IF x \in S THEN Cardinality(S) - 1 ELSE Cardinality(S)
    BY <2>1, CountRemove, Zenon
  <2>3. Cardinality(T) \in Nat
    BY <2>2, CountNat, Zenon
  <2> QED BY <1>1, <1>3, <2>2, <2>3
<1> QED BY <1>2, <1>3, Zenon

\* If refcnt changes as the references of p and the pins do, it stays exact.
LEMMA RefcntStep ==
  ASSUME Counting, IInv, NEW p \in Procs, Moves(p), TypeOK',
         \A i \in Bufs : refcnt'[i] + Has(p, i) + Passes(p, i) + Cardinality(Pins(i))
                       = refcnt[i] + Has(p, i)' + Passes(p, i)' + Cardinality(Pins(i)')
  PROVE  RefcntExact'
<1> SUFFICES ASSUME NEW i \in Bufs
             PROVE  refcnt'[i] = Cardinality(Holders(i)') + Cardinality(Passing(i)') + Cardinality(Pins(i)')
  BY Zenon DEF RefcntExact, Holders, Passing, Pins, Transit
<1>1. refcnt[i] = Cardinality(Holders(i)) + Cardinality(Passing(i)) + Cardinality(Pins(i))
  BY Refcount, Zenon
<1>2. TypeOK
  BY Zenon DEF IInv, BuffersExact
<1>3. \A q : q # p => (q \in Holders(i) <=> q \in Holders(i)')
  BY Zenon DEF Holders, Moves
<1>4. \A q : q # p => (q \in Passing(i) <=> q \in Passing(i)')
  BY Zenon DEF Passing, Moves
<1>5. (IF p \in Holders(i) THEN 1 ELSE 0) = Has(p, i) /\ (IF p \in Holders(i)' THEN 1 ELSE 0) = Has(p, i)'
  BY Zenon DEF Holders, Has
<1>6. (IF p \in Passing(i) THEN 1 ELSE 0) = Passes(p, i) /\ (IF p \in Passing(i)' THEN 1 ELSE 0) = Passes(p, i)'
  BY Zenon DEF Passing, Passes
<1>7. /\ Cardinality(Holders(i)') + Has(p, i) = Cardinality(Holders(i)) + Has(p, i)'
      /\ Cardinality(Holders(i)') \in Nat
  <2>1. /\ Cardinality(Holders(i)') \in Nat
        /\ Cardinality(Holders(i)') + (IF p \in Holders(i) THEN 1 ELSE 0)
             = Cardinality(Holders(i)) + (IF p \in Holders(i)' THEN 1 ELSE 0)
    BY <1>2, <1>3, Finite, CardChange, Zenon
  <2> QED BY <1>5, <2>1, Zenon
<1>8. /\ Cardinality(Passing(i)') + Passes(p, i) = Cardinality(Passing(i)) + Passes(p, i)'
      /\ Cardinality(Passing(i)') \in Nat
  <2>1. /\ Cardinality(Passing(i)') \in Nat
        /\ Cardinality(Passing(i)') + (IF p \in Passing(i) THEN 1 ELSE 0)
             = Cardinality(Passing(i)) + (IF p \in Passing(i)' THEN 1 ELSE 0)
    BY <1>2, <1>4, Finite, CardChange, Zenon
  <2> QED BY <1>6, <2>1, Zenon
<1>9. {Has(p, i), Has(p, i)', Passes(p, i), Passes(p, i)', refcnt[i], refcnt'[i]} \subseteq Nat
  BY <1>2 DEF Has, Passes, TypeOK
<1>10. Cardinality(Pins(i)) \in Nat /\ Cardinality(Pins(i)') \in Nat
  <2>1. Len(lh)' \in Nat /\ DOMAIN lh' = 1..Len(lh)'
    BY DEF TypeOK
  <2>2. IsFiniteSet(1..Len(lh)') /\ Pins(i)' \subseteq 1..Len(lh)'
    BY <2>1, CountInterval, SMTT(30) DEF Pins
  <2> QED BY <1>2, <2>2, Finite, CountSubset, CountNat, Zenon
<1>11. Cardinality(Holders(i)) \in Nat /\ Cardinality(Passing(i)) \in Nat
  BY <1>2, Finite, Zenon
<1> HIDE DEF Has, Passes
<1> QED BY <1>1, <1>7, <1>8, <1>9, <1>10, <1>11

\* The references of p are the same in number.
SameRefs(p) == \A j \in Bufs : Has(p, j) + Passes(p, j) = Has(p, j)' + Passes(p, j)'

\* A step that neither pins nor unpins, and leaves p with as many references.
LEMMA SameRefcnt ==
  ASSUME Counting, IInv, NEW p \in Procs, Moves(p), TypeOK', SameRefs(p), UNCHANGED refcnt,
         \A j \in Bufs : Pins(j)' = Pins(j)
  PROVE  RefcntExact'
<1>0. TypeOK
  BY Zenon DEF IInv, BuffersExact
<1>1. \A j \in Bufs : /\ Cardinality(Pins(j)) \in Nat /\ refcnt[j] \in Nat
                      /\ {Has(p, j), Has(p, j)', Passes(p, j), Passes(p, j)'} \subseteq Nat
  <2>1. \A j \in Bufs : Cardinality(Pins(j)) \in Nat
    BY <1>0, Finite, Zenon
  <2> QED BY <1>0, <2>1 DEF TypeOK, Has, Passes
<1>2. \A j \in Bufs : refcnt'[j] + Has(p, j) + Passes(p, j) + Cardinality(Pins(j))
                        = refcnt[j] + Has(p, j)' + Passes(p, j)' + Cardinality(Pins(j)')
  BY <1>1 DEF SameRefs
<1> QED BY <1>2, RefcntStep, Zenon

\* Nothing changes for the log while the callers stay in their stages.
LEMMA LogFrame ==
  ASSUME IInv, UNCHANGED <<lh, outstanding, committing, tail, unpinned, latest>>,
         \A q \in Callers : Stage(q)' = Stage(q) /\ wrote'[q] = wrote[q]
  PROVE  Turns' /\ Progress' /\ Copied' /\ Space'
<1>1. Active' = Active /\ \A q \in Active : q \in Callers
  BY Zenon DEF Active
<1>2. Reserved' = Reserved
  BY <1>1, Zenon DEF Reserved
<1>3. \A q \in Callers : Commits(q)' = Commits(q)
  BY Zenon DEF Commits
<1>4. Turns'
  BY <1>1, <1>3, Zenon DEF IInv, Turns
<1>5. Progress'
  BY Zenon DEF IInv, Progress
<1>6. Copied'
  BY DEF IInv, Copied, LogBlock
<1>7. Space'
  BY <1>1, <1>2, Zenon DEF IInv, Space
<1> QED BY <1>4, <1>5, <1>6, <1>7, Zenon

(* ---- bread() and brelse() ---- *)

\* acquiresleep() hands p the buffer it waited for; the lock was free.
LEMMA BreadKeeps ==
  ASSUME Counting, IInv, NEW p \in Procs, Bread(p)
  PROVE  IInv'
<1> DEFINE i == bp[p]
<1>1. /\ pc[p] = "acquiresleep" /\ i \in Bufs /\ lock[i] = "none"
      /\ lock' = [lock EXCEPT ![i] = p] /\ valid' = [valid EXCEPT ![i] = 1]
      /\ data' = [data EXCEPT ![i] = IF valid[i] = 1 THEN @ ELSE disk[blockno[i]]]
      /\ pc' = [pc EXCEPT ![p] = then[p]] /\ then' = [then EXCEPT ![p] = "idle"] /\ bp' = [bp EXCEPT ![p] = 0]
      /\ held' = [held EXCEPT ![p] = Append(@, i)]
      /\ UNCHANGED <<blockno, refcnt, lru, disk, lh, outstanding, committing, tail, unpinned>>
      /\ UNCHANGED <<wrote, seen, ops, latest>>
  BY Zenon DEF Bread, Return, IInv, Hands, InHand, Transit, logVars
<1>2. TypeOK /\ OneBufferPerBlock /\ InHand(p) /\ Asked(p) /\ Locks /\ Kept
  BY Zenon DEF IInv, BuffersExact, Hands
<1>3. \A j \in Bufs : /\ lock'[j] = IF j = i THEN p ELSE lock[j]
                      /\ valid'[j] = IF j = i THEN 1 ELSE valid[j]
                      /\ data'[j] = IF j = i /\ valid[i] # 1 THEN disk[blockno[i]] ELSE data[j]
  BY <1>1, <1>2, Zenon DEF TypeOK
<1>4. blockno[i] \in AllBlocks
  <2>1. p \in Passing(i)
    BY <1>1, Zenon DEF Passing, Transit
  <2>2. refcnt[i] # 0
    BY <1>1, <2>1, Counted, Zenon
  <2> QED BY <1>1, <1>2, <2>2 DEF IInv, Kept, TypeOK
<1>5. held[p] \in Seq(Bufs) /\ held'[p] = Append(held[p], i) /\ held'[p] \in Seq(Bufs)
  BY <1>1, <1>2 DEF TypeOK
<1>6. TypeOK'
  <2>1. valid' \in [Bufs -> {0, 1}] /\ lock' \in [Bufs -> Procs \cup {"none"}] /\ data' \in [Bufs -> {0, 1}]
    BY <1>1, <1>2, <1>4, Zenon DEF TypeOK
  <2>2. /\ pc' \in [Procs -> Locations] /\ then' \in [Procs -> Locations]
        /\ bp' \in [Procs -> 0..NBUF] /\ held' \in [Procs -> Seq(Bufs)]
    BY <1>1, <1>2, <1>5, Constants DEF TypeOK, Locations
  <2> QED BY <1>1, <1>2, <2>1, <2>2, Zenon DEF TypeOK
<1>7. Moves(p)
  BY <1>1, <1>2, Zenon DEF Moves, TypeOK
<1>8. BlocksStay
  BY <1>1, Zenon DEF BlocksStay
<1>9. pc'[p] = then[p] /\ then[p] \notin Transit /\ At(p)' = then[p] /\ At(p) = then[p] /\ seen'[p] = seen[p] /\ wrote'[p] = wrote[p]
  BY <1>1, <1>2, Zenon DEF At, Transit, InHand, TwoHeld, TypeOK
<1>10. \A q \in Callers : Stage(q)' = Stage(q) /\ wrote'[q] = wrote[q]
  <2>1. \A q \in Procs : At(q)' = At(q) /\ wrote'[q] = wrote[q]
    BY <1>7, <1>9, Zenon DEF Moves, At
  <2> QED BY <2>1, StageStays, Zenon DEF Procs
<1>11. Turns' /\ Progress' /\ Copied' /\ Space'
  BY <1>1, <1>10, LogFrame, Zenon
<1>20. Len(held'[p]) = Len(held[p]) + 1 /\ Len(held[p]) \in Nat
  BY <1>1, <1>2, <1>5
<1>12. DOMAIN held'[p] = 1..(Len(held[p]) + 1) /\ DOMAIN held[p] = 1..Len(held[p])
       /\ (\A k \in DOMAIN held[p] : held'[p][k] = held[p][k]) /\ held'[p][Len(held[p]) + 1] = i
  BY <1>1, <1>2, <1>5
<1> HIDE DEF i
<1>13. InHand(p)'
  <2>1. /\ then[p] \in {"using", "write_log_from", "write_head_copy", "install_dst"} \cup TwoHeld
        /\ then[p] = "using" => Len(held[p]) \in {0, 1}
        /\ then[p] \in {"write_log_from", "write_head_copy", "install_dst"} => Len(held[p]) = 0
        /\ then[p] \in TwoHeld => Len(held[p]) = 1
        /\ p \in Readers => Len(held[p]) = 0 /\ seen[p] = 0 /\ wrote[p] = {} /\ then[p] \in {"idle", "using"}
    BY <1>1, <1>2, <1>9, Zenon DEF InHand, TwoHeld
  <2>2. /\ Len(held[p]) = 0 => Len(held'[p]) = 1
        /\ Len(held[p]) = 1 => Len(held'[p]) = 2
    BY <1>5, <1>20
  <2> QED BY <1>9, <2>1, <2>2, Zenon DEF InHand, NoneHeld, OneHeld, TwoHeld, Transit
<1>14. Asked(p)'
  <2>1. \A k \in DOMAIN held'[p] : blockno'[held'[p][k]] = IF k = Len(held[p]) + 1 THEN blockno[i] ELSE blockno[held[p][k]]
    BY <1>1, <1>12
  <2>2. First(p)' = First(p)
    BY <1>12, <1>20 DEF First, i
  <2>3. At(p) \in TwoHeld => Second(p)' = Second(p)
    <3>1. At(p) \in TwoHeld => Len(held[p]) = 1
      BY <1>1, <1>2, <1>9, Zenon DEF InHand, TwoHeld
    <3>2. Len(held[p]) = 1 => Len(held'[p]) = 2 /\ held'[p][2] = i
      BY <1>12, <1>20
    <3>3. (2 = 1) = FALSE
      OBVIOUS
    <3> QED BY <3>1, <3>2, <3>3, Zenon DEF Second, i
  <2>4. pc'[p] # "acquiresleep"
    BY <1>9, Zenon DEF Transit
  <2>5. At(p) \in {"using", "used"} => \A k \in DOMAIN held'[p] : blockno'[held'[p][k]] \in Home
    BY <1>1, <1>2, <1>9, <1>12, <2>1 DEF Asked, InHand, TwoHeld, i
  <2> QED BY <1>1, <1>2, <1>9, <2>2, <2>3, <2>4, <2>5, Zenon DEF Asked, OneHeld, TwoHeld, LogBlock
<1>15. Hands'
  BY <1>1, <1>7, <1>8, <1>13, <1>14, OthersHands, Zenon DEF Hands
<1>19. i \notin Range(held[p]) /\ Range(held'[p]) = Range(held[p]) \cup {i}
  <2>1. i \notin Range(held[p])
    BY <1>1, <1>2, Constants, Zenon DEF Locks
  <2>2. Range(held'[p]) = Range(held[p]) \cup {i}
    BY <1>12 DEF Range
  <2> QED BY <2>1, <2>2, Zenon
<1>16. Locks'
  <2>1. i \notin Range(held[p])
    BY <1>19, Zenon
  <2>2. Range(held'[p]) = Range(held[p]) \cup {i}
    BY <1>19, Zenon
  <2>3. \A j \in Bufs, q \in Procs : lock'[j] = q <=> j \in Range(held'[q])
    <3>1. \A j \in Bufs, q \in Procs \ {p} : lock'[j] = q <=> j \in Range(held'[q])
      BY <1>1, <1>2, <1>3, <1>7, Constants DEF Locks, Moves
    <3>2. \A j \in Bufs : lock'[j] = p <=> j \in Range(held'[p])
      BY <1>2, <1>3, <2>2, Zenon DEF Locks
    <3> QED BY <3>1, <3>2, Zenon
  <2>4. \A k, l \in DOMAIN held'[p] : held'[p][k] = held'[p][l] => k = l
    BY <1>2, <1>12, <1>20, <2>1, SMTT(30) DEF Locks, Range
  <2>5. \A q \in Procs \ {p} : \A k, l \in DOMAIN held'[q] : held'[q][k] = held'[q][l] => k = l
    BY <1>2, <1>7 DEF Locks, Moves
  <2> QED BY <2>3, <2>4, <2>5, Zenon DEF Locks
<1>17. OneBufferPerBlock' /\ Kept'
  <2>1. OneBufferPerBlock'
    BY <1>1, Zenon DEF IInv, BuffersExact, OneBufferPerBlock, NoBlock
  <2>2. \A b \in AllBlocks : Pending(b)' = Pending(b)
    BY <1>1, Zenon DEF Pending
  <2>3. valid[i] # 1 => disk[blockno[i]] = latest[blockno[i]]
    <3>1. \A j \in Bufs : blockno[j] = blockno[i] => j = i
      BY <1>1, <1>2, <1>4, BlockNumbers, Zenon DEF OneBufferPerBlock
    <3> QED BY <1>1, <1>2, <1>4, <3>1, Zenon DEF Kept
  <2>4. \A j \in Bufs : lock'[j] # "none" => valid'[j] = 1
    BY <1>2, <1>3, Zenon DEF Kept
  <2>5. \A j \in Bufs : valid'[j] = 1 => blockno'[j] # NoBlock /\ data'[j] = latest'[blockno'[j]]
    BY <1>1, <1>2, <1>3, <1>4, <2>3, BlockNumbers DEF Kept, NoBlock
  <2>6. \A b \in AllBlocks : Pending(b) => \E j \in Bufs : blockno'[j] = b /\ valid'[j] = 1
    BY <1>1, <1>2, <1>3 DEF Kept
  <2> QED BY <1>1, <1>2, <2>1, <2>2, <2>4, <2>5, <2>6, Zenon DEF Kept, NoBlock
<1>18. RefcntExact'
  <2>1. \A j \in Bufs : Pins(j)' = Pins(j)
    BY <1>1, Zenon DEF Pins
  <2>2. \A j \in Bufs : IF j = i THEN Has(p, j) = 0 /\ Has(p, j)' = 1 ELSE Has(p, j)' = Has(p, j)
    BY <1>19, Zenon DEF Has
  <2>3. \A j \in Bufs : Passes(p, j) = (IF j = i THEN 1 ELSE 0) /\ Passes(p, j)' = 0
    BY <1>1, <1>9, Zenon DEF Passes, Transit, i
  <2>4. SameRefs(p)
    BY <2>2, <2>3 DEF Has, SameRefs
  <2> QED BY <1>1, <1>6, <1>7, <2>1, <2>4, SameRefcnt, Zenon
<1> QED BY <1>6, <1>11, <1>15, <1>16, <1>17, <1>18, Zenon DEF IInv, BuffersExact

\* releasesleep() of the k-th buffer in p's hands leaves p with the others, and on
\* its way through brelse().
Releases(p, k, to) ==
  /\ k \in DOMAIN held[p] /\ pc[p] \notin Transit /\ Releasesleep(p, k, to)
  /\ UNCHANGED <<blockno, valid, lru, wrote, seen, ops>>
  /\ to \in Locations \ {"acquiresleep", "brelse", "used"}

Released(p, k, to) ==
  /\ held[p][k] \in Bufs /\ Moves(p) /\ BlocksStay
  /\ \A j \in Bufs : lock'[j] = IF j = held[p][k] THEN "none" ELSE lock[j]
  /\ pc'[p] = "brelse" /\ then'[p] = to /\ bp'[p] = held[p][k] /\ At(p)' = to /\ At(p) = pc[p]
  /\ lock' \in [Bufs -> Procs \cup {"none"}]
  /\ pc' \in [Procs -> Locations] /\ then' \in [Procs -> Locations]
  /\ bp' \in [Procs -> 0..NBUF] /\ held' \in [Procs -> Seq(Bufs)]
  /\ held[p] \in Seq(Bufs) /\ held'[p] = Without(held[p], k)
  /\ Len(held'[p]) = Len(held[p]) - 1 /\ DOMAIN held'[p] = 1..(Len(held[p]) - 1)
  /\ Range(held'[p]) = Range(held[p]) \ {held[p][k]} /\ held[p][k] \in Range(held[p])

\* What releasesleep(&b->lock) of brelse() leaves: p has the buffer no more, and
\* its reference still to give back.
LEMMA ReleaseHeld ==
  ASSUME IInv, NEW p \in Procs, NEW k, NEW to, Releases(p, k, to)
  PROVE  Released(p, k, to)
<1>1. TypeOK
  BY Zenon DEF IInv, BuffersExact
<1>2. held[p] \in Seq(Bufs) /\ k \in 1..Len(held[p]) /\ held[p][k] \in Bufs /\ Len(held[p]) \in Nat
  BY <1>1 DEF TypeOK, Releases
<1>3. /\ lock' = [lock EXCEPT ![held[p][k]] = "none"]
      /\ held' = [held EXCEPT ![p] = Without(held[p], k)]
      /\ bp' = [bp EXCEPT ![p] = held[p][k]]
      /\ pc' = [pc EXCEPT ![p] = "brelse"] /\ then' = [then EXCEPT ![p] = to]
      /\ to \in Locations
  BY Zenon DEF Releases, Releasesleep
<1>4. /\ Without(held[p], k) \in Seq(Bufs)
      /\ Len(Without(held[p], k)) = Len(held[p]) - 1
      /\ DOMAIN Without(held[p], k) = 1..(Len(held[p]) - 1)
      /\ \A j \in 1..(Len(held[p]) - 1) : Without(held[p], k)[j] = IF j < k THEN held[p][j] ELSE held[p][j + 1]
  BY <1>2 DEF Without
<1>5. held'[p] = Without(held[p], k)
  BY <1>1, <1>3, Zenon DEF TypeOK
<1>6. Range(Without(held[p], k)) = Range(held[p]) \ {held[p][k]}
  <2>1. \A j, l \in DOMAIN held[p] : held[p][j] = held[p][l] => j = l
    BY Zenon DEF IInv, Locks
  <2>2. ASSUME NEW j \in 1..(Len(held[p]) - 1)
        PROVE  Without(held[p], k)[j] \in Range(held[p]) \ {held[p][k]}
    BY <1>2, <1>4, <2>1, <2>2, SMTT(30) DEF Range
  <2>3. ASSUME NEW j \in 1..Len(held[p]), j # k
        PROVE  held[p][j] \in Range(Without(held[p], k))
    <3>1. CASE j < k
      <4>1. j \in 1..(Len(held[p]) - 1)
        BY <1>2, <2>3, <3>1
      <4>2. Without(held[p], k)[j] = held[p][j]
        BY <1>4, <3>1, <4>1, Zenon
      <4> QED BY <1>4, <4>1, <4>2, Zenon DEF Range
    <3>2. CASE j > k
      <4>1. j - 1 \in 1..(Len(held[p]) - 1) /\ ~(j - 1 < k) /\ (j - 1) + 1 = j
        BY <1>2, <2>3, <3>2
      <4>2. Without(held[p], k)[j - 1] = held[p][j]
        BY <1>4, <4>1, Zenon
      <4> QED BY <1>4, <4>1, <4>2, Zenon DEF Range
    <3> QED BY <1>2, <2>3, <3>1, <3>2
  <2>4. DOMAIN held[p] = 1..Len(held[p])
    BY <1>2
  <2> QED BY <1>4, <2>2, <2>3, <2>4, Zenon DEF Range
<1>7. /\ lock' \in [Bufs -> Procs \cup {"none"}]
      /\ pc' \in [Procs -> Locations] /\ then' \in [Procs -> Locations] /\ held' \in [Procs -> Seq(Bufs)]
  BY <1>1, <1>2, <1>3, <1>4, Zenon DEF TypeOK, Locations
<1>8. bp' \in [Procs -> 0..NBUF]
  <2>1. held[p][k] \in 0..NBUF
    BY <1>2, Constants DEF Bufs
  <2> QED BY <1>1, <1>3, <2>1, Zenon DEF TypeOK
<1>9. /\ \A j \in Bufs : lock'[j] = IF j = held[p][k] THEN "none" ELSE lock[j]
      /\ pc'[p] = "brelse" /\ then'[p] = to /\ bp'[p] = held[p][k]
  BY <1>1, <1>2, <1>3, Zenon DEF TypeOK
<1>10. Moves(p) /\ BlocksStay
  BY <1>1, <1>3, Zenon DEF TypeOK, Moves, BlocksStay, Releases
<1>11. At(p)' = to /\ At(p) = pc[p]
  BY <1>9, Zenon DEF At, Transit, Releases
<1>12. held[p][k] \in Range(held[p])
  BY <1>2, Zenon DEF Range, Releases
<1> QED BY <1>2, <1>4, <1>5, <1>6, <1>7, <1>8, <1>9, <1>10, <1>11, <1>12, Zenon DEF Released

GivesBack(p, k, to) ==
  /\ Releases(p, k, to)
  /\ \/ to \in NoneHeld /\ Len(held[p]) = 1
     \/ to \in {"using", "write_log_next", "install_next"} /\ Len(held[p]) = 2
  /\ to = "using" => pc[p] \in {"using", "used"}
  /\ p \in Readers => to = "idle"
  /\ p \in Callers => to # "idle"
  /\ \/ UNCHANGED <<lh, tail, unpinned>>
     \/ \A q \in Callers \ {p} : ~Commits(q)

\* Releasing the lock of a buffer keeps locks, hands and references right.
LEMMA ReleaseKeeps ==
  ASSUME Counting, IInv, NEW p \in Procs, NEW k, NEW to, GivesBack(p, k, to)
  PROVE  Released(p, k, to) /\ Locks' /\ Hands' /\ OneBufferPerBlock' /\ SameRefs(p)
<1> USE DEF GivesBack
<1> DEFINE i == held[p][k]
<1>0. Released(p, k, to)
  BY ReleaseHeld, Zenon
<1>1. /\ i \in Bufs /\ Moves(p) /\ BlocksStay
      /\ \A j \in Bufs : lock'[j] = IF j = i THEN "none" ELSE lock[j]
      /\ pc'[p] = "brelse" /\ then'[p] = to /\ bp'[p] = i /\ At(p)' = to /\ At(p) = pc[p]
      /\ Range(held'[p]) = Range(held[p]) \ {i} /\ i \in Range(held[p])
  BY <1>0, Zenon DEF Released
<1>2. /\ held[p] \in Seq(Bufs) /\ Len(held'[p]) = Len(held[p]) - 1 /\ DOMAIN held'[p] = 1..(Len(held[p]) - 1)
      /\ held'[p] = Without(held[p], k) /\ k \in 1..Len(held[p])
  BY <1>0 DEF Released, Releases
<1>3. Locks /\ InHand(p) /\ Asked(p) /\ OneBufferPerBlock
  BY Zenon DEF IInv, Hands, BuffersExact
<1> HIDE DEF i
<1>4. Locks'
  <2>1. \A j \in Bufs, q \in Procs \ {p} : lock'[j] = q <=> j \in Range(held'[q])
    <3> SUFFICES ASSUME NEW j \in Bufs, NEW q \in Procs, q # p PROVE lock'[j] = q <=> j \in Range(held'[q])
      BY Zenon
    <3>1. lock[j] = q <=> j \in Range(held[q])
      BY <1>3, Zenon DEF Locks
    <3>2. held'[q] = held[q] /\ lock'[j] = IF j = i THEN "none" ELSE lock[j]
      BY <1>1, Zenon DEF Moves
    <3>3. q # "none" /\ lock[i] = p
      BY <1>1, <1>3, Constants, Zenon DEF Locks
    <3> QED BY <3>1, <3>2, <3>3, Zenon
  <2>2. \A j \in Bufs : lock'[j] = p <=> j \in Range(held'[p])
    <3> SUFFICES ASSUME NEW j \in Bufs PROVE lock'[j] = p <=> j \in Range(held'[p])
      BY Zenon
    <3>1. lock[j] = p <=> j \in Range(held[p])
      BY <1>3, Zenon DEF Locks
    <3>2. Range(held'[p]) = Range(held[p]) \ {i} /\ lock'[j] = IF j = i THEN "none" ELSE lock[j]
      BY <1>1, Zenon
    <3>3. p # "none"
      BY Constants, Zenon
    <3> QED BY <3>1, <3>2, <3>3, Zenon
  <2>3. \A l, m \in DOMAIN held'[p] : held'[p][l] = held'[p][m] => l = m
    BY <1>2, <1>3, SMTT(30) DEF Locks, Without
  <2>4. \A q \in Procs \ {p} : \A l, m \in DOMAIN held'[q] : held'[q][l] = held'[q][m] => l = m
    <3> SUFFICES ASSUME NEW q \in Procs, q # p
                 PROVE  \A l, m \in DOMAIN held'[q] : held'[q][l] = held'[q][m] => l = m
      BY Zenon
    <3>1. held'[q] = held[q]
      BY <1>1, Zenon DEF Moves
    <3>2. \A l, m \in DOMAIN held[q] : held[q][l] = held[q][m] => l = m
      BY <1>3, Zenon DEF Locks
    <3> QED BY <3>1, <3>2, Zenon
  <2> QED BY <2>1, <2>2, <2>3, <2>4, Zenon DEF Locks
<1>5. InHand(p)'
  <2>1. (Len(held[p]) = 1 => Len(held'[p]) = 0) /\ (Len(held[p]) = 2 => Len(held'[p]) = 1)
    BY <1>2
  <2>2. p \in Readers => seen'[p] = 0 /\ wrote'[p] = {}
    BY <1>3, Zenon DEF InHand, Releases
  <2> QED BY <1>1, <2>1, <2>2, Zenon DEF InHand, NoneHeld, OneHeld, TwoHeld, Transit
<1>6. Asked(p)'
  <2>1. to = "using" => \A l \in DOMAIN held'[p] : blockno'[held'[p][l]] \in Home
    <3> SUFFICES ASSUME to = "using", NEW l \in DOMAIN held'[p] PROVE blockno'[held'[p][l]] \in Home
      BY Zenon
    <3>1. \E m \in DOMAIN held[p] : held'[p][l] = held[p][m]
      <4>1. held'[p][l] \in Range(held[p])
        BY <1>1, Zenon DEF Range
      <4> QED BY <4>1, Zenon DEF Range
    <3> QED BY <1>1, <1>3, <3>1, Zenon DEF Asked, Releases
  <2> QED BY <1>1, <2>1, Zenon DEF Asked, NoneHeld
<1>7. Hands'
  BY <1>1, <1>5, <1>6, OthersHands, Zenon DEF Hands
<1>8. OneBufferPerBlock'
  BY <1>3, Zenon DEF OneBufferPerBlock, NoBlock, Releases
<1>9. \A j \in Bufs : Has(p, j) + Passes(p, j) = Has(p, j)' + Passes(p, j)'
  <2>1. \A j \in Bufs : IF j = i THEN Has(p, j) = 1 /\ Has(p, j)' = 0 ELSE Has(p, j)' = Has(p, j)
    BY <1>1, Zenon DEF Has
  <2>2. \A j \in Bufs : Passes(p, j)' = (IF j = i THEN 1 ELSE 0) /\ Passes(p, j) = 0
    BY <1>1, Zenon DEF Passes, Transit, Releases
  <2> QED BY <2>1, <2>2 DEF Has
<1> QED BY <1>0, <1>4, <1>7, <1>8, <1>9, Zenon DEF SameRefs

\* p gives back the buffer it looked at or logged.
LEMMA UsedKeeps ==
  ASSUME Counting, IInv, NEW p \in Procs, Used(p)
  PROVE  IInv'
<1> DEFINE to == IF Len(held[p]) = 2 THEN "using" ELSE IF p \in Callers THEN "call" ELSE "idle"
<1>1. /\ pc[p] \in {"using", "used"} /\ Releasesleep(p, Len(held[p]), to)
      /\ UNCHANGED <<blockno, valid, refcnt, data, lru, disk, wrote, seen, ops, latest>>
      /\ UNCHANGED <<lh, outstanding, committing, tail, unpinned>>
  BY Zenon DEF Used, logVars
<1>2. TypeOK /\ InHand(p) /\ Kept
  BY Zenon DEF IInv, BuffersExact, Hands
<1>3. held[p] \in Seq(Bufs) /\ Len(held[p]) \in {1, 2} /\ Len(held[p]) \in DOMAIN held[p]
      /\ (p \in Readers => Len(held[p]) = 1 /\ p \notin Callers)
  <2>1. held[p] \in Seq(Bufs) /\ Len(held[p]) \in {1, 2}
    BY <1>1, <1>2, Zenon DEF InHand, TypeOK
  <2>2. p \in Readers => pc[p] = "using" /\ Len(held[p]) = 1 /\ p \notin Callers
    BY <1>1, <1>2, Constants, Zenon DEF InHand, At, Transit
  <2> QED BY <2>1, <2>2
<1>4. to \in {"using", "call", "idle"} /\ (to = "using" <=> Len(held[p]) = 2) /\ (p \in Readers => to = "idle")
      /\ (p \in Callers => to \in {"using", "call"})
  BY <1>3
<1> HIDE DEF to
<1>5. GivesBack(p, Len(held[p]), to)
  BY <1>1, <1>3, <1>4, Zenon DEF GivesBack, Releases, NoneHeld, Locations, Transit
<1>6. Released(p, Len(held[p]), to) /\ Locks' /\ Hands' /\ OneBufferPerBlock' /\ SameRefs(p)
  BY <1>5, ReleaseKeeps, Zenon
<1>7. TypeOK'
  BY <1>1, <1>2, <1>6, Zenon DEF TypeOK, Released
<1>8. \A q \in Callers : Stage(q)' = Stage(q) /\ wrote'[q] = wrote[q]
  <2>1. \A q \in Callers \ {p} : At(q)' = At(q)
    BY <1>6, Zenon DEF Released, Moves, At, Procs
  <2>2. p \in Callers => Stage(p) = "call" /\ Stage(p)' = "call"
    BY <1>1, <1>4, <1>6, Zenon DEF Released, Stage
  <2> QED BY <1>1, <2>1, <2>2, StageStays, Zenon
<1>9. Turns' /\ Progress' /\ Copied' /\ Space'
  BY <1>1, <1>8, LogFrame, Zenon
<1>10. Kept'
  <2>1. \A b : Pending(b)' = Pending(b)
    BY <1>1, Zenon DEF Pending
  <2>2. \A j \in Bufs : lock'[j] # "none" => lock[j] # "none"
    BY <1>6, Zenon DEF Released
  <2> QED BY <1>1, <1>2, <2>1, <2>2, Zenon DEF Kept, NoBlock
<1>11. RefcntExact'
  <2>1. \A j \in Bufs : Pins(j)' = Pins(j)
    BY <1>1, Zenon DEF Pins
  <2> QED BY <1>1, <1>6, <1>7, <2>1, SameRefcnt, Zenon DEF Released
<1> QED BY <1>6, <1>7, <1>9, <1>10, <1>11, Zenon DEF IInv, BuffersExact

\* brelse() drops the reference, and the buffer to the head of the list if it was the last.
LEMMA BrelseKeeps ==
  ASSUME Counting, IInv, NEW p \in Procs, Brelse(p)
  PROVE  IInv'
<1> DEFINE i == bp[p]
<1>1. /\ pc[p] = "brelse" /\ i \in Bufs /\ refcnt' = [refcnt EXCEPT ![i] = @ - 1]
      /\ lru' = IF refcnt[i] = 1 THEN MoveToFront(i) ELSE lru
      /\ pc' = [pc EXCEPT ![p] = then[p]] /\ then' = [then EXCEPT ![p] = "idle"] /\ bp' = [bp EXCEPT ![p] = 0]
      /\ UNCHANGED <<blockno, valid, lock, data, disk, held, wrote, seen, ops, latest>>
      /\ UNCHANGED <<lh, outstanding, committing, tail, unpinned>>
  BY Zenon DEF Brelse, Return, IInv, Hands, InHand, Transit, logVars
<1>2. TypeOK /\ OneBufferPerBlock /\ InHand(p) /\ Asked(p) /\ Locks /\ Kept
  BY Zenon DEF IInv, BuffersExact, Hands
<1>3. refcnt[i] # 0
  <2>1. p \in Passing(i)
    BY <1>1, Zenon DEF Passing, Transit
  <2> QED BY <1>1, <2>1, Counted, Zenon
<1>4. lru' \in [Bufs -> Bufs] /\ Range(lru') = Bufs
  <2>1. lru \in [Bufs -> Bufs] /\ Range(lru) = Bufs
    BY <1>2, Zenon DEF TypeOK
  <2>2. CASE refcnt[i] # 1
    BY <1>1, <2>1, <2>2, Zenon
  <2>3. CASE refcnt[i] = 1
    <3> DEFINE at == CHOOSE k \in Bufs : lru[k] = i
    <3>1. at \in Bufs /\ lru[at] = i
      BY <1>1, <2>1, Zenon DEF Range
    <3>2. lru' = [k \in Bufs |-> IF k = 1 THEN i ELSE IF k <= at THEN lru[k - 1] ELSE lru[k]]
      BY <1>1, <2>3, Zenon DEF MoveToFront
    <3> HIDE DEF at, i
    <3>3. lru' \in [Bufs -> Bufs]
      <4>1. i \in Bufs
        BY <1>1, Zenon
      <4>2. ASSUME NEW k \in Bufs PROVE (IF k = 1 THEN i ELSE IF k <= at THEN lru[k - 1] ELSE lru[k]) \in Bufs
        <5>1. CASE k = 1
          BY <4>1, <5>1, Zenon
        <5>2. CASE k # 1
          <6>1. k - 1 \in Bufs
            BY <5>2, Constants DEF Bufs
          <6> QED BY <2>1, <5>2, <6>1, Zenon
        <5> QED BY <5>1, <5>2, Zenon
      <4> QED BY <3>2, <4>2, Zenon
    <3>4. ASSUME NEW j \in Bufs PROVE \E k \in Bufs : lru'[k] = j
      <4>1. PICK l \in Bufs : lru[l] = j
        BY <2>1, Zenon DEF Range
      <4>2. CASE j = i
        BY <3>2, <4>2, Constants DEF Bufs
      <4>3. CASE j # i /\ l < at
        <5>1. l + 1 \in Bufs /\ l + 1 # 1 /\ l + 1 <= at
          BY <3>1, <4>1, <4>3, Constants DEF Bufs
        <5>2. PICK m \in Bufs : m = l + 1
          BY <5>1, Zenon
        <5>3. m # 1 /\ m <= at /\ m - 1 = l
          BY <5>1, <5>2 DEF Bufs
        <5>4. lru'[m] = lru[m - 1]
          BY <3>2, <5>3, Zenon
        <5> QED BY <4>1, <5>3, <5>4, Zenon
      <4>4. CASE j # i /\ l > at
        BY <3>1, <3>2, <4>1, <4>4, Constants DEF Bufs
      <4> QED BY <3>1, <4>1, <4>2, <4>3, <4>4, Constants DEF Bufs
    <3> QED BY <3>3, <3>4, Zenon DEF Range
  <2> QED BY <2>2, <2>3, Zenon
<1>5. TypeOK'
  <2>1. refcnt' \in [Bufs -> Nat]
    BY <1>1, <1>2, <1>3 DEF TypeOK
  <2>2. /\ pc' \in [Procs -> Locations] /\ then' \in [Procs -> Locations] /\ bp' \in [Procs -> 0..NBUF]
    BY <1>1, <1>2, Constants DEF TypeOK, Locations
  <2> QED BY <1>1, <1>2, <1>4, <2>1, <2>2, Zenon DEF TypeOK
<1>6. Moves(p)
  BY <1>1, <1>2, Zenon DEF Moves, TypeOK
<1>7. BlocksStay
  BY <1>1, Zenon DEF BlocksStay
<1>8. pc'[p] = then[p] /\ then[p] \notin Transit /\ At(p)' = then[p] /\ At(p) = then[p]
      /\ held'[p] = held[p] /\ seen'[p] = seen[p] /\ wrote'[p] = wrote[p]
  BY <1>1, <1>2, Zenon DEF At, Transit, InHand, NoneHeld, TypeOK
<1>9. Turns' /\ Progress' /\ Copied' /\ Space'
  <2>1. \A q \in Procs : At(q)' = At(q) /\ wrote'[q] = wrote[q]
    BY <1>6, <1>8, Zenon DEF Moves, At
  <2>2. \A q \in Callers : Stage(q)' = Stage(q) /\ wrote'[q] = wrote[q]
    BY <2>1, StageStays, Zenon DEF Procs
  <2> QED BY <1>1, <2>2, LogFrame, Zenon
<1>10. Hands'
  <2>1. InHand(p)'
    <3>1. Len(held[p]) = 1 => Len(held[p]) \in {1, 2}
      BY Zenon
    <3> QED BY <1>1, <1>2, <1>8, <3>1, Zenon DEF InHand, NoneHeld, OneHeld, TwoHeld, Transit
  <2>2. Asked(p)'
    BY <1>1, <1>2, <1>8, Zenon DEF Asked, InHand, NoneHeld, TwoHeld, Transit
  <2> QED BY <1>1, <1>6, <1>7, <2>1, <2>2, OthersHands, Zenon DEF Hands
<1>11. Locks' /\ OneBufferPerBlock'
  BY <1>1, <1>2, Zenon DEF Locks, OneBufferPerBlock, NoBlock
<1>12. Kept'
  <2>1. \A b : Pending(b)' = Pending(b)
    BY <1>1, Zenon DEF Pending
  <2>2. \A j \in Bufs : refcnt'[j] # 0 => refcnt[j] # 0
    BY <1>1, <1>2, <1>3, Zenon DEF TypeOK
  <2> QED BY <1>1, <1>2, <2>1, <2>2, Zenon DEF Kept, NoBlock
<1>13. RefcntExact'
  <2>1. \A j \in Bufs : Pins(j)' = Pins(j) /\ Has(p, j)' = Has(p, j)
    BY <1>1, Zenon DEF Pins, Has
  <2>2. \A j \in Bufs : Passes(p, j) = (IF j = i THEN 1 ELSE 0) /\ Passes(p, j)' = 0
    BY <1>1, <1>8, Zenon DEF Passes, Transit
  <2>3. \A j \in Bufs : refcnt'[j] = refcnt[j] - Passes(p, j) /\ refcnt[j] \in Nat
    BY <1>1, <1>2, <2>2 DEF TypeOK
  <2>4. \A j \in Bufs : Cardinality(Pins(j)) \in Nat /\ Has(p, j) \in Nat /\ Passes(p, j) \in Nat
    BY <1>2, Finite, Zenon DEF Has, Passes
  <2>5. \A j \in Bufs : refcnt'[j] + Has(p, j) + Passes(p, j) + Cardinality(Pins(j))
                        = refcnt[j] + Has(p, j)' + Passes(p, j)' + Cardinality(Pins(j)')
    BY <2>1, <2>2, <2>3, <2>4
  <2> QED BY <1>5, <1>6, <2>5, RefcntStep, Zenon
<1> QED BY <1>5, <1>9, <1>10, <1>11, <1>12, <1>13, Zenon DEF IInv, BuffersExact

(* ---- bget() ---- *)

\* Who asks for which block, and where bread() returns to.
Asks(p, b) ==
  \/ pc[p] = "idle" /\ p \in Readers /\ ops < MaxOps /\ b \in Home /\ AfterBread(p) = "using"
  \/ pc[p] = "call" /\ seen[p] > 0 /\ b \in Home /\ AfterBread(p) = "using"
  \/ pc[p] = "using" /\ seen[p] > 0 /\ Len(held[p]) = 1 /\ b \in Home /\ AfterBread(p) = "using"
  \/ pc[p] = "write_log" /\ b = LogBlock(tail) /\ AfterBread(p) = "write_log_from"
  \/ pc[p] = "write_log_from" /\ b = lh[tail] /\ AfterBread(p) = "write_log_copy"
  \/ pc[p] = "write_head" /\ b = LogBlock(0) /\ AfterBread(p) = "write_head_copy"
  \/ pc[p] = "install_trans" /\ b = LogBlock(unpinned + 1) /\ AfterBread(p) = "install_dst"
  \/ pc[p] = "install_dst" /\ b = lh[unpinned + 1] /\ AfterBread(p) = "install_copy"

\* The blocks a process may ask bread() for.
LEMMA WantsAsks ==
  ASSUME NEW p \in Procs, pc[p] \in Locations, NEW b \in Wants(p)
  PROVE  Asks(p, b)
<1>1. CASE pc[p] \in {"idle", "call", "using"}
  BY <1>1, BlockNumbers, Zenon DEF Wants, AfterBread, Asks
<1>2. CASE pc[p] \in {"write_log", "write_log_from", "write_head", "install_trans", "install_dst"}
  BY <1>2, Zenon DEF Wants, AfterBread, Asks
<1>3. CASE pc[p] \notin {"idle", "call", "using", "write_log", "write_log_from", "write_head", "install_trans",
                         "install_dst"}
  BY <1>3, Zenon DEF Wants
<1> QED BY <1>1, <1>2, <1>3, Zenon

\* While a process commits, the log has room for what the next call may log.
LEMMA CommitAlone ==
  ASSUME Counting, IInv, NEW p \in Callers, Commits(p)
  PROVE  /\ committing = 1 /\ Active = {} /\ outstanding = 0 /\ wrote[p] = {} /\ Len(lh) <= LOGBLOCKS
         /\ \A q \in Callers \ {p} : Stage(q) = "idle" /\ ~Commits(q)
<1>1. committing = 1 /\ Active = {}
  BY Zenon DEF IInv, Turns
<1>2. outstanding = 0
  BY <1>1, CountEmpty, Zenon DEF IInv, Turns
<1>3. wrote[p] = {} /\ Len(lh) + MAXOPBLOCKS <= LOGBLOCKS + OpBlocks
  BY <1>1, Zenon DEF IInv, Space
<1>4. Len(lh) \in Nat
  BY DEF IInv, BuffersExact, TypeOK
<1>5. Len(lh) <= LOGBLOCKS
  BY <1>3, <1>4, Constants
<1>6. \A q \in Callers \ {p} : ~Commits(q) /\ q \notin Active
  BY <1>1, Zenon DEF IInv, Turns
<1> QED BY <1>1, <1>2, <1>3, <1>5, <1>6, Zenon DEF Commits, Active

\* The locations of commit(), where only callers get.
LEMMA CommitAt ==
  ASSUME IInv, NEW p \in Procs, At(p) \notin {"idle", "call", "using", "used"}
  PROVE  p \in Callers /\ Commits(p)
<1>1. p \in Callers
  BY Zenon DEF IInv, Hands, InHand, Procs
<1> QED BY <1>1, Zenon DEF Commits, Stage

\* Only blocks of the disk are asked for.
LEMMA AsksBlocks ==
  ASSUME Counting, IInv, NEW p \in Procs, NEW b, Asks(p, b)
  PROVE  /\ b \in AllBlocks /\ pc[p] \notin Transit /\ AfterBread(p) \in Locations \ Transit
         /\ p \in Callers => Stage(p) = (IF AfterBread(p) = "using" THEN "call"
                                         ELSE IF AfterBread(p) \in {"write_log_from", "write_log_copy"} THEN "write_log"
                                         ELSE IF AfterBread(p) = "write_head_copy" THEN "write_head"
                                         ELSE "install_trans")
<1>1. pc[p] \notin Transit /\ AfterBread(p) \in Locations \ Transit /\ At(p) = pc[p]
  BY Zenon DEF Asks, Transit, Locations, At
<1>2. p \in Callers => Stage(p) = (IF AfterBread(p) = "using" THEN "call"
                                         ELSE IF AfterBread(p) \in {"write_log_from", "write_log_copy"} THEN "write_log"
                                         ELSE IF AfterBread(p) = "write_head_copy" THEN "write_head"
                                         ELSE "install_trans")
  BY <1>1, Constants, Zenon DEF Asks, Stage
<1>3. TypeOK /\ Progress
  BY Zenon DEF IInv, BuffersExact
<1>4. lh \in Seq(Home) /\ tail \in 1..LOGBLOCKS /\ unpinned \in 0..LOGBLOCKS
  BY <1>3, Zenon DEF TypeOK
<1>5. CASE pc[p] \in {"idle", "call", "using"}
  BY <1>1, <1>2, <1>5, BlockNumbers, Zenon DEF Asks
<1>6. CASE pc[p] \notin {"idle", "call", "using"}
  <2>1. p \in Callers /\ Commits(p)
    BY <1>1, <1>6, CommitAt, Zenon DEF Asks
  <2>2. Len(lh) <= LOGBLOCKS
    BY <2>1, CommitAlone, Zenon
  <2>3. CASE pc[p] \in {"write_log", "write_log_from"}
    <3>1. Stage(p) = "write_log"
      BY <1>2, <2>1, <2>3, Zenon DEF Asks
    <3>2. tail <= Len(lh)
      BY <1>3, <2>1, <3>1, Zenon DEF Progress
    <3>3. lh[tail] \in Home
      BY <1>4, <3>2, Constants, SMTT(30)
    <3> QED BY <1>1, <1>2, <1>4, <2>3, <3>3, BlockNumbers, Zenon DEF Asks
  <2>4. CASE pc[p] \in {"install_trans", "install_dst"}
    <3>1. Stage(p) = "install_trans"
      BY <1>2, <2>1, <2>4, Zenon DEF Asks
    <3>2. unpinned < Len(lh)
      BY <1>3, <2>1, <3>1, Zenon DEF Progress
    <3>3. lh[unpinned + 1] \in Home /\ unpinned + 1 \in 1..LOGBLOCKS
      BY <1>4, <2>2, <3>2, Constants, SMTT(30)
    <3> QED BY <1>1, <1>2, <2>4, <3>3, BlockNumbers, Zenon DEF Asks
  <2>5. CASE pc[p] = "write_head"
    BY <1>1, <1>2, <2>5, BlockNumbers, Zenon DEF Asks
  <2> QED BY <1>6, <2>3, <2>4, <2>5, Zenon DEF Asks
<1> QED BY <1>5, <1>6, Zenon

\* What bget() does to the buffers: i gets one more reference and has block b; if it
\* was recycled nobody had it and its block was not waiting to be installed.
Gets(i, b) ==
  /\ i \in Bufs /\ blockno'[i] = b /\ BlocksStay
  /\ \A j \in Bufs : j # i => blockno'[j] = blockno[j] /\ valid'[j] = valid[j]
  /\ \A j \in Bufs : refcnt'[j] = refcnt[j] + (IF j = i THEN 1 ELSE 0)
  /\ \/ blockno[i] = b /\ valid'[i] = valid[i]
     \/ /\ valid'[i] = 0 /\ lock[i] = "none" /\ Pins(i) = {}
        /\ \A j \in Bufs : blockno[j] # b
        /\ ~Pending(b) /\ ~Pending(blockno[i])
  /\ blockno' \in [Bufs -> AllBlocks \cup {NoBlock}] /\ valid' \in [Bufs -> {0, 1}] /\ refcnt' \in [Bufs -> Nat]

\* Both ways bget() finds a buffer, the cached one and the least recently used
\* unused one, do that.
LEMMA BgetGets ==
  ASSUME Counting, IInv, NEW p \in Procs, NEW b \in AllBlocks, NEW i \in Bufs,
         \/ /\ i \in Cached(b) /\ refcnt' = [refcnt EXCEPT ![i] = @ + 1] /\ UNCHANGED <<blockno, valid>>
         \/ /\ Cached(b) = {} /\ LeastRecent(i) /\ blockno' = [blockno EXCEPT ![i] = b]
            /\ valid' = [valid EXCEPT ![i] = 0] /\ refcnt' = [refcnt EXCEPT ![i] = 1]
  PROVE  Gets(i, b)
<1>1. TypeOK /\ Locks /\ Kept
  BY Zenon DEF IInv, BuffersExact
<1>2. CASE i \in Cached(b) /\ refcnt' = [refcnt EXCEPT ![i] = @ + 1] /\ UNCHANGED <<blockno, valid>>
  <2>1. \A j \in Bufs : refcnt'[j] = refcnt[j] + (IF j = i THEN 1 ELSE 0)
    BY <1>1, <1>2 DEF TypeOK
  <2>2. refcnt' \in [Bufs -> Nat]
    BY <1>1, <1>2 DEF TypeOK
  <2>3. blockno[i] = b
    BY <1>2, Zenon DEF Cached
  <2> QED BY <1>1, <1>2, <2>1, <2>2, <2>3, Zenon DEF Gets, BlocksStay, TypeOK, NoBlock
<1>3. CASE /\ Cached(b) = {} /\ LeastRecent(i) /\ blockno' = [blockno EXCEPT ![i] = b]
           /\ valid' = [valid EXCEPT ![i] = 0] /\ refcnt' = [refcnt EXCEPT ![i] = 1]
  <2>1. refcnt[i] = 0
    BY <1>3, Zenon DEF LeastRecent, Unused
  <2>2. Holders(i) = {} /\ Pins(i) = {}
    BY <2>1, Counted, Zenon
  <2>3. lock[i] = "none"
    <3>1. \A q \in Procs : lock[i] # q
      BY <1>1, <2>2, Zenon DEF Holders, Locks
    <3> QED BY <1>1, <3>1, Zenon DEF TypeOK
  <2>4. ~Pending(blockno[i])
    BY <2>2, Zenon DEF Pins, Pending
  <2>5. \A j \in Bufs : blockno[j] # b
    BY <1>3, Zenon DEF Cached
  <2>6. ~Pending(b)
    BY <1>1, <2>5, Zenon DEF Kept
  <2>7. \A j \in Bufs : /\ blockno'[j] = IF j = i THEN b ELSE blockno[j]
                        /\ valid'[j] = IF j = i THEN 0 ELSE valid[j]
                        /\ refcnt'[j] = refcnt[j] + (IF j = i THEN 1 ELSE 0)
    BY <1>1, <1>3, <2>1 DEF TypeOK
  <2>8. blockno' \in [Bufs -> AllBlocks \cup {NoBlock}] /\ valid' \in [Bufs -> {0, 1}] /\ refcnt' \in [Bufs -> Nat]
    BY <1>1, <1>3, Zenon DEF TypeOK
  <2>9. BlocksStay
    BY <2>1, <2>7, Zenon DEF BlocksStay
  <2> QED BY <2>2, <2>3, <2>4, <2>5, <2>6, <2>7, <2>8, <2>9, Zenon DEF Gets
<1> QED BY <1>2, <1>3, Zenon

\* bget() finds the block or recycles a buffer that nobody uses, and p goes to wait for it.
LEMMA BgetKeeps ==
  ASSUME Counting, IInv, NEW p \in Procs, NEW b \in Wants(p), Bget(p, b)
  PROVE  IInv'
<1>1. TypeOK /\ OneBufferPerBlock /\ InHand(p) /\ Asked(p) /\ Locks /\ Kept
  BY Zenon DEF IInv, BuffersExact, Hands
<1>2. Asks(p, b)
  BY <1>1, WantsAsks, Zenon DEF TypeOK
<1>3. b \in AllBlocks /\ pc[p] \notin Transit /\ AfterBread(p) \in Locations \ Transit
  BY <1>2, AsksBlocks, Zenon
<1>4. PICK i \in Bufs :
        /\ \/ /\ i \in Cached(b) /\ refcnt' = [refcnt EXCEPT ![i] = @ + 1] /\ UNCHANGED <<blockno, valid>>
           \/ /\ Cached(b) = {} /\ LeastRecent(i) /\ blockno' = [blockno EXCEPT ![i] = b]
              /\ valid' = [valid EXCEPT ![i] = 0] /\ refcnt' = [refcnt EXCEPT ![i] = 1]
        /\ bp' = [bp EXCEPT ![p] = i]
        /\ pc' = [pc EXCEPT ![p] = "acquiresleep"] /\ then' = [then EXCEPT ![p] = AfterBread(p)]
        /\ ops' = IF pc[p] = "idle" THEN ops + 1 ELSE ops
        /\ seen' = IF pc[p] \in {"call", "using"} THEN [seen EXCEPT ![p] = @ - 1] ELSE seen
        /\ UNCHANGED <<lock, data, lru, disk, held, wrote, latest>>
        /\ UNCHANGED <<lh, outstanding, committing, tail, unpinned>>
  BY Zenon DEF Bget, logVars
<1>5. Gets(i, b)
  BY <1>3, <1>4, BgetGets, Zenon
<1>6. /\ pc'[p] = "acquiresleep" /\ then'[p] = AfterBread(p) /\ bp'[p] = i /\ At(p)' = AfterBread(p)
      /\ At(p) = pc[p] /\ held'[p] = held[p] /\ wrote'[p] = wrote[p]
  <2>0. /\ pc \in [Procs -> Locations] /\ then \in [Procs -> Locations] /\ bp \in [Procs -> 0..NBUF]
        /\ pc' = [pc EXCEPT ![p] = "acquiresleep"] /\ then' = [then EXCEPT ![p] = AfterBread(p)]
        /\ bp' = [bp EXCEPT ![p] = i]
    BY <1>1, <1>4, Zenon DEF TypeOK
  <2>1. pc'[p] = "acquiresleep" /\ then'[p] = AfterBread(p) /\ bp'[p] = i
    BY <2>0, Zenon
  <2>2. held'[p] = held[p] /\ wrote'[p] = wrote[p]
    BY <1>4, Zenon
  <2> QED BY <1>3, <2>1, <2>2, Zenon DEF At, Transit
<1>7. TypeOK'
  <2>1. bp' \in [Procs -> 0..NBUF] /\ pc' \in [Procs -> Locations] /\ then' \in [Procs -> Locations]
    <3>1. /\ bp \in [Procs -> 0..NBUF] /\ pc \in [Procs -> Locations] /\ then \in [Procs -> Locations]
          /\ bp' = [bp EXCEPT ![p] = i] /\ pc' = [pc EXCEPT ![p] = "acquiresleep"]
          /\ then' = [then EXCEPT ![p] = AfterBread(p)]
      BY <1>1, <1>4, Zenon DEF TypeOK
    <3>2. i \in 0..NBUF
      BY Constants DEF Bufs
    <3>3. "acquiresleep" \in Locations /\ AfterBread(p) \in Locations
      BY <1>3, Zenon DEF Locations
    <3> QED BY <3>1, <3>2, <3>3, Zenon
  <2>2. ops' \in 0..MaxOps
    BY <1>1, <1>2, <1>4, Constants DEF TypeOK, Asks
  <2>3. seen' \in [Procs -> 0..MaxBreads]
    <3>1. pc[p] \in {"call", "using"} => seen[p] > 0
      BY <1>2, Zenon DEF Asks
    <3>2. seen \in [Procs -> 0..MaxBreads]
      BY <1>1, Zenon DEF TypeOK
    <3>3. CASE pc[p] \in {"call", "using"}
      BY <1>4, <3>1, <3>2, <3>3, Constants
    <3> QED BY <1>4, <3>2, <3>3, Zenon
  <2> QED BY <1>1, <1>4, <1>5, <2>1, <2>2, <2>3, Zenon DEF TypeOK, Gets
<1>8. Moves(p)
  <2>1. \A q \in Procs \ {p} : seen'[q] = seen[q]
    BY <1>1, <1>4, Zenon DEF TypeOK
  <2>2. \A q \in Procs \ {p} : pc'[q] = pc[q] /\ then'[q] = then[q] /\ bp'[q] = bp[q]
    BY <1>1, <1>4, Zenon DEF TypeOK
  <2> QED BY <1>4, <2>1, <2>2, Zenon DEF Moves
<1>9. Turns' /\ Progress' /\ Copied' /\ Space'
  <2>1. p \in Callers => Stage(p)' = Stage(p)
    BY <1>2, <1>6, AsksBlocks, Zenon DEF Asks, Stage
  <2>2. \A q \in Callers \ {p} : Stage(q)' = Stage(q)
    <3>1. \A q \in Callers \ {p} : At(q)' = At(q)
      BY <1>8, Zenon DEF Moves, At, Procs
    <3> QED BY <3>1, StageStays, Zenon
  <2> QED BY <1>4, <2>1, <2>2, LogFrame, Zenon
<1>10. InHand(p)'
  <2>1. p \in Readers => pc[p] = "idle" /\ seen'[p] = 0 /\ wrote'[p] = {} /\ AfterBread(p) = "using"
    <3>1. p \in Readers => seen[p] = 0 /\ wrote[p] = {} /\ pc[p] \in {"idle", "using"}
      BY <1>1, <1>6, Zenon DEF InHand
    <3>2. (0 > 0) = FALSE
      OBVIOUS
    <3>3. p \in Readers => pc[p] = "idle" /\ AfterBread(p) = "using"
      BY <1>2, <3>1, <3>2, Zenon DEF Asks
    <3> QED BY <1>4, <1>6, <3>1, <3>3, Zenon
  <2>2. \/ AfterBread(p) = "using" /\ Len(held[p]) \in {0, 1}
        \/ AfterBread(p) \in {"write_log_from", "write_head_copy", "install_dst"} /\ Len(held[p]) = 0
        \/ AfterBread(p) \in TwoHeld /\ Len(held[p]) = 1
    BY <1>1, <1>2, Zenon DEF Asks, InHand, NoneHeld, OneHeld, TwoHeld
  <2>3. p \in Readers => Len(held[p]) = 0
    BY <1>1, <2>1, Zenon DEF InHand, NoneHeld
  <2> QED BY <1>6, <2>1, <2>2, <2>3, Zenon DEF InHand, NoneHeld, OneHeld, TwoHeld, Transit
<1>11. Asked(p)'
  <2>1. \A k \in DOMAIN held[p] : blockno'[held[p][k]] = blockno[held[p][k]]
    BY <1>5, InUseStay, Zenon DEF Gets
  <2>2. blockno'[bp'[p]] = b
    BY <1>5, <1>6, Zenon DEF Gets
  <2>3. held[p] \in Seq(Bufs)
    BY <1>1, Zenon DEF TypeOK
  <2>4. CASE AfterBread(p) = "using"
    <3>1. b \in Home /\ (pc[p] \in NoneHeld \/ pc[p] = "using")
      BY <1>2, <2>4, Zenon DEF Asks, NoneHeld
    <3>2. \A k \in DOMAIN held[p] : blockno[held[p][k]] \in Home
      <4>1. CASE pc[p] = "using"
        BY <1>1, <1>6, <4>1, Zenon DEF Asked
      <4>2. CASE pc[p] \in NoneHeld
        BY <1>1, <2>3, <4>2, SMTT(30) DEF InHand
      <4> QED BY <3>1, <4>1, <4>2, Zenon
    <3> QED BY <1>6, <2>1, <2>2, <2>4, <3>1, <3>2, Zenon DEF Asked
  <2>5. CASE AfterBread(p) \in {"write_log_from", "write_head_copy", "install_dst"}
    <3>1. Len(held[p]) = 0
      BY <1>1, <1>2, <2>5, Zenon DEF Asks, InHand, NoneHeld
    <3>2. First(p)' = bp'[p]
      BY <1>6, <3>1, Zenon DEF First
    <3> QED BY <1>2, <1>4, <1>6, <2>2, <2>5, <3>2, Zenon DEF Asked, Asks, LogBlock
  <2>6. CASE AfterBread(p) \in TwoHeld
    <3>1. Len(held[p]) = 1 /\ pc[p] \in {"write_log_from", "install_dst"}
      BY <1>1, <1>2, <2>6, Zenon DEF Asks, InHand, OneHeld, TwoHeld
    <3>0. Len(held[p]) = 1
      BY <3>1, Zenon
    <3>4. 1 \in DOMAIN held[p] /\ (1 = 0) = FALSE
      BY <2>3, <3>0
    <3>2. First(p)' = held[p][1] /\ First(p) = held[p][1] /\ Second(p)' = bp'[p] /\ 1 \in DOMAIN held[p]
      BY <1>6, <3>0, <3>4, Zenon DEF First, Second
    <3>3. blockno'[First(p)'] = blockno[First(p)]
      BY <2>1, <3>2, Zenon
    <3> QED BY <1>1, <1>2, <1>4, <1>6, <2>2, <2>6, <3>1, <3>2, <3>3, Zenon DEF Asked, Asks, LogBlock, TwoHeld
  <2> QED BY <1>2, <2>4, <2>5, <2>6, Zenon DEF Asks, TwoHeld
<1>12. Hands'
  BY <1>4, <1>5, <1>8, <1>10, <1>11, OthersHands, Zenon DEF Hands, Gets
<1>13. Locks'
  BY <1>1, <1>4, Zenon DEF Locks
<1>14. OneBufferPerBlock'
  <2>1. \/ blockno[i] = b /\ blockno' = blockno
        \/ \A j \in Bufs : blockno[j] # b
    BY <1>3, <1>4, <1>5, Zenon DEF Gets, Cached
  <2>2. \A j \in Bufs : j # i => blockno'[j] = blockno[j]
    BY <1>5, Zenon DEF Gets
  <2>3. blockno'[i] = b
    BY <1>5, Zenon DEF Gets
  <2> QED BY <1>1, <2>1, <2>2, <2>3, Zenon DEF OneBufferPerBlock, NoBlock
<1>15. Kept'
  <2>1. \A c : Pending(c)' = Pending(c)
    BY <1>4, Zenon DEF Pending
  <2>2. b # NoBlock
    BY <1>3, BlockNumbers, Zenon
  <2>3. \A j \in Bufs : lock'[j] # "none" => valid'[j] = 1
    BY <1>1, <1>4, <1>5, Zenon DEF Kept, Gets
  <2>4. \A j \in Bufs : valid'[j] = 1 => blockno'[j] # NoBlock /\ data'[j] = latest'[blockno'[j]]
    <3> SUFFICES ASSUME NEW j \in Bufs, valid'[j] = 1
                 PROVE  blockno'[j] # NoBlock /\ data'[j] = latest'[blockno'[j]]
      BY Zenon
    <3>1. data' = data /\ latest' = latest
      BY <1>4, Zenon
    <3>2. valid[j] = 1 => blockno[j] # NoBlock /\ data[j] = latest[blockno[j]]
      BY <1>1, Zenon DEF Kept
    <3>3. (0 = 1) = FALSE
      OBVIOUS
    <3>4. valid[j] = 1 /\ blockno'[j] = blockno[j]
      BY <1>5, <3>3, Zenon DEF Gets
    <3> QED BY <3>1, <3>2, <3>4, Zenon DEF NoBlock
  <2>5. \A j \in Bufs : refcnt'[j] # 0 => blockno'[j] # NoBlock
    <3>1. \A j \in Bufs : refcnt'[j] = refcnt[j] + (IF j = i THEN 1 ELSE 0)
      BY <1>5, Zenon DEF Gets
    <3>2. \A j \in Bufs : j # i => refcnt'[j] = refcnt[j]
      BY <1>1, <3>1 DEF TypeOK
    <3>3. \A j \in Bufs : refcnt[j] # 0 => blockno[j] # NoBlock
      BY <1>1, Zenon DEF Kept
    <3>4. \A j \in Bufs : blockno'[j] = IF j = i THEN b ELSE blockno[j]
      BY <1>5, Zenon DEF Gets
    <3> QED BY <2>2, <3>2, <3>3, <3>4, Zenon DEF NoBlock
  <2>6. \A c \in AllBlocks : Pending(c) => \E j \in Bufs : blockno'[j] = c /\ valid'[j] = 1
    <3> SUFFICES ASSUME NEW c \in AllBlocks, Pending(c) PROVE \E j \in Bufs : blockno'[j] = c /\ valid'[j] = 1
      BY Zenon
    <3>1. PICK j \in Bufs : blockno[j] = c /\ valid[j] = 1
      BY <1>1, Zenon DEF Kept
    <3> QED BY <1>5, <3>1, Zenon DEF Gets
  <2> QED BY <1>1, <1>4, <2>1, <2>3, <2>4, <2>5, <2>6, Zenon DEF Kept, NoBlock
<1>16. RefcntExact'
  <2>1. \A j \in Bufs : Pins(j)' = Pins(j)
    <3>1. \A j \in Bufs : blockno'[j] = blockno[j] => Pins(j)' = Pins(j)
      BY <1>4, Zenon DEF Pins
    <3>2. Pins(i)' = Pins(i)
      <4>1. CASE blockno[i] = b
        BY <1>5, <3>1, <4>1, Zenon DEF Gets
      <4>2. CASE blockno[i] # b
        <5>1. Pins(i) = {} /\ ~Pending(b)
          BY <1>5, <4>2, Zenon DEF Gets
        <5>2. Pins(i)' = {}
          BY <1>4, <1>5, <5>1, Zenon DEF Pins, Pending, Gets
        <5> QED BY <5>1, <5>2, Zenon
      <4> QED BY <4>1, <4>2, Zenon
    <3> QED BY <1>5, <3>1, <3>2, Zenon DEF Gets
  <2>2. \A j \in Bufs : Has(p, j)' = Has(p, j)
    BY <1>4, Zenon DEF Has
  <2>3. \A j \in Bufs : Passes(p, j)' = (IF j = i THEN 1 ELSE 0) /\ Passes(p, j) = 0
    BY <1>3, <1>6, Zenon DEF Passes, Transit
  <2>4. \A j \in Bufs : refcnt'[j] = refcnt[j] + Passes(p, j)' /\ refcnt[j] \in Nat
    <3>1. \A j \in Bufs : refcnt'[j] = refcnt[j] + (IF j = i THEN 1 ELSE 0)
      BY <1>5, Zenon DEF Gets
    <3>2. \A j \in Bufs : refcnt[j] \in Nat
      BY <1>1, Zenon DEF TypeOK
    <3> HIDE DEF Passes
    <3> QED BY <2>3, <3>1, <3>2, Zenon
  <2>5. \A j \in Bufs : Cardinality(Pins(j)) \in Nat
    BY <1>1, Finite, Zenon
  <2>6. \A j \in Bufs : Has(p, j) \in Nat /\ Passes(p, j)' \in Nat
    BY Zenon DEF Has, Passes
  <2>7. \A j \in Bufs : refcnt'[j] + Has(p, j) + Passes(p, j) + Cardinality(Pins(j))
                        = refcnt[j] + Has(p, j)' + Passes(p, j)' + Cardinality(Pins(j)')
    BY <2>1, <2>2, <2>3, <2>4, <2>5, <2>6
  <2> QED BY <1>7, <1>8, <2>7, RefcntStep, Zenon
<1> QED BY <1>7, <1>9, <1>12, <1>13, <1>14, <1>15, <1>16, Zenon DEF IInv, BuffersExact

(* ---- commit() ---- *)

\* After the step p is still the only one that commits, at stage to; everyone else rests.
Alone(p, to) ==
  Stage(p)' = to /\ committing' = 1 /\ \A q \in Callers \ {p} : Stage(q)' = "idle"

\* What the single committer's next stage asks of tail, unpinned and lh.
LEMMA AloneProgress ==
  ASSUME NEW p \in Callers, NEW to, Alone(p, to), unpinned' <= Len(lh)',
         to \in {"write_log", "write_log_next"} => unpinned' = 0 /\ tail' <= Len(lh)',
         to \in {"write_head", "committed"} => unpinned' = 0 /\ tail' = 1,
         to = "committed" => lh' = <<>>,
         to \in {"install_trans", "install_next"} => tail' = 1,
         to = "install_trans" => unpinned' < Len(lh)'
  PROVE  Progress'
<1>1. (1 = 0) = FALSE
  OBVIOUS
<1>2. ASSUME NEW q \in Callers
      PROVE  (/\ Stage(q) \in {"write_log", "write_log_next"} => unpinned = 0 /\ tail <= Len(lh)
              /\ Stage(q) \in {"write_head", "committed"} => unpinned = 0 /\ tail = 1
              /\ Stage(q) = "committed" => lh = <<>>
              /\ Stage(q) \in {"install_trans", "install_next"} => tail = 1
              /\ Stage(q) = "install_trans" => unpinned < Len(lh))'
  BY Zenon DEF Alone
<1> QED BY <1>1, <1>2, Zenon DEF Progress, Alone

\* What the single committer's next stage asks of the copies in the log.
LEMMA AloneCopied ==
  ASSUME NEW p \in Callers, NEW to, Alone(p, to),
         \A t \in DOMAIN lh' : (\/ to \in {"write_log", "write_log_next"} /\ t < tail'
                                \/ to = "write_log_next" /\ t = tail'
                                \/ to \in {"write_head", "install_trans", "install_next"})
                               => latest'[LogBlock(t)] = latest'[lh'[t]]
  PROVE  Copied'
<1>1. ASSUME NEW q \in Callers, NEW t \in DOMAIN lh',
             (\/ Stage(q) \in {"write_log", "write_log_next"} /\ t < tail
              \/ Stage(q) = "write_log_next" /\ t = tail
              \/ Stage(q) \in {"write_head", "install_trans", "install_next"})'
      PROVE  latest'[LogBlock(t)] = latest'[lh'[t]]
  BY <1>1, Zenon DEF Alone
<1>2. \A t : LogBlock(t)' = LogBlock(t)
  BY Zenon DEF LogBlock
<1> QED BY <1>1, <1>2, Zenon DEF Copied

\* A step of commit() that ends with brelse() of the k-th buffer.
Steps(p, k, to) ==
  /\ GivesBack(p, k, to)
  /\ to \in {"write_log", "write_log_next", "write_head", "install_trans", "install_next", "committed"}
  /\ UNCHANGED <<outstanding, committing>> /\ Len(lh)' \in Nat /\ Len(lh)' <= Len(lh)

\* Such a step keeps the locks, the hands, the turns and the space.
LEMMA StepsKeep ==
  ASSUME Counting, IInv, NEW p \in Callers, Commits(p), NEW k, NEW to, Steps(p, k, to)
  PROVE  /\ Released(p, k, to) /\ Locks' /\ Hands' /\ OneBufferPerBlock' /\ SameRefs(p)
         /\ Alone(p, to) /\ Turns' /\ Space'
<1>1. p \in Procs
  BY Zenon DEF Procs
<1>2. Released(p, k, to) /\ Locks' /\ Hands' /\ OneBufferPerBlock' /\ SameRefs(p)
  BY <1>1, ReleaseKeeps, Zenon DEF Steps
<1>3. /\ committing = 1 /\ Active = {} /\ outstanding = 0 /\ wrote[p] = {} /\ Len(lh) <= LOGBLOCKS
      /\ \A q \in Callers \ {p} : Stage(q) = "idle" /\ ~Commits(q)
  BY CommitAlone, Zenon
<1>4. \A q \in Callers \ {p} : Stage(q)' = "idle"
  <2>1. \A q \in Callers \ {p} : At(q)' = At(q)
    BY <1>2, Zenon DEF Released, Moves, At, Procs
  <2> QED BY <1>3, <2>1, StageStays, Zenon
<1>5. Stage(p)' = to
  BY <1>2, Zenon DEF Released, Stage, Steps
<1>6. Alone(p, to)
  BY <1>3, <1>4, <1>5, Zenon DEF Alone, Steps
<1>7. Active' = {}
  BY <1>4, <1>5, Zenon DEF Active, Steps
<1>8. \A q \in Callers \ {p} : ~Commits(q)'
  BY <1>4, Zenon DEF Commits
<1>9. Turns'
  <2>1. outstanding' = Cardinality(Active')
    BY <1>3, <1>7, CountEmpty, Zenon DEF Steps
  <2>2. committing' = 1 /\ (1 = 0) = FALSE
    BY <1>3 DEF Steps
  <2> QED BY <1>7, <1>8, <2>1, <2>2, Zenon DEF Turns
<1>10. Space'
  <2>1. \A q \in Callers : wrote'[q] = {}
    BY <1>3, Zenon DEF IInv, Space, Steps, GivesBack, Releases
  <2>2. Reserved' = {}
    BY <1>7, Zenon DEF Reserved
  <2>3. Cardinality(Reserved') = 0
    BY <2>2, CountEmpty, Zenon
  <2>4. Len(lh) \in Nat /\ outstanding * MAXOPBLOCKS <= LOGBLOCKS /\ Len(lh) + MAXOPBLOCKS <= LOGBLOCKS + OpBlocks
    <3>1. lh \in Seq(Home) /\ outstanding * MAXOPBLOCKS <= LOGBLOCKS /\ Len(lh) + MAXOPBLOCKS <= LOGBLOCKS + OpBlocks
      BY <1>3, Zenon DEF IInv, BuffersExact, TypeOK, Space
    <3>2. Len(lh) \in Nat
      BY <3>1
    <3> QED BY <3>1, <3>2, Zenon
  <2>5. Len(lh)' + Cardinality(Reserved') <= LOGBLOCKS /\ Len(lh)' + MAXOPBLOCKS <= LOGBLOCKS + OpBlocks
    <3>1. Len(lh)' \in Nat /\ Len(lh)' <= Len(lh)
      BY Zenon DEF Steps
    <3>2. LOGBLOCKS \in Nat /\ MAXOPBLOCKS \in Nat /\ OpBlocks \in Nat /\ OpBlocks < MAXOPBLOCKS
      BY Constants, Zenon
    <3>3. Len(lh) \in Nat /\ Len(lh) + MAXOPBLOCKS <= LOGBLOCKS + OpBlocks
      BY <2>4, Zenon
    <3> QED BY <2>3, <3>1, <3>2, <3>3
  <2>6. outstanding' * MAXOPBLOCKS <= LOGBLOCKS
    BY <2>4, Zenon DEF Steps
  <2> QED BY <1>7, <2>1, <2>5, <2>6, Zenon DEF Space
<1> QED BY <1>2, <1>6, <1>9, <1>10, Zenon

\* Who holds a buffer sees a filled one, of a block of the disk.
LEMMA HeldSees ==
  ASSUME IInv, NEW p \in Procs, NEW k \in DOMAIN held[p]
  PROVE  /\ held[p][k] \in Bufs /\ lock[held[p][k]] = p /\ valid[held[p][k]] = 1
         /\ blockno[held[p][k]] \in AllBlocks /\ data[held[p][k]] = latest[blockno[held[p][k]]]
         /\ data[held[p][k]] \in {0, 1}
<1>1. TypeOK /\ Locks /\ Kept
  BY Zenon DEF IInv, BuffersExact
<1>2. held[p][k] \in Bufs /\ held[p][k] \in Range(held[p])
  BY <1>1 DEF TypeOK, Range
<1>3. lock[held[p][k]] = p /\ p # "none"
  BY <1>1, <1>2, Constants, Zenon DEF Locks
<1>4. valid[held[p][k]] = 1
  BY <1>1, <1>2, <1>3, Zenon DEF Kept
<1> QED BY <1>1, <1>2, <1>3, <1>4 DEF Kept, TypeOK

\* bwrite() of an update that needs no log: the copies and the header of the log.
LEMMA WriteThrough ==
  ASSUME IInv, NEW i \in Bufs, NEW d \in {0, 1}, blockno[i] \in AllBlocks, valid[i] = 1, Bwrite(i, d),
         latest' = [latest EXCEPT ![blockno[i]] = d], UNCHANGED <<blockno, valid, refcnt, lh, unpinned>>,
         \A j \in Bufs : lock'[j] # "none" => lock[j] # "none"
  PROVE  /\ data' \in [Bufs -> {0, 1}] /\ disk' \in [AllBlocks -> {0, 1}] /\ latest' \in [AllBlocks -> {0, 1}]
         /\ \A b \in AllBlocks : b # blockno[i] => latest'[b] = latest[b]
         /\ latest'[blockno[i]] = d /\ Kept'
<1>1. TypeOK /\ OneBufferPerBlock /\ Kept
  BY Zenon DEF IInv, BuffersExact
<1>2. data' = [data EXCEPT ![i] = d] /\ disk' = [disk EXCEPT ![blockno[i]] = d]
  BY Zenon DEF Bwrite
<1>3. data' \in [Bufs -> {0, 1}] /\ disk' \in [AllBlocks -> {0, 1}] /\ latest' \in [AllBlocks -> {0, 1}]
  BY <1>1, <1>2, Zenon DEF TypeOK
<1>4. \A b \in AllBlocks : /\ latest'[b] = IF b = blockno[i] THEN d ELSE latest[b]
                           /\ disk'[b] = IF b = blockno[i] THEN d ELSE disk[b]
  BY <1>1, <1>2, Zenon DEF TypeOK
<1>5. \A j \in Bufs : data'[j] = IF j = i THEN d ELSE data[j]
  BY <1>1, <1>2, Zenon DEF TypeOK
<1>6. \A b : Pending(b)' = Pending(b)
  BY Zenon DEF Pending
<1>7. \A j \in Bufs : valid[j] = 1 => blockno[j] \in AllBlocks /\ data'[j] = latest'[blockno[j]]
  <2> SUFFICES ASSUME NEW j \in Bufs, valid[j] = 1 PROVE blockno[j] \in AllBlocks /\ data'[j] = latest'[blockno[j]]
    BY Zenon
  <2>1. blockno[j] \in AllBlocks /\ data[j] = latest[blockno[j]]
    BY <1>1 DEF Kept, TypeOK
  <2>2. j # i => blockno[j] # blockno[i]
    BY <1>1, <2>1, BlockNumbers, Zenon DEF OneBufferPerBlock
  <2> QED BY <1>4, <1>5, <2>1, <2>2, Zenon
<1>8. \A b \in AllBlocks : disk'[b] # latest'[b] => Pending(b)
  <2>1. \A b \in AllBlocks : disk[b] # latest[b] => Pending(b)
    BY <1>1, Zenon DEF Kept
  <2> QED BY <1>4, <2>1, Zenon
<1>9. \A j \in Bufs : valid[j] = 1 => blockno[j] # NoBlock
  BY <1>7, BlockNumbers, Zenon
<1>10. Kept'
  BY <1>1, <1>6, <1>7, <1>8, <1>9, Zenon DEF Kept, NoBlock
<1> QED BY <1>3, <1>4, <1>10, Zenon

\* write_log() copies a block to its slot of the log.
LEMMA WriteLogCopyKeeps ==
  ASSUME Counting, IInv, NEW p \in Callers, WriteLogCopy(p)
  PROVE  IInv'
<1> DEFINE to == held[p][1]
           from == held[p][2]
<1>1. /\ pc[p] = "write_log_copy" /\ Bwrite(to, data[from])
      /\ latest' = [latest EXCEPT ![LogBlock(tail)] = data[from]] /\ Releasesleep(p, 2, "write_log_next")
      /\ UNCHANGED <<blockno, valid, refcnt, lru, wrote, seen, ops>>
      /\ UNCHANGED <<lh, outstanding, committing, tail, unpinned>>
  BY Zenon DEF WriteLogCopy, logVars
<1>2. p \in Procs /\ At(p) = "write_log_copy" /\ Stage(p) = "write_log" /\ Commits(p)
  BY <1>1, Zenon DEF Procs, At, Stage, Commits, Transit
<1>3. TypeOK /\ InHand(p) /\ Asked(p) /\ Progress /\ Copied
  BY <1>2, Zenon DEF IInv, BuffersExact, Hands
<1>4. held[p] \in Seq(Bufs) /\ Len(held[p]) = 2 /\ lh \in Seq(Home) /\ tail \in 1..LOGBLOCKS
  BY <1>1, <1>2, <1>3, Zenon DEF InHand, TwoHeld, TypeOK
<1>5. DOMAIN held[p] = 1..2 /\ 1 \in DOMAIN held[p] /\ 2 \in DOMAIN held[p] /\ First(p) = to /\ Second(p) = from
  BY <1>4, SMTT(30) DEF First, Second
<1>6. blockno[to] = LogBlock(tail) /\ blockno[from] = lh[tail]
  BY <1>2, <1>3, <1>5, Zenon DEF Asked
<1>7. unpinned = 0 /\ tail <= Len(lh) /\ tail \in DOMAIN lh /\ Len(lh) \in Nat /\ Len(lh) <= Len(lh)
  BY <1>2, <1>3, <1>4, SMTT(30) DEF Progress
<1>8. /\ to \in Bufs /\ blockno[to] \in AllBlocks /\ valid[to] = 1
      /\ data[from] = latest[lh[tail]] /\ data[from] \in {0, 1}
  <2>1. to \in Bufs /\ blockno[to] \in AllBlocks /\ valid[to] = 1
    BY <1>2, <1>5, HeldSees, Zenon
  <2>2. data[from] = latest[blockno[from]] /\ data[from] \in {0, 1}
    BY <1>2, <1>5, HeldSees, Zenon
  <2> QED BY <1>6, <2>1, <2>2, Zenon
<1> HIDE DEF to, from
<1>9. \A q \in Callers \ {p} : ~Commits(q)
  BY <1>2, CommitAlone, Zenon
<1>10. Steps(p, 2, "write_log_next")
  <2>1. p \notin Readers
    BY Constants, Zenon
  <2> QED BY <1>1, <1>2, <1>4, <1>5, <1>7, <2>1, Zenon DEF Steps, GivesBack, Releases, Locations, Transit
<1>11. /\ Released(p, 2, "write_log_next") /\ Locks' /\ Hands' /\ OneBufferPerBlock' /\ SameRefs(p)
       /\ Alone(p, "write_log_next") /\ Turns' /\ Space'
  BY <1>2, <1>10, StepsKeep, Zenon
<1>12. \A j \in Bufs : lock'[j] # "none" => lock[j] # "none"
  BY <1>11, Zenon DEF Released
<1>13. /\ data' \in [Bufs -> {0, 1}] /\ disk' \in [AllBlocks -> {0, 1}] /\ latest' \in [AllBlocks -> {0, 1}]
       /\ \A b \in AllBlocks : b # LogBlock(tail) => latest'[b] = latest[b]
       /\ latest'[LogBlock(tail)] = data[from] /\ Kept'
  BY <1>1, <1>6, <1>8, <1>12, WriteThrough, Zenon
<1>14. TypeOK'
  BY <1>1, <1>3, <1>11, <1>13, Zenon DEF TypeOK, Released
<1>15. Progress'
  BY <1>1, <1>3, <1>7, <1>11, AloneProgress, Zenon DEF Progress
<1>16. Copied'
  <2>1. ASSUME NEW t \in DOMAIN lh, t <= tail PROVE latest'[LogBlock(t)] = latest'[lh[t]]
    <3>1. t \in 1..LOGBLOCKS /\ lh[t] \in Home
      BY <1>4, <1>7, <2>1, Constants
    <3>2. latest'[lh[t]] = latest[lh[t]]
      BY <1>4, <1>13, <3>1, BlockNumbers, Zenon
    <3>3. CASE t = tail
      BY <1>8, <1>13, <3>2, <3>3, Zenon
    <3>4. CASE t < tail
      <4>1. latest[LogBlock(t)] = latest[lh[t]]
        BY <1>2, <1>3, <3>4, Zenon DEF Copied
      <4>2. LogBlock(t) # LogBlock(tail) /\ LogBlock(t) \in AllBlocks
        BY <1>4, <3>1, <3>4, BlockNumbers
      <4> QED BY <1>13, <3>2, <4>1, <4>2, Zenon
    <3> QED BY <1>4, <2>1, <3>1, <3>3, <3>4
  <2>2. \A t \in DOMAIN lh : t < tail \/ t = tail => t <= tail
    BY <1>4
  <2>3. lh' = lh /\ tail' = tail
    BY <1>1, Zenon
  <2> QED BY <1>11, <2>1, <2>2, <2>3, AloneCopied, Zenon
<1>17. RefcntExact'
  <2>1. \A j \in Bufs : Pins(j)' = Pins(j)
    BY <1>1, Zenon DEF Pins
  <2> QED BY <1>1, <1>2, <1>11, <1>14, <2>1, SameRefcnt, Zenon DEF Released
<1> QED BY <1>11, <1>13, <1>14, <1>15, <1>16, <1>17, Zenon DEF IInv, BuffersExact

\* write_log() goes on to the next slot; after the last one the header is written.
LEMMA WriteLogNextKeeps ==
  ASSUME Counting, IInv, NEW p \in Callers, WriteLogNext(p)
  PROVE  IInv'
<1> DEFINE to == IF tail = Len(lh) THEN "write_head" ELSE "write_log"
<1>1. /\ pc[p] = "write_log_next" /\ tail' = (IF tail = Len(lh) THEN 1 ELSE tail + 1)
      /\ Releasesleep(p, 1, to)
      /\ UNCHANGED <<blockno, valid, refcnt, data, lru, disk, lh, outstanding, committing>>
      /\ UNCHANGED <<unpinned, wrote, seen, ops, latest>>
  BY Zenon DEF WriteLogNext
<1>2. p \in Procs /\ At(p) = "write_log_next" /\ Stage(p) = "write_log_next" /\ Commits(p)
  BY <1>1, Zenon DEF Procs, At, Stage, Commits, Transit
<1>3. TypeOK /\ InHand(p) /\ Progress /\ Copied /\ Kept
  BY <1>2, Zenon DEF IInv, BuffersExact, Hands
<1>4. held[p] \in Seq(Bufs) /\ Len(held[p]) = 1 /\ lh \in Seq(Home) /\ tail \in 1..LOGBLOCKS
  BY <1>1, <1>2, <1>3, Zenon DEF InHand, OneHeld, TypeOK
<1>5. 1 \in DOMAIN held[p] /\ Len(lh) \in Nat /\ Len(lh) <= Len(lh)
  BY <1>4
<1>6. unpinned = 0 /\ tail <= Len(lh)
  BY <1>2, <1>3, Zenon DEF Progress
<1>7. Len(lh) <= LOGBLOCKS /\ \A q \in Callers \ {p} : ~Commits(q)
  BY <1>2, CommitAlone, Zenon
<1>8. tail' \in 1..LOGBLOCKS
  BY <1>1, <1>4, <1>5, <1>6, <1>7, Constants, SMTT(30)
<1>9. Steps(p, 1, to)
  <2>1. p \notin Readers
    BY Constants, Zenon
  <2>2. to \in {"write_log", "write_head"}
    BY Zenon
  <2> HIDE DEF to
  <2> QED BY <1>1, <1>2, <1>4, <1>5, <1>7, <2>1, <2>2, Zenon DEF Steps, GivesBack, Releases, Locations, Transit, NoneHeld
<1>10. /\ Released(p, 1, to) /\ Locks' /\ Hands' /\ OneBufferPerBlock' /\ SameRefs(p)
       /\ Alone(p, to) /\ Turns' /\ Space'
  BY <1>2, <1>9, StepsKeep, Zenon
<1>11. TypeOK'
  BY <1>1, <1>3, <1>8, <1>10, Zenon DEF TypeOK, Released
<1>12. Progress'
  <2>1. /\ unpinned' = 0 /\ unpinned' <= Len(lh)'
        /\ to = "write_log" => tail' <= Len(lh)'
        /\ to = "write_head" => tail' = 1
    BY <1>1, <1>4, <1>5, <1>6, SMTT(30)
  <2> QED BY <1>10, <2>1, AloneProgress, Zenon
<1>13. Copied'
  <2>1. \A t \in DOMAIN lh : t <= tail => latest[LogBlock(t)] = latest[lh[t]]
    <3>1. \A t \in DOMAIN lh : t <= tail => t < tail \/ t = tail
      BY <1>4, SMTT(30)
    <3> QED BY <1>2, <1>3, <3>1, Zenon DEF Copied
  <2>2. \A t \in DOMAIN lh : (to = "write_head" => t <= tail) /\ (t < tail' => t <= tail)
    BY <1>1, <1>4, <1>5, <1>6
  <2> QED BY <1>1, <1>10, <2>1, <2>2, AloneCopied, Zenon
<1>14. Kept'
  <2>1. \A b : Pending(b)' = Pending(b)
    BY <1>1, Zenon DEF Pending
  <2>2. \A j \in Bufs : lock'[j] # "none" => lock[j] # "none"
    BY <1>10, Zenon DEF Released
  <2> QED BY <1>1, <1>3, <2>1, <2>2, Zenon DEF Kept, NoBlock
<1>15. RefcntExact'
  <2>1. \A j \in Bufs : Pins(j)' = Pins(j)
    BY <1>1, Zenon DEF Pins
  <2> QED BY <1>1, <1>2, <1>10, <1>11, <2>1, SameRefcnt, Zenon DEF Released
<1> QED BY <1>10, <1>11, <1>12, <1>13, <1>14, <1>15, Zenon DEF IInv, BuffersExact

\* write_head() commits the transaction, or clears the log.
LEMMA WriteHeadKeeps ==
  ASSUME Counting, IInv, NEW p \in Callers, WriteHead(p)
  PROVE  IInv'
<1> DEFINE i == held[p][1]
           n == IF lh = <<>> THEN 0 ELSE 1
           to == IF lh = <<>> THEN "committed" ELSE "install_trans"
<1>1. /\ pc[p] = "write_head_copy" /\ Bwrite(i, n)
      /\ latest' = [latest EXCEPT ![LogBlock(0)] = n] /\ Releasesleep(p, 1, to)
      /\ UNCHANGED <<blockno, valid, refcnt, lru, wrote, seen, ops>>
      /\ UNCHANGED <<lh, outstanding, committing, tail, unpinned>>
  BY Zenon DEF WriteHead, logVars
<1>2. p \in Procs /\ At(p) = "write_head_copy" /\ Stage(p) = "write_head" /\ Commits(p)
  BY <1>1, Zenon DEF Procs, At, Stage, Commits, Transit
<1>3. TypeOK /\ InHand(p) /\ Asked(p) /\ Progress /\ Copied
  BY <1>2, Zenon DEF IInv, BuffersExact, Hands
<1>4. held[p] \in Seq(Bufs) /\ Len(held[p]) = 1 /\ lh \in Seq(Home)
  BY <1>1, <1>2, <1>3, Zenon DEF InHand, OneHeld, TypeOK
<1>5. 1 \in DOMAIN held[p] /\ Len(lh) \in Nat /\ Len(lh) <= Len(lh) /\ First(p) = i /\ (lh # <<>> => 0 < Len(lh))
  BY <1>4 DEF First
<1>6. unpinned = 0 /\ tail = 1
  BY <1>2, <1>3, Zenon DEF Progress
<1>7. Len(lh) <= LOGBLOCKS /\ \A q \in Callers \ {p} : ~Commits(q)
  BY <1>2, CommitAlone, Zenon
<1>8. i \in Bufs /\ blockno[i] = LogBlock(0) /\ blockno[i] \in AllBlocks /\ valid[i] = 1 /\ n \in {0, 1}
  BY <1>2, <1>3, <1>5, HeldSees, Zenon DEF Asked
<1>9. to \in {"committed", "install_trans"} /\ (to = "committed" <=> lh = <<>>)
  BY Zenon
<1> HIDE DEF to, n, i
<1>10. Steps(p, 1, to)
  <2>1. p \notin Readers
    BY Constants, Zenon
  <2> QED BY <1>1, <1>2, <1>4, <1>5, <1>7, <1>9, <2>1, Zenon DEF Steps, GivesBack, Releases, Locations, Transit, NoneHeld
<1>11. /\ Released(p, 1, to) /\ Locks' /\ Hands' /\ OneBufferPerBlock' /\ SameRefs(p)
       /\ Alone(p, to) /\ Turns' /\ Space'
  BY <1>2, <1>10, StepsKeep, Zenon
<1>12. \A j \in Bufs : lock'[j] # "none" => lock[j] # "none"
  BY <1>11, Zenon DEF Released
<1>13. /\ data' \in [Bufs -> {0, 1}] /\ disk' \in [AllBlocks -> {0, 1}] /\ latest' \in [AllBlocks -> {0, 1}]
       /\ \A b \in AllBlocks : b # LogBlock(0) => latest'[b] = latest[b]
       /\ Kept'
  BY <1>1, <1>8, <1>12, WriteThrough, Zenon
<1>14. TypeOK'
  BY <1>1, <1>3, <1>11, <1>13, Zenon DEF TypeOK, Released
<1>15. Progress'
  <2>1. unpinned' = 0 /\ tail' = 1 /\ unpinned' <= Len(lh)' /\ (to = "install_trans" => unpinned' < Len(lh)')
    BY <1>1, <1>5, <1>6, <1>9, SMTT(30)
  <2> QED BY <1>1, <1>9, <1>11, <2>1, AloneProgress, Zenon
<1>16. Copied'
  <2>1. ASSUME NEW t \in DOMAIN lh PROVE latest'[LogBlock(t)] = latest'[lh[t]]
    <3>1. t \in 1..LOGBLOCKS /\ lh[t] \in Home
      BY <1>4, <1>5, <1>7, Constants
    <3>2. LogBlock(t) # LogBlock(0) /\ LogBlock(t) \in AllBlocks /\ lh[t] # LogBlock(0) /\ lh[t] \in AllBlocks
      BY <3>1, BlockNumbers, Zenon
    <3>3. latest[LogBlock(t)] = latest[lh[t]]
      BY <1>2, <1>3, Zenon DEF Copied
    <3> QED BY <1>13, <3>2, <3>3, Zenon
  <2> QED BY <1>1, <1>11, <2>1, AloneCopied, Zenon
<1>17. RefcntExact'
  <2>1. \A j \in Bufs : Pins(j)' = Pins(j)
    BY <1>1, Zenon DEF Pins
  <2> QED BY <1>1, <1>2, <1>11, <1>14, <2>1, SameRefcnt, Zenon DEF Released
<1> QED BY <1>11, <1>13, <1>14, <1>15, <1>16, <1>17, Zenon DEF IInv, BuffersExact

\* install_trans() writes a block home and gives back the log's pin.
LEMMA InstallCopyKeeps ==
  ASSUME Counting, IInv, NEW p \in Callers, InstallCopy(p)
  PROVE  IInv'
<1> DEFINE lbuf == held[p][1]
           dbuf == held[p][2]
           u == unpinned + 1
<1>1. /\ pc[p] = "install_copy" /\ data' = [data EXCEPT ![dbuf] = data[lbuf]]
      /\ disk' = [disk EXCEPT ![blockno[dbuf]] = data[lbuf]]
      /\ refcnt' = [refcnt EXCEPT ![dbuf] = @ - 1] /\ unpinned' = u /\ Releasesleep(p, 1, "install_next")
      /\ UNCHANGED <<blockno, valid, lru, lh, outstanding, committing, tail, wrote, seen, ops, latest>>
  BY Zenon DEF InstallCopy, Bwrite, Bunpin
<1>2. p \in Procs /\ At(p) = "install_copy" /\ Stage(p) = "install_trans" /\ Commits(p)
  BY <1>1, Zenon DEF Procs, At, Stage, Commits, Transit
<1>3. TypeOK /\ OneBufferPerBlock /\ InHand(p) /\ Asked(p) /\ Progress /\ Copied /\ Kept
  BY <1>2, Zenon DEF IInv, BuffersExact, Hands
<1>4. held[p] \in Seq(Bufs) /\ Len(held[p]) = 2 /\ lh \in Seq(Home) /\ unpinned \in 0..LOGBLOCKS
  BY <1>1, <1>2, <1>3, Zenon DEF InHand, TwoHeld, TypeOK
<1>5. DOMAIN held[p] = 1..2 /\ 1 \in DOMAIN held[p] /\ 2 \in DOMAIN held[p] /\ First(p) = lbuf /\ Second(p) = dbuf
  BY <1>4, SMTT(30) DEF First, Second
<1>6. blockno[lbuf] = LogBlock(u) /\ blockno[dbuf] = lh[u]
  BY <1>2, <1>3, <1>5, Zenon DEF Asked
<1>7. Len(lh) <= LOGBLOCKS /\ \A q \in Callers \ {p} : ~Commits(q)
  BY <1>2, CommitAlone, Zenon
<1>8. /\ unpinned < Len(lh) /\ u \in DOMAIN lh /\ Len(lh) \in Nat /\ Len(lh) <= Len(lh) /\ tail = 1
      /\ u <= Len(lh) /\ u \in 0..LOGBLOCKS /\ lh[u] \in Home
  <2>1. unpinned < Len(lh) /\ tail = 1
    BY <1>2, <1>3, Zenon DEF Progress
  <2> QED BY <1>4, <1>7, <2>1, Constants
<1>9. data[lbuf] = latest[lh[u]] /\ data[lbuf] \in {0, 1} /\ dbuf \in Bufs /\ data[dbuf] = latest[lh[u]]
      /\ lh[u] \in AllBlocks
  <2>1. data[lbuf] = latest[blockno[lbuf]] /\ data[lbuf] \in {0, 1}
    BY <1>2, <1>5, HeldSees, Zenon
  <2>2. dbuf \in Bufs /\ data[dbuf] = latest[blockno[dbuf]]
    BY <1>2, <1>5, HeldSees, Zenon
  <2>3. latest[LogBlock(u)] = latest[lh[u]]
    BY <1>2, <1>3, <1>8, Zenon DEF Copied
  <2> QED BY <1>6, <1>8, <2>1, <2>2, <2>3, BlockNumbers, Zenon
<1>10. refcnt[dbuf] # 0
  <2>1. p \in Holders(dbuf)
    BY <1>2, <1>5, Zenon DEF Holders, Range
  <2> QED BY <1>9, <2>1, Counted, Zenon
<1> HIDE DEF lbuf, dbuf, u
<1>11. Steps(p, 1, "install_next")
  <2>1. p \notin Readers
    BY Constants, Zenon
  <2> QED BY <1>1, <1>2, <1>4, <1>5, <1>7, <1>8, <2>1, Zenon DEF Steps, GivesBack, Releases, Locations, Transit
<1>12. /\ Released(p, 1, "install_next") /\ Locks' /\ Hands' /\ OneBufferPerBlock' /\ SameRefs(p)
       /\ Alone(p, "install_next") /\ Turns' /\ Space'
  BY <1>2, <1>11, StepsKeep, Zenon
<1>13. /\ \A j \in Bufs : data'[j] = data[j]
       /\ \A b \in AllBlocks : disk'[b] = IF b = lh[u] THEN latest[b] ELSE disk[b]
       /\ \A j \in Bufs : refcnt'[j] = IF j = dbuf THEN refcnt[j] - 1 ELSE refcnt[j]
  BY <1>1, <1>3, <1>6, <1>9, Zenon DEF TypeOK
<1>14. TypeOK'
  <2>1. refcnt' \in [Bufs -> Nat] /\ data' \in [Bufs -> {0, 1}]
    BY <1>1, <1>3, <1>9, <1>10, SMTT(30) DEF TypeOK
  <2>2. disk' \in [AllBlocks -> {0, 1}]
    BY <1>1, <1>3, <1>6, <1>9, Zenon DEF TypeOK
  <2>3. unpinned' \in 0..LOGBLOCKS
    BY <1>1, <1>8, Zenon
  <2> QED BY <1>1, <1>3, <1>12, <2>1, <2>2, <2>3, Zenon DEF TypeOK, Released
<1>15. Progress'
  BY <1>1, <1>8, <1>12, AloneProgress, Zenon
<1>16. Copied'
  <2>1. \A t \in DOMAIN lh : latest[LogBlock(t)] = latest[lh[t]]
    BY <1>2, <1>3, Zenon DEF Copied
  <2> QED BY <1>1, <1>12, <2>1, AloneCopied, Zenon
<1>17. Kept'
  <2>1. \A b : Pending(b) => Pending(b)' \/ b = lh[u]
    BY <1>1, <1>4 DEF Pending, u
  <2>2. \A b : Pending(b)' => Pending(b)
    BY <1>1, <1>4 DEF Pending, u
  <2>3. \A j \in Bufs : lock'[j] # "none" => lock[j] # "none"
    BY <1>12, Zenon DEF Released
  <2>4. \A j \in Bufs : refcnt'[j] # 0 => refcnt[j] # 0
    BY <1>10, <1>13, Zenon
  <2>5. \A b \in AllBlocks : disk'[b] # latest[b] => Pending(b)'
    <3>1. \A b \in AllBlocks : disk[b] # latest[b] => Pending(b)
      BY <1>3, Zenon DEF Kept
    <3> QED BY <1>13, <2>1, <3>1, Zenon
  <2>6. \A j \in Bufs : valid[j] = 1 => blockno[j] # NoBlock /\ data'[j] = latest[blockno[j]]
    BY <1>3, <1>13, Zenon DEF Kept
  <2> QED BY <1>1, <1>3, <2>2, <2>3, <2>4, <2>5, <2>6, Zenon DEF Kept, NoBlock
<1>18. RefcntExact'
  <2>1. Moves(p)
    BY <1>12, Zenon DEF Released
  <2>2. \A j \in Bufs \ {dbuf} : Pins(j)' = Pins(j)
    <3>1. \A j \in Bufs \ {dbuf} : blockno[j] # lh[u]
      BY <1>3, <1>6, <1>9, BlockNumbers, Zenon DEF OneBufferPerBlock
    <3> QED BY <1>1, <1>4, <3>1 DEF Pins, u
  <2> PICK d \in Bufs : d = dbuf
    BY <1>9, Zenon
  <2>3. u \in Pins(d) /\ Pins(d)' = Pins(d) \ {u}
    <3>1. u > unpinned /\ \A t \in DOMAIN lh : t > u <=> t > unpinned /\ t # u
      BY <1>4 DEF u
    <3>2. \A t : t \in Pins(d)' <=> t \in DOMAIN lh /\ t > u /\ lh[t] = blockno[d]
      BY <1>1, Zenon DEF Pins
    <3> QED BY <1>6, <1>8, <3>1, <3>2, Zenon DEF Pins
  <2>4. \A j \in Bufs : IsFiniteSet(Pins(j)) /\ Cardinality(Pins(j)) \in Nat
    BY <1>3, Finite, Zenon
  <2>5. Cardinality(Pins(d)') = Cardinality(Pins(d)) - 1
    BY <2>3, <2>4, CountRemove, Zenon
  <2>6. \A j \in Bufs : /\ Has(p, j) + Passes(p, j) = Has(p, j)' + Passes(p, j)'
                        /\ {Has(p, j), Has(p, j)', Passes(p, j), Passes(p, j)'} \subseteq Nat
    <3>1. \A j \in Bufs : {Has(p, j), Has(p, j)', Passes(p, j), Passes(p, j)'} \subseteq Nat
      BY DEF Has, Passes
    <3> QED BY <1>12, <3>1, Zenon DEF SameRefs
  <2>7. \A j \in Bufs : refcnt[j] \in Nat
    BY <1>3, Zenon DEF TypeOK
  <2>8. \A j \in Bufs : refcnt'[j] + Has(p, j) + Passes(p, j) + Cardinality(Pins(j))
                        = refcnt[j] + Has(p, j)' + Passes(p, j)' + Cardinality(Pins(j)')
    <3> SUFFICES ASSUME NEW j \in Bufs
                 PROVE  refcnt'[j] + Has(p, j) + Passes(p, j) + Cardinality(Pins(j))
                        = refcnt[j] + Has(p, j)' + Passes(p, j)' + Cardinality(Pins(j)')
      BY Zenon
    <3>1. CASE j = dbuf
      <4>1. refcnt'[j] = refcnt[j] - 1
        BY <1>13, <3>1, Zenon
      <4>2. Cardinality(Pins(j)') = Cardinality(Pins(j)) - 1
        BY <2>5, <3>1, Zenon
      <4>3. /\ Cardinality(Pins(j)) \in Nat /\ refcnt[j] \in Nat
            /\ Has(p, j) + Passes(p, j) = Has(p, j)' + Passes(p, j)'
            /\ {Has(p, j), Has(p, j)', Passes(p, j), Passes(p, j)'} \subseteq Nat
        BY <2>4, <2>6, <2>7, Zenon
      <4> QED BY <4>1, <4>2, <4>3, SMTT(30)
    <3>2. CASE j # dbuf
      <4>1. Cardinality(Pins(j)') = Cardinality(Pins(j)) /\ refcnt'[j] = refcnt[j]
        BY <1>13, <2>2, <3>2, Zenon
      <4>2. /\ Cardinality(Pins(j)) \in Nat /\ refcnt[j] \in Nat
            /\ Has(p, j) + Passes(p, j) = Has(p, j)' + Passes(p, j)'
            /\ {Has(p, j), Has(p, j)', Passes(p, j), Passes(p, j)'} \subseteq Nat
        BY <2>4, <2>6, <2>7, Zenon
      <4> QED BY <4>1, <4>2, SMTT(30)
    <3> QED BY <3>1, <3>2, Zenon
  <2> QED BY <1>2, <1>14, <2>1, <2>8, RefcntStep, Zenon
<1> QED BY <1>12, <1>14, <1>15, <1>16, <1>17, <1>18, Zenon DEF IInv, BuffersExact

\* install_trans() goes on to the next block; after the last one the log is empty.
LEMMA InstallNextKeeps ==
  ASSUME Counting, IInv, NEW p \in Callers, InstallNext(p)
  PROVE  IInv'
<1> DEFINE last == unpinned = Len(lh)
           to == IF last THEN "write_head" ELSE "install_trans"
<1>1. /\ pc[p] = "install_next" /\ lh' = (IF last THEN <<>> ELSE lh) /\ unpinned' = (IF last THEN 0 ELSE unpinned)
      /\ Releasesleep(p, 1, to)
      /\ UNCHANGED <<blockno, valid, refcnt, data, lru, disk, outstanding, committing, tail>>
      /\ UNCHANGED <<wrote, seen, ops, latest>>
  BY Zenon DEF InstallNext
<1>2. p \in Procs /\ At(p) = "install_next" /\ Stage(p) = "install_next" /\ Commits(p)
  BY <1>1, Zenon DEF Procs, At, Stage, Commits, Transit
<1>3. TypeOK /\ InHand(p) /\ Progress /\ Copied /\ Kept
  BY <1>2, Zenon DEF IInv, BuffersExact, Hands
<1>4. held[p] \in Seq(Bufs) /\ Len(held[p]) = 1 /\ lh \in Seq(Home) /\ unpinned \in 0..LOGBLOCKS
  BY <1>1, <1>2, <1>3, Zenon DEF InHand, OneHeld, TypeOK
<1>5. /\ 1 \in DOMAIN held[p] /\ Len(lh) \in Nat /\ unpinned <= Len(lh) /\ tail = 1
      /\ DOMAIN lh = 1..Len(lh)
  <2>1. tail = 1 /\ unpinned <= Len(lh)
    BY <1>2, <1>3, Zenon DEF Progress
  <2> QED BY <1>4, <2>1
<1>6. /\ lh' \in Seq(Home) /\ Len(lh)' \in Nat /\ Len(lh)' <= Len(lh) /\ unpinned' <= Len(lh)'
      /\ unpinned' \in 0..LOGBLOCKS /\ (last => lh' = <<>> /\ unpinned' = 0 /\ DOMAIN lh' = {})
      /\ (~last => unpinned' < Len(lh)')
  <2>1. CASE last
    <3>1. lh' = <<>> /\ unpinned' = 0
      BY <1>1, <2>1, Zenon
    <3> QED BY <1>5, <2>1, <3>1, Constants, SMTT(30)
  <2>2. CASE ~last
    <3>1. lh' = lh /\ unpinned' = unpinned
      BY <1>1, <2>2, Zenon
    <3>2. unpinned # Len(lh) /\ unpinned <= Len(lh) /\ Len(lh) \in Nat /\ unpinned \in 0..LOGBLOCKS
      BY <1>4, <1>5, <2>2, Zenon
    <3>3. unpinned < Len(lh) /\ Len(lh) <= Len(lh)
      BY <3>2
    <3> QED BY <1>4, <2>2, <3>1, <3>2, <3>3, Zenon
  <2> QED BY <2>1, <2>2, Zenon
<1>7. \A q \in Callers \ {p} : ~Commits(q)
  BY <1>2, CommitAlone, Zenon
<1>8. to \in {"write_head", "install_trans"} /\ (to = "write_head" <=> last)
  BY Zenon
<1>9. \A t : (t \in DOMAIN lh' /\ t > unpinned' <=> t \in DOMAIN lh /\ t > unpinned)
             /\ (t \in DOMAIN lh' => t \in DOMAIN lh /\ lh'[t] = lh[t])
  <2>1. last => \A t \in DOMAIN lh : ~(t > unpinned)
    BY <1>4, <1>5, SMTT(30)
  <2> QED BY <1>1, <1>6, <2>1, Zenon
<1> HIDE DEF to, last
<1>10. Steps(p, 1, to)
  <2>1. p \notin Readers
    BY Constants, Zenon
  <2> QED BY <1>1, <1>2, <1>4, <1>5, <1>6, <1>7, <1>8, <2>1, Zenon DEF Steps, GivesBack, Releases, Locations, Transit, NoneHeld
<1>11. /\ Released(p, 1, to) /\ Locks' /\ Hands' /\ OneBufferPerBlock' /\ SameRefs(p)
       /\ Alone(p, to) /\ Turns' /\ Space'
  BY <1>2, <1>10, StepsKeep, Zenon
<1>12. TypeOK'
  BY <1>1, <1>3, <1>6, <1>11, Zenon DEF TypeOK, Released
<1>13. Progress'
  BY <1>1, <1>5, <1>6, <1>8, <1>11, AloneProgress, Zenon
<1>14. Copied'
  <2>1. \A t \in DOMAIN lh : latest[LogBlock(t)] = latest[lh[t]]
    BY <1>2, <1>3, Zenon DEF Copied
  <2>2. \A t \in DOMAIN lh' : latest'[LogBlock(t)] = latest'[lh'[t]]
    BY <1>1, <1>9, <2>1, Zenon
  <2> QED BY <1>11, <2>2, AloneCopied, Zenon
<1>15. Kept'
  <2>1. \A b : Pending(b)' <=> Pending(b)
    BY <1>9, Zenon DEF Pending
  <2>2. \A j \in Bufs : lock'[j] # "none" => lock[j] # "none"
    BY <1>11, Zenon DEF Released
  <2> QED BY <1>1, <1>3, <2>1, <2>2, Zenon DEF Kept, NoBlock
<1>16. RefcntExact'
  <2>1. \A j \in Bufs : Pins(j)' = Pins(j)
    BY <1>1, <1>9, Zenon DEF Pins
  <2>2. Moves(p) /\ UNCHANGED refcnt
    BY <1>1, <1>11, Zenon DEF Released
  <2> QED BY <1>2, <1>11, <1>12, <2>1, <2>2, SameRefcnt, Zenon
<1> QED BY <1>11, <1>12, <1>13, <1>14, <1>15, <1>16, Zenon DEF IInv, BuffersExact

\* A step that leaves the buffers and every hand as they are.
LEMMA HandsStay ==
  ASSUME Counting, IInv, NEW p \in Procs, Moves(p), UNCHANGED <<bufVars, disk, lh, latest, unpinned, held, bp>>,
         TypeOK', pc[p] \notin Transit, pc'[p] \notin Transit
  PROVE  /\ Locks' /\ OneBufferPerBlock' /\ Kept' /\ RefcntExact'
<1>0. UNCHANGED <<blockno, valid, refcnt, lock, data>>
  BY Zenon DEF bufVars
<1>1. Locks' /\ OneBufferPerBlock'
  BY <1>0, Zenon DEF IInv, BuffersExact, Locks, OneBufferPerBlock, NoBlock
<1>2. Kept'
  <2>1. Kept /\ \A b : Pending(b)' = Pending(b)
    BY Zenon DEF Pending, IInv
  <2> QED BY <1>0, <2>1, Zenon DEF Kept, NoBlock
<1>3. \A j \in Bufs : Pins(j)' = Pins(j)
  BY <1>0, Zenon DEF Pins
<1>4. SameRefs(p)
  <2>1. \A j \in Bufs : Has(p, j)' = Has(p, j) /\ Passes(p, j)' = 0 /\ Passes(p, j) = 0
    BY Zenon DEF Has, Passes
  <2> QED BY <2>1, Zenon DEF SameRefs
<1> QED BY <1>0, <1>1, <1>2, <1>3, <1>4, SameRefcnt, Zenon

\* end_op() clears committing: calls may begin again.
LEMMA CommittedKeeps ==
  ASSUME Counting, IInv, NEW p \in Callers, Committed(p)
  PROVE  IInv'
<1>1. /\ pc[p] = "committed" /\ committing' = 0 /\ pc' = [pc EXCEPT ![p] = "idle"]
      /\ UNCHANGED <<bufVars, lru, disk, lh, outstanding, tail, unpinned>>
      /\ UNCHANGED <<then, bp, held, wrote, seen, ops, latest>>
  BY Zenon DEF Committed
<1>2. p \in Procs /\ At(p) = "committed" /\ Stage(p) = "committed" /\ Commits(p)
  BY <1>1, Zenon DEF Procs, At, Stage, Commits, Transit
<1>3. TypeOK /\ InHand(p) /\ Progress
  BY <1>2, Zenon DEF IInv, BuffersExact, Hands
<1>4. lh = <<>> /\ tail = 1 /\ unpinned = 0
  BY <1>2, <1>3, Zenon DEF Progress
<1>5. /\ committing = 1 /\ Active = {} /\ outstanding = 0 /\ wrote[p] = {}
      /\ \A q \in Callers \ {p} : Stage(q) = "idle" /\ ~Commits(q)
  BY <1>2, CommitAlone, Zenon
<1>6. TypeOK'
  <2>1. pc' \in [Procs -> Locations]
    BY <1>1, <1>3, Zenon DEF TypeOK, Locations
  <2> QED BY <1>1, <1>3, <2>1, Zenon DEF TypeOK, bufVars
<1>7. Moves(p) /\ pc'[p] = "idle" /\ At(p)' = "idle" /\ pc'[p] \notin Transit /\ pc[p] \notin Transit
  BY <1>1, <1>2, <1>3, Zenon DEF Moves, TypeOK, At, Transit
<1>8. Locks' /\ OneBufferPerBlock' /\ Kept' /\ RefcntExact'
  BY <1>1, <1>2, <1>6, <1>7, HandsStay, Zenon
<1>9. Hands'
  <2>1. InHand(p)'
    <3>1. Len(held[p]) = 0 /\ p \notin Readers
      BY <1>1, <1>3, Constants, Zenon DEF InHand, NoneHeld
    <3> QED BY <1>1, <1>7, <3>1, Zenon DEF InHand, NoneHeld, OneHeld, TwoHeld, Transit
  <2>2. Asked(p)'
    BY <1>7, Zenon DEF Asked
  <2>3. BlocksStay
    BY <1>1, Zenon DEF BlocksStay, bufVars
  <2> QED BY <1>1, <1>2, <1>7, <2>1, <2>2, <2>3, OthersHands, Zenon DEF Hands
<1>10. \A q \in Callers : Stage(q)' = "idle"
  <2>1. \A q \in Callers \ {p} : At(q)' = At(q)
    BY <1>7, Zenon DEF Moves, At, Procs
  <2>2. \A q \in Callers \ {p} : Stage(q)' = "idle"
    BY <1>5, <2>1, StageStays, Zenon
  <2>3. Stage(p)' = "idle"
    BY <1>7, Zenon DEF Stage
  <2> QED BY <2>2, <2>3, Zenon
<1>11. Active' = {} /\ \A q \in Callers : ~Commits(q)'
  BY <1>10, Zenon DEF Active, Commits
<1>12. committing' = 0 /\ (0 = 1) = FALSE
  BY <1>1
<1>13. Turns'
  <2>1. outstanding' = Cardinality(Active')
    BY <1>1, <1>5, <1>11, CountEmpty, Zenon
  <2> QED BY <1>1, <1>4, <1>11, <2>1, Zenon DEF Turns
<1>14. Progress'
  BY <1>1, <1>3, <1>4, <1>10, Zenon DEF Progress
<1>15. Copied'
  BY <1>10, Zenon DEF Copied
<1>16. Space'
  <2>1. \A q \in Callers : wrote'[q] = {}
    BY <1>1, <1>5, Zenon DEF IInv, Space
  <2>2. Reserved' = {} /\ Reserved = {}
    BY <1>5, <1>11, Zenon DEF Reserved
  <2> QED BY <1>1, <1>11, <1>12, <2>1, <2>2, Zenon DEF IInv, Space
<1> QED BY <1>6, <1>8, <1>9, <1>13, <1>14, <1>15, <1>16, Zenon DEF IInv, BuffersExact
=============================================================================
