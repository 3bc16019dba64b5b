------------------------------ MODULE CowProofs ------------------------------
(***************************************************************************)
(* kalloc(), kfree() and krefpage() account for every page, for any number *)
(* of processes, of physical pages and of pages in an address space.       *)
(*                                                                         *)
(* The references of Refs are counted here in one set, Uses, whose members *)
(* are the spots that refer to a page; a step changes what one or two      *)
(* spots refer to, and the count of the page with them.                    *)
(***************************************************************************)
EXTENDS Cow, Integers, TLAPS

\* Why uvmunmap() runs; where a process is, and where kfree() returns to.
Loops == {"exit", "shrink", "undo", "bad", "old"}
Locations == {"unused", "embryo", "user", "exit", "fault_fill", "fault_copy", "kfree", "kfree_push",
  "unmap", "unmap_clear", "copy", "copy_map", "exec"}

PageTypes == krefcount \in [Pages -> Nat] /\ freelist \subseteq Pages /\ data \in [Pages -> 0..3]
TableTypes ==
  pt \in [Procs -> [VAs -> Ptes]] /\ npt \in [Procs -> [VAs -> Ptes]] /\ sz \in [Procs -> 0..NVA]
PcTypes == pc \in [Procs -> Locations] /\ ret \in [Procs -> {"user", "exit", "unmap", "unmap_clear"}]
LoopTypes ==
  /\ why \in [Procs -> {"none", "fork", "exec"} \cup Loops] /\ tgt \in [Procs -> Procs]
  /\ at \in [Procs -> Nat] /\ hi \in [Procs -> 0..NVA]
HandTypes == held \in [Procs -> Pages \cup {0}] /\ fails \in Nat
LocalTypes == PcTypes /\ LoopTypes /\ HandTypes

\* The pages that TypeOK allows a process to map.
Inside(p) ==
  /\ pc[p] # "embryo" => \A va \in VAs : pt[p][va] # NoPte => va <= sz[p]
  /\ why[p] \notin {"exec", "bad", "old"} => \A va \in VAs : npt[p][va] = NoPte

\* p gives the page of a mapping to kfree(); it has dropped its reference, the
\* mapping is still there.
Freeing(p) == pc[p] \in {"kfree", "kfree_push"} /\ ret[p] = "unmap_clear"
Given(p) == pc[p] = "unmap_clear" \/ (pc[p] = "kfree_push" /\ ret[p] = "unmap_clear")

\* At each location: what the loops are about, and the page in hand.
Control(p) ==
  /\ pc[p] \in {"unused", "embryo", "user", "exit", "fault_fill", "fault_copy"} => why[p] = "none"
  /\ pc[p] \in {"copy", "copy_map"} => why[p] = "fork"
  /\ pc[p] = "exec" => why[p] = "exec"
  /\ pc[p] \in {"unmap", "unmap_clear"} => why[p] \in Loops
  /\ pc[p] \in {"kfree", "kfree_push"} =>
       \/ ret[p] \in {"user", "exit"} /\ why[p] = "none"
       \/ ret[p] = "unmap" /\ why[p] = "bad"
       \/ ret[p] = "unmap_clear" /\ why[p] \in Loops
  /\ pc[p] \in {"fault_fill", "fault_copy", "kfree", "kfree_push", "copy_map"} => held[p] \in Pages
  /\ pc[p] \in {"unused", "embryo"} => sz[p] = 0
  /\ pc[p] \in {"fault_fill", "fault_copy"} =>
       at[p] \in 1..sz[p] /\ pt[p][at[p]].perm \in {"none", "cow"}
  /\ pc[p] = "copy_map" => at[p] \in 1..hi[p] /\ pt[p][at[p]] # NoPte /\ held[p] = pt[p][at[p]].pa
  /\ pc[p] = "unmap_clear" \/ Freeing(p) => at[p] \in 1..hi[p] /\ Table(p)[at[p]] # NoPte
  /\ Freeing(p) => held[p] = Table(p)[at[p]].pa

\* How far the loops are, and what they leave behind.
Extent(p) ==
  /\ why[p] # "none" => at[p] >= 1
  /\ why[p] \in {"exit", "fork", "shrink"} => hi[p] = sz[p]
  /\ why[p] = "shrink" => hi[p] > 0 /\ at[p] >= hi[p]
  /\ why[p] = "exec" => at[p] <= hi[p] + 1 /\ \A va \in VAs : npt[p][va] # NoPte => va < at[p]
  /\ why[p] = "fork" => \A va \in VAs : pt[tgt[p]][va] # NoPte => va < at[p] /\ va <= hi[p]
  /\ why[p] \in Loops => \A va \in VAs : Table(p)[va] # NoPte =>
       va <= hi[p] /\ (va >= at[p] \/ (why[p] = "shrink" /\ va < hi[p]))

\* A fork works on the table of a child of its own; every other loop on its own.
Targets ==
  /\ \A p \in Procs : IF why[p] \in {"fork", "undo"} THEN tgt[p] # p /\ pc[tgt[p]] = "embryo"
                      ELSE tgt[p] = p
  /\ \A p, q \in Procs :
       why[p] \in {"fork", "undo"} /\ why[q] \in {"fork", "undo"} /\ tgt[p] = tgt[q] => p = q

\* A page that kalloc() has taken and not counted, or kfree() not yet pushed, is in
\* one hand only.
Raw(p) == pc[p] \in {"fault_fill", "kfree_push"}
Unshared ==
  /\ \A pa \in freelist : krefcount[pa] = 0
  /\ \A p \in Procs : Raw(p) => held[p] \notin freelist /\ krefcount[held[p]] = 0
  /\ \A p, q \in Procs : Raw(p) /\ Raw(q) /\ held[p] = held[q] => p = q

\* The spots a page is referred to from: the entries of the two tables and the hands.
Spots == (Procs \X VAs \X {"pt", "npt"}) \cup (Procs \X {0} \X {"hand"})
Entry(p) == IF why[p] \in {"bad", "old"} THEN <<p, at[p], "npt">> ELSE <<tgt[p], at[p], "pt">>
GivenUp(x) == \E p \in Procs : Given(p) /\ Entry(p) = x
Page(x) ==
  IF x[3] = "hand" THEN IF Counted(x[1]) THEN held[x[1]] ELSE 0
  ELSE IF GivenUp(x) THEN 0
  ELSE IF x[3] = "pt" THEN pt[x[1]][x[2]].pa ELSE npt[x[1]][x[2]].pa
Uses(pa) == {x \in Spots : Page(x) = pa}

\* Every reference is counted, and unless mappages() failed nothing else is.
Balance ==
  \A pa \in Pages : /\ Cardinality(Uses(pa)) <= krefcount[pa]
                    /\ fails = 0 => Cardinality(Uses(pa)) = krefcount[pa]

IInv ==
  /\ PageTypes /\ TableTypes /\ LocalTypes
  /\ \A p \in Procs : Inside(p) /\ Control(p) /\ Extent(p)
  /\ Targets /\ Unshared /\ Balance

\* What the proofs use of finite sets; CountingHolds proves it.
CountNat == \A S : IsFiniteSet(S) => Cardinality(S) \in Nat /\ (Cardinality(S) = 0 <=> S = {})
CountAdd ==
  \A S, x : IsFiniteSet(S) =>
    /\ IsFiniteSet(S \cup {x})
    /\ Cardinality(S \cup {x}) = IF x \in S THEN Cardinality(S) ELSE Cardinality(S) + 1
CountRemove ==
  \A S, x : IsFiniteSet(S) =>
    /\ IsFiniteSet(S \ {x})
    /\ Cardinality(S \ {x}) = IF x \in S THEN Cardinality(S) - 1 ELSE Cardinality(S)
CountUnion ==
  \A S, T : IsFiniteSet(S) /\ IsFiniteSet(T) /\ S \cap T = {} =>
    Cardinality(S \cup T) = Cardinality(S) + Cardinality(T)
CountBijection ==
  \A S, T : \A f \in [S -> T] :
    /\ IsFiniteSet(S)
    /\ \A x, y \in S : f[x] = f[y] => x = y
    /\ \A y \in T : \E x \in S : f[x] = y
    => IsFiniteSet(T) /\ Cardinality(T) = Cardinality(S)
FiniteSome ==
  /\ \A S : \A T \in SUBSET S : IsFiniteSet(S) => IsFiniteSet(T)
  /\ \A a, b \in Int : IsFiniteSet(a..b)
  /\ \A x : IsFiniteSet({x})
FinitePairs == \A S, T : IsFiniteSet(S) /\ IsFiniteSet(T) => IsFiniteSet(S \X T)
FiniteUnion == \A S, T : IsFiniteSet(S) /\ IsFiniteSet(T) => IsFiniteSet(S \cup T)
Counting ==
  /\ CountNat /\ CountAdd /\ CountRemove /\ CountUnion /\ CountBijection
  /\ FiniteSome /\ FinitePairs /\ FiniteUnion

(* A set that is the same but for x. *)
LEMMA OneMoved ==
  ASSUME Counting, NEW A, NEW B, NEW x, IsFiniteSet(A), A \ {x} = B \ {x}
  PROVE  /\ IsFiniteSet(B) /\ Cardinality(A) \in Nat /\ Cardinality(B) \in Nat
         /\ x \in A /\ x \in B => Cardinality(B) = Cardinality(A)
         /\ x \notin A /\ x \notin B => Cardinality(B) = Cardinality(A)
         /\ x \in A /\ x \notin B => Cardinality(B) = Cardinality(A) - 1
         /\ x \notin A /\ x \in B => Cardinality(B) = Cardinality(A) + 1
<1> DEFINE C == A \ {x}
<1>1. /\ IsFiniteSet(C) /\ Cardinality(A) \in Nat
      /\ Cardinality(C) = IF x \in A THEN Cardinality(A) - 1 ELSE Cardinality(A)
  BY Zenon DEF Counting, CountNat, CountRemove
<1>2. x \notin C /\ C = B \ {x}
  BY Zenon
<1>3. CASE x \in B
  <2>1. B = C \cup {x}
    BY <1>2, <1>3, Zenon
  <2> HIDE DEF C
  <2>2. IsFiniteSet(C \cup {x}) /\ Cardinality(C \cup {x}) = IF x \in C THEN Cardinality(C) ELSE Cardinality(C) + 1
    BY <1>1, Zenon DEF Counting, CountAdd
  <2>3. IsFiniteSet(B) /\ Cardinality(B) = Cardinality(C) + 1
    BY <1>2, <2>1, <2>2, Zenon
  <2>4. Cardinality(B) \in Nat
    BY <2>3, Zenon DEF Counting, CountNat
  <2> QED BY <1>1, <1>3, <2>3, <2>4
<1>4. CASE x \notin B
  <2>1. B = C
    BY <1>2, <1>4, Zenon
  <2>2. IsFiniteSet(B) /\ Cardinality(B) = Cardinality(C)
    BY <1>1, <2>1, Zenon
  <2>3. Cardinality(B) \in Nat
    BY <2>2, Zenon DEF Counting, CountNat
  <2> HIDE DEF C
  <2> QED BY <1>1, <1>4, <2>2, <2>3
<1> QED BY <1>3, <1>4, Zenon

(* Triples of members of finite sets. *)
LEMMA FiniteTriples ==
  ASSUME Counting, NEW S, NEW T, NEW U, IsFiniteSet(S), IsFiniteSet(T), IsFiniteSet(U)
  PROVE  IsFiniteSet(S \X T \X U)
<1> DEFINE P == (S \X T) \X U
           Q == S \X T \X U
           f == [z \in P |-> <<z[1][1], z[1][2], z[2]>>]
<1>1. IsFiniteSet(P)
  <2>1. IsFiniteSet(S \X T)
    BY Zenon DEF Counting, FinitePairs
  <2> QED BY <2>1, Zenon DEF Counting, FinitePairs
<1>2. \A z \in P : z = <<<<z[1][1], z[1][2]>>, z[2]>> /\ z[1][1] \in S /\ z[1][2] \in T /\ z[2] \in U
  OBVIOUS
<1>3. f \in [P -> Q]
  BY <1>2
<1>4. ASSUME NEW x \in P, NEW y \in P, f[x] = f[y] PROVE x = y
  <2>1. <<x[1][1], x[1][2], x[2]>> = <<y[1][1], y[1][2], y[2]>>
    BY <1>4
  <2>2. x[1][1] = y[1][1] /\ x[1][2] = y[1][2] /\ x[2] = y[2]
    BY <2>1
  <2> QED BY <1>2, <2>2
<1>5. ASSUME NEW y \in Q PROVE \E x \in P : f[x] = y
  <2>1. y[1] \in S /\ y[2] \in T /\ y[3] \in U /\ y = <<y[1], y[2], y[3]>>
    OBVIOUS
  <2>2. <<<<y[1], y[2]>>, y[3]>> \in P
    BY <2>1
  <2>3. f[<<<<y[1], y[2]>>, y[3]>>] = y
    BY <2>1, <2>2
  <2> QED BY <2>2, <2>3, Zenon
<1> HIDE DEF P, f, Q
<1>6. IsFiniteSet(Q)
  BY <1>1, <1>3, <1>4, <1>5, Zenon DEF Counting, CountBijection
<1> QED BY <1>6, Zenon DEF Q

(* There are finitely many spots. *)
LEMMA FiniteSpots ==
  ASSUME Counting
  PROVE  /\ IsFiniteSet(Procs \X VAs \X {"pt", "npt"}) /\ IsFiniteSet(Spots)
         /\ \A pa : IsFiniteSet(Uses(pa)) /\ Cardinality(Uses(pa)) \in Nat
<1>1. IsFiniteSet(Procs) /\ IsFiniteSet(VAs)
  <2>1. NVA \in Int /\ 1 \in Int
    BY CowAssumption
  <2> QED BY <2>1, CowAssumption, Zenon DEF Counting, FiniteSome, VAs
<1>2. IsFiniteSet({"pt", "npt"}) /\ IsFiniteSet({0}) /\ IsFiniteSet({"hand"})
  <2>1. {"pt", "npt"} = {"pt"} \cup {"npt"}
    BY Zenon
  <2>2. IsFiniteSet({"pt"}) /\ IsFiniteSet({"npt"}) /\ IsFiniteSet({0}) /\ IsFiniteSet({"hand"})
    BY Zenon DEF Counting, FiniteSome
  <2>3. IsFiniteSet({"pt"} \cup {"npt"})
    BY <2>2, Zenon DEF Counting, FiniteUnion
  <2> QED BY <2>1, <2>2, <2>3, Zenon
<1>3. IsFiniteSet(Procs \X VAs \X {"pt", "npt"}) /\ IsFiniteSet(Procs \X {0} \X {"hand"})
  BY <1>1, <1>2, FiniteTriples, Zenon
<1>4. IsFiniteSet(Spots)
  BY <1>3, Zenon DEF Counting, FiniteUnion, Spots
<1>5. ASSUME NEW pa PROVE IsFiniteSet(Uses(pa)) /\ Cardinality(Uses(pa)) \in Nat
  <2>1. Uses(pa) \in SUBSET Spots
    BY Zenon DEF Uses
  <2>2. IsFiniteSet(Uses(pa))
    BY <1>4, <2>1, Zenon DEF Counting, FiniteSome
  <2> QED BY <2>2, Zenon DEF Counting, CountNat
<1> QED BY <1>3, <1>4, <1>5, Zenon

-----------------------------------------------------------------------------
(* ---- spots and what they refer to ---- *)

\* What the hand of p refers to.
HandPage(p) == IF Counted(p) THEN held[p] ELSE 0

(* A spot is a hand or an entry of one of the two tables. *)
LEMMA SpotKinds ==
  ASSUME NEW x \in Spots
  PROVE  \/ \E p \in Procs : x = <<p, 0, "hand">>
         \/ \E p \in Procs, va \in VAs : x = <<p, va, "pt">>
         \/ \E p \in Procs, va \in VAs : x = <<p, va, "npt">>
<1>1. CASE x \in Procs \X VAs \X {"pt", "npt"}
  <2>1. x[1] \in Procs /\ x[2] \in VAs /\ x[3] \in {"pt", "npt"} /\ x = <<x[1], x[2], x[3]>>
    BY <1>1
  <2> QED BY <2>1, Zenon
<1>2. CASE x \in Procs \X {0} \X {"hand"}
  <2>1. x[1] \in Procs /\ x[2] = 0 /\ x[3] = "hand" /\ x = <<x[1], x[2], x[3]>>
    BY <1>2
  <2> QED BY <2>1, Zenon
<1> QED BY <1>1, <1>2, Zenon DEF Spots

(* What each kind of spot refers to, before and after a step. *)
LEMMA SpotPages ==
  /\ \A p \in Procs : /\ <<p, 0, "hand">> \in Spots
                      /\ Page(<<p, 0, "hand">>) = HandPage(p)
                      /\ Page(<<p, 0, "hand">>)' = HandPage(p)'
  /\ \A p \in Procs, va \in VAs :
       /\ <<p, va, "pt">> \in Spots
       /\ Page(<<p, va, "pt">>) = IF GivenUp(<<p, va, "pt">>) THEN 0 ELSE pt[p][va].pa
       /\ Page(<<p, va, "pt">>)' = IF GivenUp(<<p, va, "pt">>)' THEN 0 ELSE pt'[p][va].pa
  /\ \A p \in Procs, va \in VAs :
       /\ <<p, va, "npt">> \in Spots
       /\ Page(<<p, va, "npt">>) = IF GivenUp(<<p, va, "npt">>) THEN 0 ELSE npt[p][va].pa
       /\ Page(<<p, va, "npt">>)' = IF GivenUp(<<p, va, "npt">>)' THEN 0 ELSE npt'[p][va].pa
<1>1. \A p \in Procs : <<p, 0, "hand">> \in Spots
  BY DEF Spots
<1>2. \A p \in Procs, va \in VAs : <<p, va, "pt">> \in Spots /\ <<p, va, "npt">> \in Spots
  BY DEF Spots
<1>3. ASSUME NEW p, NEW va, NEW k
      PROVE  <<p, va, k>>[1] = p /\ <<p, va, k>>[2] = va /\ <<p, va, k>>[3] = k
  OBVIOUS
<1>4. "pt" # "hand" /\ "npt" # "hand" /\ "npt" # "pt"
  OBVIOUS
<1>5. ASSUME NEW p \in Procs
      PROVE  Page(<<p, 0, "hand">>) = HandPage(p) /\ Page(<<p, 0, "hand">>)' = HandPage(p)'
  BY <1>3, Zenon DEF Page, HandPage, Counted
<1>6. ASSUME NEW p \in Procs, NEW va \in VAs
      PROVE  /\ Page(<<p, va, "pt">>) = IF GivenUp(<<p, va, "pt">>) THEN 0 ELSE pt[p][va].pa
             /\ Page(<<p, va, "pt">>)' = IF GivenUp(<<p, va, "pt">>)' THEN 0 ELSE pt'[p][va].pa
  <2> DEFINE x == <<p, va, "pt">>
  <2>1. x[1] = p /\ x[2] = va /\ x[3] = "pt"
    BY <1>3, Zenon
  <2> HIDE DEF x
  <2>2. /\ Page(x) = IF GivenUp(x) THEN 0 ELSE pt[p][va].pa
        /\ Page(x)' = IF GivenUp(x)' THEN 0 ELSE pt'[p][va].pa
    BY <1>4, <2>1, Zenon DEF Page
  <2> QED BY <2>2, Zenon DEF x
<1>7. ASSUME NEW p \in Procs, NEW va \in VAs
      PROVE  /\ Page(<<p, va, "npt">>) = IF GivenUp(<<p, va, "npt">>) THEN 0 ELSE npt[p][va].pa
             /\ Page(<<p, va, "npt">>)' = IF GivenUp(<<p, va, "npt">>)' THEN 0 ELSE npt'[p][va].pa
  <2> DEFINE x == <<p, va, "npt">>
  <2>1. x[1] = p /\ x[2] = va /\ x[3] = "npt"
    BY <1>3, Zenon
  <2> HIDE DEF x
  <2>2. /\ Page(x) = IF GivenUp(x) THEN 0 ELSE npt[p][va].pa
        /\ Page(x)' = IF GivenUp(x)' THEN 0 ELSE npt'[p][va].pa
    BY <1>4, <2>1, Zenon DEF Page
  <2> QED BY <2>2, Zenon DEF x
<1> QED BY <1>1, <1>2, <1>5, <1>6, <1>7, Zenon

(* Which entries are given up, when nobody starts or ends giving one up. *)
LEMMA GivenStays ==
  ASSUME \A q \in Procs : (Given(q)' <=> Given(q)) /\ (Given(q) => Entry(q)' = Entry(q))
  PROVE  \A y : GivenUp(y)' <=> GivenUp(y)
BY Zenon DEF GivenUp

(* Spots outside X refer to the pages they referred to. *)
LEMMA PagesStay ==
  ASSUME NEW X,
         \A q \in Procs : <<q, 0, "hand">> \in X \/ HandPage(q)' = HandPage(q),
         \A q \in Procs, va \in VAs :
           <<q, va, "pt">> \in X \/ ((GivenUp(<<q, va, "pt">>)' <=> GivenUp(<<q, va, "pt">>))
                                     /\ pt'[q][va].pa = pt[q][va].pa),
         \A q \in Procs, va \in VAs :
           <<q, va, "npt">> \in X \/ ((GivenUp(<<q, va, "npt">>)' <=> GivenUp(<<q, va, "npt">>))
                                     /\ npt'[q][va].pa = npt[q][va].pa)
  PROVE  \A y \in Spots : y \in X \/ Page(y)' = Page(y)
<1> SUFFICES ASSUME NEW y \in Spots, y \notin X PROVE Page(y)' = Page(y)
  BY Zenon
<1>1. CASE \E p \in Procs : y = <<p, 0, "hand">>
  <2>1. PICK p \in Procs : y = <<p, 0, "hand">>
    BY <1>1, Zenon
  <2>2. HandPage(p)' = HandPage(p)
    BY <2>1, Zenon
  <2>3. Page(y) = HandPage(p) /\ Page(y)' = HandPage(p)'
    BY <2>1, SpotPages, Zenon
  <2> QED BY <2>2, <2>3, Zenon
<1>2. CASE \E p \in Procs, va \in VAs : y = <<p, va, "pt">>
  <2>1. PICK p \in Procs, va \in VAs : y = <<p, va, "pt">>
    BY <1>2, Zenon
  <2>2. (GivenUp(y)' <=> GivenUp(y)) /\ pt'[p][va].pa = pt[p][va].pa
    BY <2>1, Zenon
  <2>3. /\ Page(y) = IF GivenUp(y) THEN 0 ELSE pt[p][va].pa
        /\ Page(y)' = IF GivenUp(y)' THEN 0 ELSE pt'[p][va].pa
    BY <2>1, SpotPages, Zenon
  <2> QED BY <2>2, <2>3, Zenon
<1>3. CASE \E p \in Procs, va \in VAs : y = <<p, va, "npt">>
  <2>1. PICK p \in Procs, va \in VAs : y = <<p, va, "npt">>
    BY <1>3, Zenon
  <2>2. (GivenUp(y)' <=> GivenUp(y)) /\ npt'[p][va].pa = npt[p][va].pa
    BY <2>1, Zenon
  <2>3. /\ Page(y) = IF GivenUp(y) THEN 0 ELSE npt[p][va].pa
        /\ Page(y)' = IF GivenUp(y)' THEN 0 ELSE npt'[p][va].pa
    BY <2>1, SpotPages, Zenon
  <2> QED BY <2>2, <2>3, Zenon
<1> QED BY <1>1, <1>2, <1>3, SpotKinds, Zenon

(* No spot changes: the counts stay right. *)
LEMMA NoneMoved ==
  ASSUME Balance, \A y \in Spots : Page(y)' = Page(y), krefcount' = krefcount, fails' = 0 => fails = 0
  PROVE  Balance'
<1>1. \A pa : Uses(pa)' = Uses(pa)
  BY Zenon DEF Uses
<1> QED BY <1>1, Zenon DEF Balance

(* One spot changes. *)
LEMMA OneSpot ==
  ASSUME Counting, NEW x \in Spots, \A y \in Spots : y \in {x} \/ Page(y)' = Page(y), NEW a
  PROVE  /\ Cardinality(Uses(a)) \in Nat /\ Cardinality(Uses(a)') \in Nat
         /\ Page(x) = a /\ Page(x)' = a => Cardinality(Uses(a)') = Cardinality(Uses(a))
         /\ Page(x) # a /\ Page(x)' # a => Cardinality(Uses(a)') = Cardinality(Uses(a))
         /\ Page(x) = a /\ Page(x)' # a => Cardinality(Uses(a)') = Cardinality(Uses(a)) - 1
         /\ Page(x) # a /\ Page(x)' = a => Cardinality(Uses(a)') = Cardinality(Uses(a)) + 1
<1> DEFINE A == Uses(a)
           B == Uses(a)'
<1>1. IsFiniteSet(A)
  BY FiniteSpots, Zenon
<1>2. (x \in A <=> Page(x) = a) /\ (x \in B <=> Page(x)' = a)
  BY Zenon DEF Uses
<1>3. A \ {x} = B \ {x}
  BY Zenon DEF Uses
<1> HIDE DEF A, B
<1>4. /\ Cardinality(A) \in Nat /\ Cardinality(B) \in Nat
      /\ x \in A /\ x \in B => Cardinality(B) = Cardinality(A)
      /\ x \notin A /\ x \notin B => Cardinality(B) = Cardinality(A)
      /\ x \in A /\ x \notin B => Cardinality(B) = Cardinality(A) - 1
      /\ x \notin A /\ x \in B => Cardinality(B) = Cardinality(A) + 1
  BY <1>1, <1>3, OneMoved, Zenon
<1> QED BY <1>2, <1>4, Zenon DEF A, B

(* The spots change places among themselves. *)
LEMMA Permuted ==
  ASSUME Counting, NEW f \in [Spots -> Spots], \A x, y \in Spots : f[x] = f[y] => x = y,
         \A y \in Spots : \E x \in Spots : f[x] = y, \A y \in Spots : Page(f[y])' = Page(y), NEW a
  PROVE  Cardinality(Uses(a)') = Cardinality(Uses(a))
<1> DEFINE A == Uses(a)
           B == Uses(a)'
           g == [y \in A |-> f[y]]
<1>1. IsFiniteSet(A)
  BY FiniteSpots, Zenon
<1>2. \A y \in A : y \in Spots /\ f[y] \in B
  BY Zenon DEF Uses
<1>3. g \in [A -> B]
  BY <1>2, Zenon
<1>4. \A y \in B : \E x \in A : g[x] = y
  <2> SUFFICES ASSUME NEW y \in B PROVE \E x \in A : g[x] = y
    BY Zenon
  <2>1. y \in Spots /\ Page(y)' = a
    BY Zenon DEF Uses
  <2>2. PICK x \in Spots : f[x] = y
    BY <2>1, Zenon
  <2>3. x \in A
    BY <2>1, <2>2, Zenon DEF Uses
  <2> QED BY <2>2, <2>3, Zenon
<1>5. \A x, y \in A : g[x] = g[y] => x = y
  BY <1>2, Zenon
<1> HIDE DEF A, B, g
<1>6. Cardinality(B) = Cardinality(A)
  BY <1>1, <1>3, <1>4, <1>5, Zenon DEF Counting, CountBijection
<1> QED BY <1>6, Zenon DEF A, B

(* Two spots exchange what they refer to: the counts stay right. *)
LEMMA Swapped ==
  ASSUME Counting, Balance, NEW x \in Spots, NEW y \in Spots, Page(x)' = Page(y), Page(y)' = Page(x),
         \A z \in Spots : z \in {x, y} \/ Page(z)' = Page(z), krefcount' = krefcount, fails' = fails
  PROVE  Balance'
<1> DEFINE f == [z \in Spots |-> IF z = x THEN y ELSE IF z = y THEN x ELSE z]
<1>1. \A z \in Spots : f[z] = IF z = x THEN y ELSE IF z = y THEN x ELSE z
  BY Zenon
<1>2. f \in [Spots -> Spots]
  BY Zenon
<1> HIDE DEF f
<1>3. \A z \in Spots : f[f[z]] = z
  BY <1>1, <1>2, Zenon
<1>4. \A z \in Spots : f[z] \in Spots
  BY <1>2, Zenon
<1>5. \A z \in Spots : Page(f[z])' = Page(z)
  <2> SUFFICES ASSUME NEW z \in Spots PROVE Page(f[z])' = Page(z)
    BY Zenon
  <2>1. CASE z = x
    <3>1. f[z] = y BY <1>1, <2>1, Zenon
    <3> QED BY <2>1, <3>1, Zenon
  <2>2. CASE z # x /\ z = y
    <3>1. f[z] = x BY <1>1, <2>2, Zenon
    <3> QED BY <2>2, <3>1, Zenon
  <2>3. CASE z # x /\ z # y
    <3>1. f[z] = z BY <1>1, <2>3, Zenon
    <3> QED BY <2>3, <3>1, Zenon
  <2> QED BY <2>1, <2>2, <2>3, Zenon
<1>6. \A u, v \in Spots : f[u] = f[v] => u = v
  BY <1>3, Zenon
<1>7. \A u \in Spots : \E v \in Spots : f[v] = u
  BY <1>3, <1>4, Zenon
<1>8. \A a : Cardinality(Uses(a)') = Cardinality(Uses(a))
  BY <1>2, <1>5, <1>6, <1>7, Permuted, Zenon
<1> QED BY <1>8, Zenon DEF Balance

(* A page that a spot refers to is counted: it is not free, nor in the hand of *)
(* a kalloc() or kfree() that is under way.                                    *)
LEMMA InUse ==
  ASSUME Counting, IInv, NEW x \in Spots, Page(x) \in Pages
  PROVE  /\ krefcount[Page(x)] \in Nat /\ krefcount[Page(x)] >= 1 /\ Page(x) \notin freelist
         /\ \A q \in Procs : Raw(q) => held[q] # Page(x)
<1> DEFINE a == Page(x)
           A == Uses(a)
<1>1. IsFiniteSet(A) /\ Cardinality(A) \in Nat /\ Cardinality(A) # 0
  <2>1. IsFiniteSet(A) /\ x \in A
    BY FiniteSpots, Zenon DEF Uses
  <2> QED BY <2>1, Zenon DEF Counting, CountNat
<1>2. Cardinality(A) <= krefcount[a] /\ krefcount[a] \in Nat
  <2>1. krefcount \in [Pages -> Nat]
    BY Zenon DEF IInv, PageTypes
  <2> QED BY <2>1, Zenon DEF IInv, Balance
<1> HIDE DEF A
<1>3. krefcount[a] >= 1 /\ krefcount[a] # 0
  BY <1>1, <1>2
<1> QED BY <1>2, <1>3, Zenon DEF IInv, Unshared

-----------------------------------------------------------------------------
(* ---- a step of p and the other processes ---- *)

\* The reasons for which p works on the table of a child.
OnChild(p) == why[p] \in {"fork", "undo"}

\* Nothing of q changes, but for its table when it is the child that p works on.
Stays(p, q) ==
  /\ pc'[q] = pc[q] /\ ret'[q] = ret[q] /\ why'[q] = why[q] /\ tgt'[q] = tgt[q] /\ at'[q] = at[q]
  /\ hi'[q] = hi[q] /\ held'[q] = held[q] /\ sz'[q] = sz[q] /\ npt'[q] = npt[q]
  /\ pt'[q] = pt[q] \/ q = tgt[p]

(* Two processes never work on the same table. *)
LEMMA Apart ==
  ASSUME IInv, NEW p \in Procs, pc[p] # "embryo", NEW q \in Procs, q # p
  PROVE  /\ tgt[q] # p /\ tgt[p] \in Procs /\ tgt[q] \in Procs
         /\ pc[q] # "embryo" => q # tgt[p] /\ tgt[q] # tgt[p]
<1>1. Targets /\ tgt[p] \in Procs /\ tgt[q] \in Procs
  BY DEF IInv, LocalTypes, LoopTypes
<1>2. pc[q] = "embryo" => ~OnChild(q)
  BY DEF IInv, Control, OnChild
<1>3. /\ IF OnChild(p) THEN pc[tgt[p]] = "embryo" ELSE tgt[p] = p
      /\ IF OnChild(q) THEN pc[tgt[q]] = "embryo" ELSE tgt[q] = q
      /\ OnChild(p) /\ OnChild(q) => tgt[p] # tgt[q]
  BY <1>1, Zenon DEF Targets, OnChild
<1> QED BY <1>1, <1>2, <1>3

(* What is known of a process that stays where it is. *)
LEMMA Frame ==
  ASSUME NEW p, NEW q, Inside(q), Control(q), Extent(q), Stays(p, q),
         pc[q] # "embryo" => pt'[q] = pt[q] /\ pt'[tgt[q]] = pt[tgt[q]]
  PROVE  Inside(q)' /\ Control(q)' /\ Extent(q)'
<1>1. Inside(q)'
  BY Zenon DEF Inside, Stays
<1>2. CASE pc[q] = "embryo"
  <2>1. pc'[q] = "embryo" /\ why'[q] = "none"
    BY <1>2 DEF Stays, Control
  <2>2. Control(q)'
    BY <1>2, <2>1 DEF Control, Stays, Freeing
  <2>3. Extent(q)'
    BY <2>1 DEF Extent, Loops
  <2> QED BY <1>1, <2>2, <2>3, Zenon
<1>3. CASE pc[q] # "embryo"
  <2>1. /\ pc'[q] = pc[q] /\ ret'[q] = ret[q] /\ why'[q] = why[q] /\ tgt'[q] = tgt[q] /\ at'[q] = at[q]
        /\ hi'[q] = hi[q] /\ held'[q] = held[q] /\ sz'[q] = sz[q] /\ npt'[q] = npt[q]
        /\ pt'[q] = pt[q] /\ pt'[tgt'[q]] = pt[tgt[q]]
    BY <1>3, Zenon DEF Stays
  <2>2. Table(q)' = Table(q) /\ (Freeing(q)' <=> Freeing(q))
    BY <2>1, Zenon DEF Table, Freeing
  <2>3. Control(q)'
    BY <2>1, <2>2, Zenon DEF Control
  <2>4. Extent(q)'
    BY <2>1, <2>2, Zenon DEF Extent
  <2> QED BY <1>1, <2>3, <2>4, Zenon
<1> QED BY <1>2, <1>3, Zenon

(* What the spots of a process that stays where it is refer to. *)
LEMMA SpotsStay ==
  ASSUME NEW p, NEW q, Stays(p, q)
  PROVE  /\ Given(q)' <=> Given(q)
         /\ Entry(q)' = Entry(q) /\ HandPage(q)' = HandPage(q) /\ (Raw(q)' <=> Raw(q))
BY Zenon DEF Stays, Given, Entry, HandPage, Counted, Raw

(* A step of p alone, on the table of its child or on its own. *)
LEMMA OthersKeep ==
  ASSUME IInv, NEW p \in Procs, pc[p] # "embryo", \A q \in Procs : q # p => Stays(p, q),
         IF OnChild(p)' THEN OnChild(p) /\ tgt'[p] = tgt[p] ELSE tgt'[p] = p
  PROVE  Targets' /\ \A q \in Procs : q # p => Inside(q)' /\ Control(q)' /\ Extent(q)'
<1>1. ASSUME NEW q \in Procs, q # p PROVE Inside(q)' /\ Control(q)' /\ Extent(q)'
  <2>1. Inside(q) /\ Control(q) /\ Extent(q) /\ Stays(p, q)
    BY <1>1, Zenon DEF IInv
  <2>2. tgt[q] # p /\ tgt[q] \in Procs /\ (pc[q] # "embryo" => q # tgt[p] /\ tgt[q] # tgt[p])
    BY <1>1, Apart, Zenon
  <2>3. pc[q] # "embryo" => pt'[q] = pt[q] /\ pt'[tgt[q]] = pt[tgt[q]]
    BY <2>1, <2>2, Zenon DEF Stays
  <2> QED BY <2>1, <2>3, Frame, Zenon
<1>2. \A q \in Procs : q # p => /\ tgt'[q] = tgt[q] /\ why'[q] = why[q] /\ pc'[q] = pc[q]
                                /\ tgt[q] # p /\ tgt[q] \in Procs
  BY Apart, Zenon DEF Stays
<1>3. Targets /\ tgt[p] \in Procs
  BY DEF IInv, LocalTypes, LoopTypes
<1>4. ASSUME NEW q \in Procs
      PROVE  IF why'[q] \in {"fork", "undo"} THEN tgt'[q] # q /\ pc'[tgt'[q]] = "embryo" ELSE tgt'[q] = q
  <2>1. CASE q = p
    <3>1. CASE OnChild(p)'
      <4>1. tgt[p] # p /\ pc[tgt[p]] = "embryo" /\ tgt'[p] = tgt[p]
        BY <1>3, <3>1, Zenon DEF Targets, OnChild
      <4>2. pc'[tgt[p]] = pc[tgt[p]]
        BY <1>2, <1>3, <4>1, Zenon
      <4> QED BY <2>1, <3>1, <4>1, <4>2, Zenon DEF OnChild
    <3>2. CASE ~OnChild(p)'
      BY <2>1, <3>2, Zenon DEF OnChild
    <3> QED BY <3>1, <3>2, Zenon
  <2>2. CASE q # p
    <3>1. IF why[q] \in {"fork", "undo"} THEN tgt[q] # q /\ pc[tgt[q]] = "embryo" ELSE tgt[q] = q
      BY <1>3, Zenon DEF Targets
    <3>2. pc'[tgt[q]] = pc[tgt[q]] /\ tgt'[q] = tgt[q] /\ why'[q] = why[q]
      BY <1>2, <2>2, Zenon
    <3> QED BY <3>1, <3>2, Zenon
  <2> QED BY <2>1, <2>2, Zenon
<1>5. ASSUME NEW q \in Procs, NEW r \in Procs, OnChild(q)', OnChild(r)', tgt'[q] = tgt'[r] PROVE q = r
  <2>1. OnChild(q) /\ OnChild(r) /\ tgt[q] = tgt[r]
    BY <1>2, <1>5, Zenon DEF OnChild
  <2> QED BY <1>3, <2>1, Zenon DEF Targets, OnChild
<1>6. Targets'
  BY <1>4, <1>5, Zenon DEF Targets, OnChild
<1> QED BY <1>1, <1>6, Zenon

(* No table changes and nobody takes or drops a page. *)
LEMMA QuietPages ==
  ASSUME Balance, UNCHANGED <<pt, npt, krefcount>>, fails' = 0 => fails = 0,
         \A q \in Procs : /\ Given(q)' <=> Given(q)
                          /\ Given(q) => Entry(q)' = Entry(q)
                          /\ HandPage(q)' = HandPage(q)
  PROVE  Balance'
<1>1. \A y : GivenUp(y)' <=> GivenUp(y)
  BY GivenStays, Zenon
<1>2. UNCHANGED <<pt, npt>>
  BY Zenon
<1> DEFINE X == {}
<1> HIDE DEF X
<1>3. \A y \in Spots : y \in X \/ Page(y)' = Page(y)
  BY <1>1, <1>2, PagesStay, Zenon
<1>4. \A y \in Spots : Page(y)' = Page(y)
  BY <1>3, Zenon DEF X
<1> QED BY <1>4, NoneMoved, Zenon

(* Such a step of p, which leaves the free list alone too. *)
LEMMA QuietStep ==
  ASSUME IInv, NEW p \in Procs, pc[p] # "embryo", \A q \in Procs : q # p => Stays(p, q),
         IF OnChild(p)' THEN OnChild(p) /\ tgt'[p] = tgt[p] ELSE tgt'[p] = p,
         PageTypes', TableTypes', LocalTypes', Inside(p)', Control(p)', Extent(p)',
         UNCHANGED <<pt, npt, krefcount, freelist>>, fails' = 0 => fails = 0,
         Given(p)' <=> Given(p), Given(p) => Entry(p)' = Entry(p),
         HandPage(p)' = HandPage(p), ~Raw(p)'
  PROVE  IInv'
<1>1. Targets' /\ \A q \in Procs : q # p => Inside(q)' /\ Control(q)' /\ Extent(q)'
  BY OthersKeep, Zenon
<1>2. \A q \in Procs : q # p => /\ Given(q)' <=> Given(q)
                                /\ Entry(q)' = Entry(q) /\ HandPage(q)' = HandPage(q)
                                /\ (Raw(q)' <=> Raw(q)) /\ held'[q] = held[q]
  BY SpotsStay, Zenon DEF Stays
<1>3. Balance'
  BY <1>2, QuietPages, Zenon DEF IInv
<1>4. Unshared'
  BY <1>2, Zenon DEF IInv, Unshared
<1> QED BY <1>1, <1>3, <1>4, Zenon DEF IInv

(* The variables of a loop stay in their types. *)
LEMMA LoopTyped ==
  ASSUME LoopTypes, NEW p \in Procs, NEW t \in Procs, NEW from \in Nat, NEW to \in 0..NVA,
         NEW w \in {"none", "fork", "exec"} \cup Loops, Loop(p, t, from, to, w)
  PROVE  LoopTypes'
BY Zenon DEF LoopTypes, Loop

(* A table after one of its entries is written. *)
LEMMA CellUpdate ==
  ASSUME NEW T \in [Procs -> [VAs -> Ptes]], NEW t \in Procs, NEW v \in VAs, NEW e \in Ptes,
         NEW U, U = [T EXCEPT ![t][v] = e]
  PROVE  /\ U \in [Procs -> [VAs -> Ptes]] /\ U[t][v] = e
         /\ \A q \in Procs, va \in VAs : (q = t /\ va = v) \/ U[q][va] = T[q][va]
<1> DEFINE f == [T[t] EXCEPT ![v] = e]
<1>1. /\ f \in [VAs -> Ptes] /\ f[v] = e /\ \A va \in VAs : va = v \/ f[va] = T[t][va]
  BY Zenon
<1>2. U = [T EXCEPT ![t] = f]
  BY Zenon
<1> HIDE DEF f
<1>3. U \in [Procs -> [VAs -> Ptes]] /\ U[t] = f /\ \A q \in Procs : q = t \/ U[q] = T[q]
  BY <1>1, <1>2, Zenon
<1> QED BY <1>1, <1>3, Zenon

(* A store of user code. *)
LEMMA StoreStep ==
  ASSUME IInv, NEW p \in Procs, NEW va \in VAs, NEW v \in Stores, Store(p, va, v)
  PROVE  IInv'
<1>1. /\ PageTypes /\ TableTypes /\ LocalTypes /\ PcTypes /\ LoopTypes /\ HandTypes
      /\ Inside(p) /\ Control(p) /\ Extent(p) /\ Targets
  BY Zenon DEF IInv, LocalTypes
<1>2. pc[p] = "user" /\ why[p] = "none"
  BY <1>1, Zenon DEF Store, Control
<1>3. pc'[p] = "user" /\ why'[p] = why[p] /\ tgt'[p] = tgt[p] /\ at'[p] = at[p] /\ hi'[p] = hi[p]
      /\ ret'[p] = ret[p] /\ held'[p] = held[p] /\ sz'[p] = sz[p]
  BY <1>1, <1>2, Zenon DEF Store, PcTypes, LoopTypes, HandTypes, TableTypes, loopVars
<1>4. UNCHANGED <<pt, npt, krefcount, freelist>> /\ (fails' = 0 => fails = 0)
  BY <1>1, Zenon DEF Store, pageVars
<1>5. \A q \in Procs : q # p => Stays(p, q)
  BY <1>1, Zenon DEF Store, loopVars, Stays, PcTypes, LoopTypes, HandTypes, TableTypes
<1>6. PageTypes' /\ TableTypes' /\ LocalTypes'
  <2>1. PageTypes'
    BY <1>1 DEF Store, pageVars, PageTypes, Stores, TableTypes, Ptes, NoPte
  <2>2. TableTypes'
    BY <1>1, Zenon DEF Store, TableTypes
  <2>3. PcTypes'
    BY <1>1, Zenon DEF Store, PcTypes, Locations
  <2>4. LoopTypes'
    BY <1>1, Zenon DEF Store, loopVars, LoopTypes, Loops
  <2>5. HandTypes'
    BY <1>1, Zenon DEF Store, HandTypes
  <2> QED BY <2>1, <2>2, <2>3, <2>4, <2>5, Zenon DEF LocalTypes
<1>7. Inside(p)'
  BY <1>1, <1>2, <1>3, <1>4, Zenon DEF Inside
<1>8. Control(p)'
  BY <1>1, <1>2, <1>3, <1>4, Zenon DEF Control, Freeing, Loops
<1>9. Extent(p)'
  BY <1>1, <1>2, <1>3, <1>4, Zenon DEF Extent, Loops
<1>10. IF OnChild(p)' THEN OnChild(p) /\ tgt'[p] = tgt[p] ELSE tgt'[p] = p
  BY <1>1, <1>2, <1>3, Zenon DEF OnChild, Targets, Loops
<1>11. /\ Given(p)' <=> Given(p)
       /\ Given(p) => Entry(p)' = Entry(p)
       /\ HandPage(p)' = HandPage(p) /\ ~Raw(p)' /\ pc[p] # "embryo"
  BY <1>2, <1>3, Zenon DEF Given, Entry, HandPage, Counted, Raw
<1> QED BY <1>4, <1>5, <1>6, <1>7, <1>8, <1>9, <1>10, <1>11, QuietStep, Zenon

(* vmfault() cannot map its page and gives it back. *)
LEMMA FaultLazyFailStep ==
  ASSUME IInv, NEW p \in Procs, FaultLazyFail(p)
  PROVE  IInv'
<1>1. /\ PageTypes /\ TableTypes /\ LocalTypes /\ PcTypes /\ LoopTypes /\ HandTypes
      /\ Inside(p) /\ Control(p) /\ Extent(p) /\ Targets
  BY Zenon DEF IInv, LocalTypes
<1>2. pc[p] = "fault_copy" /\ why[p] = "none" /\ held[p] \in Pages
  BY <1>1, Zenon DEF FaultLazyFail, Goto, Control
<1>3. pc'[p] = "kfree" /\ ret'[p] = "exit" /\ held'[p] = held[p] /\ sz'[p] = sz[p]
      /\ why'[p] = "none" /\ tgt'[p] = tgt[p] /\ at'[p] = 0 /\ hi'[p] = hi[p]
  BY <1>1, <1>2, Zenon DEF FaultLazyFail, Goto, PcTypes, LoopTypes, HandTypes, TableTypes
<1>4. UNCHANGED <<pt, npt, krefcount, freelist>> /\ (fails' = 0 => fails = 0)
  BY <1>1 DEF FaultLazyFail, Goto, pageVars, HandTypes
<1>5. \A q \in Procs : q # p => Stays(p, q)
  BY <1>1, Zenon DEF FaultLazyFail, Goto, loopVars, Stays, PcTypes, LoopTypes, HandTypes, TableTypes
<1>6. PageTypes' /\ TableTypes' /\ LocalTypes'
  <2>1. PageTypes'
    BY <1>1, Zenon DEF FaultLazyFail, Goto, pageVars, PageTypes
  <2>2. TableTypes'
    BY <1>1, Zenon DEF FaultLazyFail, Goto, TableTypes
  <2>3. PcTypes'
    BY <1>1, Zenon DEF FaultLazyFail, Goto, PcTypes, Locations
  <2>4. LoopTypes'
    BY <1>1, Zenon DEF FaultLazyFail, Goto, loopVars, LoopTypes, Loops
  <2>5. HandTypes'
    BY <1>1 DEF FaultLazyFail, Goto, HandTypes
  <2> QED BY <2>1, <2>2, <2>3, <2>4, <2>5, Zenon DEF LocalTypes
<1>7. Inside(p)'
  BY <1>1, <1>2, <1>3, <1>4, Zenon DEF Inside
<1>8. Control(p)'
  BY <1>1, <1>2, <1>3, <1>4, Zenon DEF Control, Freeing, Loops
<1>9. Extent(p)'
  BY <1>1, <1>2, <1>3, <1>4, Zenon DEF Extent, Loops
<1>10. IF OnChild(p)' THEN OnChild(p) /\ tgt'[p] = tgt[p] ELSE tgt'[p] = p
  BY <1>1, <1>2, <1>3, Zenon DEF OnChild, Targets, Loops
<1>11. /\ Given(p)' <=> Given(p)
       /\ Given(p) => Entry(p)' = Entry(p)
       /\ HandPage(p)' = HandPage(p) /\ ~Raw(p)' /\ pc[p] # "embryo"
  BY <1>2, <1>3, Zenon DEF Given, Entry, HandPage, Counted, Raw
<1> QED BY <1>4, <1>5, <1>6, <1>7, <1>8, <1>9, <1>10, <1>11, QuietStep, Zenon

(* uvmunmap() passes an empty entry. *)
LEMMA UnmapSkipStep ==
  ASSUME IInv, NEW p \in Procs, UnmapSkip(p)
  PROVE  IInv'
<1>1. /\ PageTypes /\ TableTypes /\ LocalTypes /\ PcTypes /\ LoopTypes /\ HandTypes
      /\ Inside(p) /\ Control(p) /\ Extent(p) /\ Targets
  BY Zenon DEF IInv, LocalTypes
<1>2. pc[p] = "unmap" /\ why[p] \in Loops /\ at[p] <= hi[p] /\ Table(p)[at[p]] = NoPte
  BY <1>1, Zenon DEF UnmapSkip, Goto, Control
<1>3. pc'[p] = "unmap" /\ at'[p] = at[p] + 1 /\ why'[p] = why[p] /\ tgt'[p] = tgt[p] /\ hi'[p] = hi[p]
      /\ ret'[p] = ret[p] /\ held'[p] = held[p] /\ sz'[p] = sz[p]
  BY <1>1, <1>2, Zenon DEF UnmapSkip, Goto, PcTypes, LoopTypes, HandTypes, TableTypes
<1>4. UNCHANGED <<pt, npt, krefcount, freelist>> /\ (fails' = 0 => fails = 0)
  BY <1>1, Zenon DEF UnmapSkip, Goto, pageVars
<1>5. \A q \in Procs : q # p => Stays(p, q)
  BY <1>1, Zenon DEF UnmapSkip, Goto, loopVars, Stays, PcTypes, LoopTypes, HandTypes, TableTypes
<1>6. PageTypes' /\ TableTypes' /\ LocalTypes'
  <2>1. PageTypes'
    BY <1>1, Zenon DEF UnmapSkip, Goto, pageVars, PageTypes
  <2>2. TableTypes'
    BY <1>1, Zenon DEF UnmapSkip, Goto, TableTypes
  <2>3. PcTypes'
    BY <1>1, Zenon DEF UnmapSkip, Goto, PcTypes, Locations
  <2>4. LoopTypes'
    BY <1>1 DEF UnmapSkip, Goto, loopVars, LoopTypes, Loops
  <2>5. HandTypes'
    BY <1>1, Zenon DEF UnmapSkip, Goto, HandTypes
  <2> QED BY <2>1, <2>2, <2>3, <2>4, <2>5, Zenon DEF LocalTypes
<1>7. Inside(p)'
  BY <1>1, <1>2, <1>3, <1>4, Zenon DEF Inside
<1>8. Control(p)'
  BY <1>1, <1>2, <1>3, <1>4, Zenon DEF Control, Freeing, Loops
<1>9. Extent(p)'
  BY <1>1, <1>2, <1>3, <1>4 DEF Extent, Table, Loops, LoopTypes, TableTypes, VAs
<1>10. IF OnChild(p)' THEN OnChild(p) /\ tgt'[p] = tgt[p] ELSE tgt'[p] = p
  BY <1>1, <1>2, <1>3, Zenon DEF OnChild, Targets, Loops
<1>11. /\ Given(p)' <=> Given(p)
       /\ Given(p) => Entry(p)' = Entry(p)
       /\ HandPage(p)' = HandPage(p) /\ ~Raw(p)' /\ pc[p] # "embryo"
  BY <1>2, <1>3, Zenon DEF Given, Entry, HandPage, Counted, Raw
<1> QED BY <1>4, <1>5, <1>6, <1>7, <1>8, <1>9, <1>10, <1>11, QuietStep, Zenon

(* uvmunmap() gives the page of an entry to kfree(). *)
LEMMA UnmapFreeStep ==
  ASSUME IInv, NEW p \in Procs, UnmapFree(p)
  PROVE  IInv'
<1>1. /\ PageTypes /\ TableTypes /\ LocalTypes /\ PcTypes /\ LoopTypes /\ HandTypes
      /\ Inside(p) /\ Control(p) /\ Extent(p) /\ Targets
  BY Zenon DEF IInv, LocalTypes
<1>2. pc[p] = "unmap" /\ why[p] \in Loops /\ at[p] <= hi[p] /\ Table(p)[at[p]] # NoPte
  BY <1>1, Zenon DEF UnmapFree, Goto, Hold, Control
<1>3. pc'[p] = "kfree" /\ ret'[p] = "unmap_clear" /\ held'[p] = Table(p)[at[p]].pa /\ sz'[p] = sz[p]
      /\ why'[p] = why[p] /\ tgt'[p] = tgt[p] /\ at'[p] = at[p] /\ hi'[p] = hi[p]
  BY <1>1, <1>2, Zenon DEF UnmapFree, Goto, Hold, PcTypes, LoopTypes, HandTypes, TableTypes, loopVars
<1>4. UNCHANGED <<pt, npt, krefcount, freelist>> /\ (fails' = 0 => fails = 0)
  BY <1>1, Zenon DEF UnmapFree, Goto, Hold, pageVars
<1>5. \A q \in Procs : q # p => Stays(p, q)
  BY <1>1, Zenon DEF UnmapFree, Goto, Hold, loopVars, Stays, PcTypes, LoopTypes, HandTypes, TableTypes
<1>6. PageTypes' /\ TableTypes' /\ LocalTypes'
  <2>1. PageTypes'
    BY <1>1, Zenon DEF UnmapFree, Goto, Hold, pageVars, PageTypes
  <2>2. TableTypes'
    BY <1>1, Zenon DEF UnmapFree, Goto, Hold, TableTypes
  <2>3. PcTypes'
    BY <1>1, Zenon DEF UnmapFree, Goto, Hold, PcTypes, Locations
  <2>4. LoopTypes'
    BY <1>1, Zenon DEF UnmapFree, Goto, Hold, loopVars, LoopTypes, Loops
  <2>5. HandTypes'
    <3>1. at[p] \in VAs /\ Table(p) \in [VAs -> Ptes]
      <4>1. at[p] \in Nat /\ at[p] >= 1 /\ hi[p] \in 0..NVA
        BY <1>1, <1>2, Zenon DEF Extent, LoopTypes, Loops
      <4>2. Table(p) \in [VAs -> Ptes]
        BY <1>1, Zenon DEF Table, TableTypes, LoopTypes
      <4> QED BY <1>2, <4>1, <4>2, CowAssumption DEF VAs
    <3>2. Table(p)[at[p]].pa \in Pages \cup {0}
      BY <3>1 DEF Ptes, NoPte
    <3> QED BY <1>1, <3>2, Zenon DEF UnmapFree, Hold, HandTypes
  <2> QED BY <2>1, <2>2, <2>3, <2>4, <2>5, Zenon DEF LocalTypes
<1>7. Inside(p)'
  BY <1>1, <1>2, <1>3, <1>4, Zenon DEF Inside
<1>8. Control(p)'
  <2>1. at[p] \in VAs /\ at[p] \in 1..hi[p]
    <3>1. at[p] \in Nat /\ at[p] >= 1 /\ hi[p] \in 0..NVA
      BY <1>1, <1>2, Zenon DEF Extent, LoopTypes, Loops
    <3> QED BY <1>2, <3>1, CowAssumption DEF VAs
  <2>2. Table(p) \in [VAs -> Ptes] /\ Table(p)' = Table(p)
    BY <1>1, <1>3, <1>4, Zenon DEF Table, TableTypes, LoopTypes
  <2>3. Table(p)[at[p]].pa \in Pages
    BY <1>2, <2>1, <2>2 DEF Ptes, NoPte
  <2> QED BY <1>2, <1>3, <2>1, <2>2, <2>3, Zenon DEF Control, Freeing, Loops
<1>9. Extent(p)'
  BY <1>1, <1>2, <1>3, <1>4 DEF Extent, Table, Loops, LoopTypes, TableTypes, VAs
<1>10. IF OnChild(p)' THEN OnChild(p) /\ tgt'[p] = tgt[p] ELSE tgt'[p] = p
  BY <1>1, <1>2, <1>3, Zenon DEF OnChild, Targets, Loops
<1>11. /\ Given(p)' <=> Given(p)
       /\ Given(p) => Entry(p)' = Entry(p)
       /\ HandPage(p)' = HandPage(p) /\ ~Raw(p)' /\ pc[p] # "embryo"
  BY <1>2, <1>3, Zenon DEF Given, Entry, HandPage, Counted, Raw
<1> QED BY <1>4, <1>5, <1>6, <1>7, <1>8, <1>9, <1>10, <1>11, QuietStep, Zenon

(* A process exits: its memory is to be unmapped. *)
LEMMA ExitStep ==
  ASSUME IInv, NEW p \in Procs, Exit(p)
  PROVE  IInv'
<1>1. /\ PageTypes /\ TableTypes /\ LocalTypes /\ PcTypes /\ LoopTypes /\ HandTypes
      /\ Inside(p) /\ Control(p) /\ Extent(p) /\ Targets
  BY Zenon DEF IInv, LocalTypes
<1>2. pc[p] \in {"user", "exit"} /\ why[p] = "none"
  BY <1>1, Zenon DEF Exit, Loop, Control
<1>3. pc'[p] = "unmap" /\ why'[p] = "exit" /\ tgt'[p] = p /\ at'[p] = 1 /\ hi'[p] = sz[p]
      /\ ret'[p] = ret[p] /\ held'[p] = held[p] /\ sz'[p] = sz[p]
  BY <1>1, <1>2, Zenon DEF Exit, Loop, PcTypes, LoopTypes, HandTypes, TableTypes
<1>4. UNCHANGED <<pt, npt, krefcount, freelist>> /\ (fails' = 0 => fails = 0)
  BY <1>1, Zenon DEF Exit, Loop, pageVars
<1>5. \A q \in Procs : q # p => Stays(p, q)
  BY <1>1, Zenon DEF Exit, Loop, loopVars, Stays, PcTypes, LoopTypes, HandTypes, TableTypes
<1>6. PageTypes' /\ TableTypes' /\ LocalTypes'
  <2>1. PageTypes'
    BY <1>1, Zenon DEF Exit, Loop, pageVars, PageTypes
  <2>2. TableTypes'
    BY <1>1, Zenon DEF Exit, Loop, TableTypes
  <2>3. PcTypes'
    BY <1>1, Zenon DEF Exit, Loop, PcTypes, Locations
  <2>4. LoopTypes'
    <3>1. p \in Procs /\ 1 \in Nat /\ sz[p] \in 0..NVA /\ "exit" \in {"none", "fork", "exec"} \cup Loops
      BY <1>1, <1>2, CowAssumption DEF TableTypes, Loops
    <3>2. Loop(p, p, 1, sz[p], "exit")
      BY Zenon DEF Exit
    <3> QED BY <1>1, <3>1, <3>2, LoopTyped, Zenon
  <2>5. HandTypes'
    BY <1>1, Zenon DEF Exit, Loop, HandTypes
  <2> QED BY <2>1, <2>2, <2>3, <2>4, <2>5, Zenon DEF LocalTypes
<1>7. Inside(p)'
  BY <1>1, <1>2, <1>3, <1>4, Zenon DEF Inside
<1>8. Control(p)'
  BY <1>1, <1>2, <1>3, <1>4, Zenon DEF Control, Freeing, Loops
<1>9. Extent(p)'
  BY <1>1, <1>2, <1>3, <1>4 DEF Extent, Table, Loops, LoopTypes, TableTypes, VAs, Inside
<1>10. IF OnChild(p)' THEN OnChild(p) /\ tgt'[p] = tgt[p] ELSE tgt'[p] = p
  BY <1>1, <1>2, <1>3, Zenon DEF OnChild, Targets, Loops
<1>11. /\ Given(p)' <=> Given(p)
       /\ Given(p) => Entry(p)' = Entry(p)
       /\ HandPage(p)' = HandPage(p) /\ ~Raw(p)' /\ pc[p] # "embryo"
  BY <1>2, <1>3, Zenon DEF Given, Entry, HandPage, Counted, Raw
<1> QED BY <1>4, <1>5, <1>6, <1>7, <1>8, <1>9, <1>10, <1>11, QuietStep, Zenon

(* The memory of a process that exits is unmapped. *)
LEMMA ExitDoneStep ==
  ASSUME IInv, NEW p \in Procs, ExitDone(p)
  PROVE  IInv'
<1>1. /\ PageTypes /\ TableTypes /\ LocalTypes /\ PcTypes /\ LoopTypes /\ HandTypes
      /\ Inside(p) /\ Control(p) /\ Extent(p) /\ Targets
  BY Zenon DEF IInv, LocalTypes
<1>2. pc[p] = "unmap" /\ why[p] = "exit" /\ at[p] > hi[p]
  BY <1>1, Zenon DEF ExitDone, LoopEnd, Loop, Goto, Control
<1>3. pc'[p] = "unused" /\ why'[p] = "none" /\ tgt'[p] = p /\ at'[p] = 0 /\ hi'[p] = 0
      /\ sz'[p] = 0 /\ ret'[p] = ret[p] /\ held'[p] = held[p]
  BY <1>1, <1>2, Zenon DEF ExitDone, LoopEnd, Loop, Goto, PcTypes, LoopTypes, HandTypes, TableTypes
<1>4. UNCHANGED <<pt, npt, krefcount, freelist>> /\ (fails' = 0 => fails = 0)
  BY <1>1, Zenon DEF ExitDone, LoopEnd, Loop, Goto, pageVars
<1>5. \A q \in Procs : q # p => Stays(p, q)
  BY <1>1, Zenon DEF ExitDone, LoopEnd, Loop, Goto, loopVars, Stays, PcTypes, LoopTypes, HandTypes, TableTypes
<1>6. PageTypes' /\ TableTypes' /\ LocalTypes'
  <2>1. PageTypes'
    BY <1>1, Zenon DEF ExitDone, LoopEnd, Loop, Goto, pageVars, PageTypes
  <2>2. TableTypes'
    BY <1>1, CowAssumption DEF ExitDone, LoopEnd, Loop, Goto, TableTypes
  <2>3. PcTypes'
    BY <1>1, Zenon DEF ExitDone, LoopEnd, Loop, Goto, PcTypes, Locations
  <2>4. LoopTypes'
    <3>1. p \in Procs /\ 0 \in Nat /\ 0 \in 0..NVA /\ "none" \in {"none", "fork", "exec"} \cup Loops
      BY <1>1, <1>2, CowAssumption DEF TableTypes, Loops
    <3>2. Loop(p, p, 0, 0, "none")
      BY Zenon DEF ExitDone, LoopEnd
    <3> QED BY <1>1, <3>1, <3>2, LoopTyped, Zenon
  <2>5. HandTypes'
    BY <1>1, Zenon DEF ExitDone, LoopEnd, Loop, Goto, HandTypes
  <2> QED BY <2>1, <2>2, <2>3, <2>4, <2>5, Zenon DEF LocalTypes
<1>7. Inside(p)'
  BY <1>1, <1>2, <1>3, <1>4 DEF Inside, Extent, Table, Loops, Targets, LoopTypes, VAs
<1>8. Control(p)'
  BY <1>1, <1>2, <1>3, <1>4, Zenon DEF Control, Freeing, Loops
<1>9. Extent(p)'
  BY <1>1, <1>2, <1>3, <1>4, Zenon DEF Extent, Loops
<1>10. IF OnChild(p)' THEN OnChild(p) /\ tgt'[p] = tgt[p] ELSE tgt'[p] = p
  BY <1>1, <1>2, <1>3, Zenon DEF OnChild, Targets, Loops
<1>11. /\ Given(p)' <=> Given(p)
       /\ Given(p) => Entry(p)' = Entry(p)
       /\ HandPage(p)' = HandPage(p) /\ ~Raw(p)' /\ pc[p] # "embryo"
  BY <1>2, <1>3, Zenon DEF Given, Entry, HandPage, Counted, Raw
<1> QED BY <1>4, <1>5, <1>6, <1>7, <1>8, <1>9, <1>10, <1>11, QuietStep, Zenon

(* sbrk() gives back the last page. *)
LEMMA SbrkShrinkStep ==
  ASSUME IInv, NEW p \in Procs, SbrkShrink(p)
  PROVE  IInv'
<1>1. /\ PageTypes /\ TableTypes /\ LocalTypes /\ PcTypes /\ LoopTypes /\ HandTypes
      /\ Inside(p) /\ Control(p) /\ Extent(p) /\ Targets
  BY Zenon DEF IInv, LocalTypes
<1>2. pc[p] = "user" /\ why[p] = "none" /\ sz[p] > 0
  BY <1>1, Zenon DEF SbrkShrink, Loop, Goto, Control
<1>3. pc'[p] = "unmap" /\ why'[p] = "shrink" /\ tgt'[p] = p /\ at'[p] = sz[p] /\ hi'[p] = sz[p]
      /\ ret'[p] = ret[p] /\ held'[p] = held[p] /\ sz'[p] = sz[p]
  BY <1>1, <1>2, Zenon DEF SbrkShrink, Loop, Goto, PcTypes, LoopTypes, HandTypes, TableTypes
<1>4. UNCHANGED <<pt, npt, krefcount, freelist>> /\ (fails' = 0 => fails = 0)
  BY <1>1, Zenon DEF SbrkShrink, Loop, Goto, pageVars
<1>5. \A q \in Procs : q # p => Stays(p, q)
  BY <1>1, Zenon DEF SbrkShrink, Loop, Goto, loopVars, Stays, PcTypes, LoopTypes, HandTypes, TableTypes
<1>6. PageTypes' /\ TableTypes' /\ LocalTypes'
  <2>1. PageTypes'
    BY <1>1, Zenon DEF SbrkShrink, Loop, Goto, pageVars, PageTypes
  <2>2. TableTypes'
    BY <1>1, Zenon DEF SbrkShrink, Loop, Goto, TableTypes
  <2>3. PcTypes'
    BY <1>1, Zenon DEF SbrkShrink, Loop, Goto, PcTypes, Locations
  <2>4. LoopTypes'
    <3>1. p \in Procs /\ sz[p] \in Nat /\ sz[p] \in 0..NVA /\ "shrink" \in {"none", "fork", "exec"} \cup Loops
      BY <1>1, <1>2, CowAssumption DEF TableTypes, Loops
    <3>2. Loop(p, p, sz[p], sz[p], "shrink")
      BY Zenon DEF SbrkShrink
    <3> QED BY <1>1, <3>1, <3>2, LoopTyped, Zenon
  <2>5. HandTypes'
    BY <1>1, Zenon DEF SbrkShrink, Loop, Goto, HandTypes
  <2> QED BY <2>1, <2>2, <2>3, <2>4, <2>5, Zenon DEF LocalTypes
<1>7. Inside(p)'
  BY <1>1, <1>2, <1>3, <1>4, Zenon DEF Inside
<1>8. Control(p)'
  BY <1>1, <1>2, <1>3, <1>4, Zenon DEF Control, Freeing, Loops
<1>9. Extent(p)'
  BY <1>1, <1>2, <1>3, <1>4 DEF Extent, Table, Loops, LoopTypes, TableTypes, VAs, Inside
<1>10. IF OnChild(p)' THEN OnChild(p) /\ tgt'[p] = tgt[p] ELSE tgt'[p] = p
  BY <1>1, <1>2, <1>3, Zenon DEF OnChild, Targets, Loops
<1>11. /\ Given(p)' <=> Given(p)
       /\ Given(p) => Entry(p)' = Entry(p)
       /\ HandPage(p)' = HandPage(p) /\ ~Raw(p)' /\ pc[p] # "embryo"
  BY <1>2, <1>3, Zenon DEF Given, Entry, HandPage, Counted, Raw
<1> QED BY <1>4, <1>5, <1>6, <1>7, <1>8, <1>9, <1>10, <1>11, QuietStep, Zenon

(* The last page is unmapped, and p->sz follows. *)
LEMMA ShrinkDoneStep ==
  ASSUME IInv, NEW p \in Procs, ShrinkDone(p)
  PROVE  IInv'
<1>1. /\ PageTypes /\ TableTypes /\ LocalTypes /\ PcTypes /\ LoopTypes /\ HandTypes
      /\ Inside(p) /\ Control(p) /\ Extent(p) /\ Targets
  BY Zenon DEF IInv, LocalTypes
<1>2. pc[p] = "unmap" /\ why[p] = "shrink" /\ at[p] > hi[p] /\ hi[p] = sz[p] /\ hi[p] > 0
  BY <1>1, Zenon DEF ShrinkDone, LoopEnd, Loop, Goto, Control, Extent
<1>3. pc'[p] = "user" /\ why'[p] = "none" /\ tgt'[p] = p /\ at'[p] = 0 /\ hi'[p] = 0
      /\ sz'[p] = sz[p] - 1 /\ ret'[p] = ret[p] /\ held'[p] = held[p]
  BY <1>1, <1>2, Zenon DEF ShrinkDone, LoopEnd, Loop, Goto, PcTypes, LoopTypes, HandTypes, TableTypes
<1>4. UNCHANGED <<pt, npt, krefcount, freelist>> /\ (fails' = 0 => fails = 0)
  BY <1>1, Zenon DEF ShrinkDone, LoopEnd, Loop, Goto, pageVars
<1>5. \A q \in Procs : q # p => Stays(p, q)
  BY <1>1, Zenon DEF ShrinkDone, LoopEnd, Loop, Goto, loopVars, Stays, PcTypes, LoopTypes, HandTypes, TableTypes
<1>6. PageTypes' /\ TableTypes' /\ LocalTypes'
  <2>1. PageTypes'
    BY <1>1, Zenon DEF ShrinkDone, LoopEnd, Loop, Goto, pageVars, PageTypes
  <2>2. TableTypes'
    <3>1. sz[p] - 1 \in 0..NVA
      <4>1. sz[p] \in 0..NVA /\ sz[p] > 0
        BY <1>1, <1>2, Zenon DEF TableTypes, ShrinkDone
      <4> QED BY <4>1, CowAssumption
    <3> QED BY <1>1, <3>1, Zenon DEF TableTypes, ShrinkDone
  <2>3. PcTypes'
    BY <1>1, Zenon DEF ShrinkDone, LoopEnd, Loop, Goto, PcTypes, Locations
  <2>4. LoopTypes'
    <3>1. p \in Procs /\ 0 \in Nat /\ 0 \in 0..NVA /\ "none" \in {"none", "fork", "exec"} \cup Loops
      BY <1>1, <1>2, CowAssumption DEF TableTypes, Loops
    <3>2. Loop(p, p, 0, 0, "none")
      BY Zenon DEF ShrinkDone, LoopEnd
    <3> QED BY <1>1, <3>1, <3>2, LoopTyped, Zenon
  <2>5. HandTypes'
    BY <1>1, Zenon DEF ShrinkDone, LoopEnd, Loop, Goto, HandTypes
  <2> QED BY <2>1, <2>2, <2>3, <2>4, <2>5, Zenon DEF LocalTypes
<1>7. Inside(p)'
  <2>1. \A va \in VAs : pt[p][va] # NoPte => va <= hi[p] /\ (va >= at[p] \/ va < hi[p])
    BY <1>1, <1>2, Zenon DEF Extent, Table, Targets, Loops
  <2>2. \A va \in VAs : va \in Nat
    BY DEF VAs
  <2>3. at[p] \in Nat /\ hi[p] \in Nat /\ sz[p] \in Nat
    BY <1>1 DEF LoopTypes, TableTypes
  <2>4. \A va \in VAs : pt[p][va] # NoPte => va <= sz[p] - 1
    BY <1>2, <2>1, <2>2, <2>3
  <2> QED BY <1>1, <1>2, <1>3, <1>4, <2>4, Zenon DEF Inside
<1>8. Control(p)'
  BY <1>1, <1>2, <1>3, <1>4, Zenon DEF Control, Freeing, Loops
<1>9. Extent(p)'
  BY <1>1, <1>2, <1>3, <1>4, Zenon DEF Extent, Loops
<1>10. IF OnChild(p)' THEN OnChild(p) /\ tgt'[p] = tgt[p] ELSE tgt'[p] = p
  BY <1>1, <1>2, <1>3, Zenon DEF OnChild, Targets, Loops
<1>11. /\ Given(p)' <=> Given(p)
       /\ Given(p) => Entry(p)' = Entry(p)
       /\ HandPage(p)' = HandPage(p) /\ ~Raw(p)' /\ pc[p] # "embryo"
  BY <1>2, <1>3, Zenon DEF Given, Entry, HandPage, Counted, Raw
<1> QED BY <1>4, <1>5, <1>6, <1>7, <1>8, <1>9, <1>10, <1>11, QuietStep, Zenon

(* sbrk() only raises p->sz. *)
LEMMA SbrkLazyStep ==
  ASSUME IInv, NEW p \in Procs, SbrkLazy(p)
  PROVE  IInv'
<1>1. /\ PageTypes /\ TableTypes /\ LocalTypes /\ PcTypes /\ LoopTypes /\ HandTypes
      /\ Inside(p) /\ Control(p) /\ Extent(p) /\ Targets
  BY Zenon DEF IInv, LocalTypes
<1>2. pc[p] = "user" /\ why[p] = "none"
  BY <1>1, Zenon DEF SbrkLazy, Control
<1>3. pc'[p] = "user" /\ why'[p] = why[p] /\ tgt'[p] = tgt[p] /\ at'[p] = at[p] /\ hi'[p] = hi[p]
      /\ sz'[p] = sz[p] + 1 /\ ret'[p] = ret[p] /\ held'[p] = held[p]
  BY <1>1, <1>2, Zenon DEF SbrkLazy, PcTypes, LoopTypes, HandTypes, TableTypes, loopVars
<1>4. UNCHANGED <<pt, npt, krefcount, freelist>> /\ (fails' = 0 => fails = 0)
  BY <1>1, Zenon DEF SbrkLazy, pageVars
<1>5. \A q \in Procs : q # p => Stays(p, q)
  BY <1>1, Zenon DEF SbrkLazy, loopVars, Stays, PcTypes, LoopTypes, HandTypes, TableTypes
<1>6. PageTypes' /\ TableTypes' /\ LocalTypes'
  <2>1. PageTypes'
    BY <1>1, Zenon DEF SbrkLazy, pageVars, PageTypes
  <2>2. TableTypes'
    <3>1. sz[p] + 1 \in 0..NVA
      <4>1. sz[p] \in 0..NVA /\ sz[p] < NVA
        BY <1>1, <1>2, Zenon DEF TableTypes, SbrkLazy
      <4> QED BY <4>1, CowAssumption
    <3> QED BY <1>1, <3>1, Zenon DEF TableTypes, SbrkLazy
  <2>3. PcTypes'
    BY <1>1, Zenon DEF SbrkLazy, PcTypes, Locations
  <2>4. LoopTypes'
    BY <1>1, Zenon DEF SbrkLazy, loopVars, LoopTypes, Loops
  <2>5. HandTypes'
    BY <1>1, Zenon DEF SbrkLazy, HandTypes
  <2> QED BY <2>1, <2>2, <2>3, <2>4, <2>5, Zenon DEF LocalTypes
<1>7. Inside(p)'
  <2>1. \A va \in VAs : pt[p][va] # NoPte => va <= sz[p]
    BY <1>1, <1>2, Zenon DEF Inside
  <2>2. (\A va \in VAs : va \in Nat) /\ sz[p] \in Nat
    <3>1. sz[p] \in 0..NVA
      BY <1>1, Zenon DEF TableTypes
    <3> QED BY <3>1 DEF VAs
  <2>3. \A va \in VAs : pt[p][va] # NoPte => va <= sz[p] + 1
    BY <2>1, <2>2
  <2> QED BY <1>1, <1>2, <1>3, <1>4, <2>3, Zenon DEF Inside
<1>8. Control(p)'
  BY <1>1, <1>2, <1>3, <1>4, Zenon DEF Control, Freeing, Loops
<1>9. Extent(p)'
  BY <1>1, <1>2, <1>3, <1>4, Zenon DEF Extent, Loops
<1>10. IF OnChild(p)' THEN OnChild(p) /\ tgt'[p] = tgt[p] ELSE tgt'[p] = p
  BY <1>1, <1>2, <1>3, Zenon DEF OnChild, Targets, Loops
<1>11. /\ Given(p)' <=> Given(p)
       /\ Given(p) => Entry(p)' = Entry(p)
       /\ HandPage(p)' = HandPage(p) /\ ~Raw(p)' /\ pc[p] # "embryo"
  BY <1>2, <1>3, Zenon DEF Given, Entry, HandPage, Counted, Raw
<1> QED BY <1>4, <1>5, <1>6, <1>7, <1>8, <1>9, <1>10, <1>11, QuietStep, Zenon

(* uvmcopy() passes a page that is not there. *)
LEMMA CopySkipStep ==
  ASSUME IInv, NEW p \in Procs, CopySkip(p)
  PROVE  IInv'
<1>1. /\ PageTypes /\ TableTypes /\ LocalTypes /\ PcTypes /\ LoopTypes /\ HandTypes
      /\ Inside(p) /\ Control(p) /\ Extent(p) /\ Targets
  BY Zenon DEF IInv, LocalTypes
<1>2. pc[p] = "copy" /\ why[p] = "fork" /\ at[p] <= hi[p]
  BY <1>1, Zenon DEF CopySkip, Goto, Control
<1>3. pc'[p] = "copy" /\ why'[p] = "fork" /\ tgt'[p] = tgt[p] /\ at'[p] = at[p] + 1 /\ hi'[p] = hi[p]
      /\ ret'[p] = ret[p] /\ held'[p] = held[p] /\ sz'[p] = sz[p]
  BY <1>1, <1>2, Zenon DEF CopySkip, Goto, PcTypes, LoopTypes, HandTypes, TableTypes
<1>4. UNCHANGED <<pt, npt, krefcount, freelist>> /\ (fails' = 0 => fails = 0)
  BY <1>1, Zenon DEF CopySkip, Goto, pageVars
<1>5. \A q \in Procs : q # p => Stays(p, q)
  BY <1>1, Zenon DEF CopySkip, Goto, loopVars, Stays, PcTypes, LoopTypes, HandTypes, TableTypes
<1>6. PageTypes' /\ TableTypes' /\ LocalTypes'
  <2>1. PageTypes'
    BY <1>1, Zenon DEF CopySkip, Goto, pageVars, PageTypes
  <2>2. TableTypes'
    BY <1>1, Zenon DEF CopySkip, Goto, TableTypes
  <2>3. PcTypes'
    BY <1>1, Zenon DEF CopySkip, Goto, PcTypes, Locations
  <2>4. LoopTypes'
    BY <1>1 DEF CopySkip, Goto, loopVars, LoopTypes, Loops
  <2>5. HandTypes'
    BY <1>1, Zenon DEF CopySkip, Goto, HandTypes
  <2> QED BY <2>1, <2>2, <2>3, <2>4, <2>5, Zenon DEF LocalTypes
<1>7. Inside(p)'
  BY <1>1, <1>2, <1>3, <1>4, Zenon DEF Inside
<1>8. Control(p)'
  BY <1>1, <1>2, <1>3, <1>4, Zenon DEF Control, Freeing, Loops
<1>9. Extent(p)'
  BY <1>1, <1>2, <1>3, <1>4 DEF Extent, Table, Loops, LoopTypes, TableTypes, VAs
<1>10. IF OnChild(p)' THEN OnChild(p) /\ tgt'[p] = tgt[p] ELSE tgt'[p] = p
  BY <1>1, <1>2, <1>3, Zenon DEF OnChild, Targets, Loops
<1>11. /\ Given(p)' <=> Given(p)
       /\ Given(p) => Entry(p)' = Entry(p)
       /\ HandPage(p)' = HandPage(p) /\ ~Raw(p)' /\ pc[p] # "embryo"
  BY <1>2, <1>3, Zenon DEF Given, Entry, HandPage, Counted, Raw
<1> QED BY <1>4, <1>5, <1>6, <1>7, <1>8, <1>9, <1>10, <1>11, QuietStep, Zenon

(* kexec() starts with an empty table. *)
LEMMA ExecStep ==
  ASSUME IInv, NEW p \in Procs, NEW n \in VAs, Exec(p, n)
  PROVE  IInv'
<1>1. /\ PageTypes /\ TableTypes /\ LocalTypes /\ PcTypes /\ LoopTypes /\ HandTypes
      /\ Inside(p) /\ Control(p) /\ Extent(p) /\ Targets
  BY Zenon DEF IInv, LocalTypes
<1>2. pc[p] = "user" /\ why[p] = "none"
  BY <1>1, Zenon DEF Exec, Loop, Goto, Control
<1>3. pc'[p] = "exec" /\ why'[p] = "exec" /\ tgt'[p] = p /\ at'[p] = 1 /\ hi'[p] = n
      /\ ret'[p] = ret[p] /\ held'[p] = held[p] /\ sz'[p] = sz[p]
  BY <1>1, <1>2, Zenon DEF Exec, Loop, Goto, PcTypes, LoopTypes, HandTypes, TableTypes
<1>4. UNCHANGED <<pt, npt, krefcount, freelist>> /\ (fails' = 0 => fails = 0)
  BY <1>1, Zenon DEF Exec, Loop, Goto, pageVars
<1>5. \A q \in Procs : q # p => Stays(p, q)
  BY <1>1, Zenon DEF Exec, Loop, Goto, loopVars, Stays, PcTypes, LoopTypes, HandTypes, TableTypes
<1>6. PageTypes' /\ TableTypes' /\ LocalTypes'
  <2>1. PageTypes'
    BY <1>1, Zenon DEF Exec, Loop, Goto, pageVars, PageTypes
  <2>2. TableTypes'
    BY <1>1, Zenon DEF Exec, Loop, Goto, TableTypes
  <2>3. PcTypes'
    BY <1>1, Zenon DEF Exec, Loop, Goto, PcTypes, Locations
  <2>4. LoopTypes'
    BY <1>1 DEF Exec, Loop, Goto, loopVars, LoopTypes, Loops, VAs
  <2>5. HandTypes'
    BY <1>1, Zenon DEF Exec, Loop, Goto, HandTypes
  <2> QED BY <2>1, <2>2, <2>3, <2>4, <2>5, Zenon DEF LocalTypes
<1>7. Inside(p)'
  BY <1>1, <1>2, <1>3, <1>4, Zenon DEF Inside
<1>8. Control(p)'
  BY <1>1, <1>2, <1>3, <1>4, Zenon DEF Control, Freeing, Loops
<1>9. Extent(p)'
  BY <1>1, <1>2, <1>3, <1>4 DEF Extent, Table, Loops, LoopTypes, TableTypes, VAs, Inside
<1>10. IF OnChild(p)' THEN OnChild(p) /\ tgt'[p] = tgt[p] ELSE tgt'[p] = p
  BY <1>1, <1>2, <1>3, Zenon DEF OnChild, Targets, Loops
<1>11. /\ Given(p)' <=> Given(p)
       /\ Given(p) => Entry(p)' = Entry(p)
       /\ HandPage(p)' = HandPage(p) /\ ~Raw(p)' /\ pc[p] # "embryo"
  BY <1>2, <1>3, Zenon DEF Given, Entry, HandPage, Counted, Raw
<1> QED BY <1>4, <1>5, <1>6, <1>7, <1>8, <1>9, <1>10, <1>11, QuietStep, Zenon

(* kexec() gives up: the new table is to be unmapped. *)
LEMMA ExecBadStep ==
  ASSUME IInv, NEW p \in Procs, ExecBad(p)
  PROVE  IInv'
<1>1. /\ PageTypes /\ TableTypes /\ LocalTypes /\ PcTypes /\ LoopTypes /\ HandTypes
      /\ Inside(p) /\ Control(p) /\ Extent(p) /\ Targets
  BY Zenon DEF IInv, LocalTypes
<1>2. pc[p] = "exec" /\ why[p] = "exec" /\ at[p] >= 1 /\ at[p] <= hi[p] + 1
  BY <1>1, Zenon DEF ExecBad, Loop, Goto, Control, Extent
<1>3. pc'[p] = "unmap" /\ why'[p] = "bad" /\ tgt'[p] = p /\ at'[p] = 1 /\ hi'[p] = at[p] - 1
      /\ ret'[p] = ret[p] /\ held'[p] = held[p] /\ sz'[p] = sz[p]
  BY <1>1, <1>2, Zenon DEF ExecBad, Loop, Goto, PcTypes, LoopTypes, HandTypes, TableTypes
<1>4. UNCHANGED <<pt, npt, krefcount, freelist>> /\ (fails' = 0 => fails = 0)
  BY <1>1, Zenon DEF ExecBad, Loop, Goto, pageVars
<1>5. \A q \in Procs : q # p => Stays(p, q)
  BY <1>1, Zenon DEF ExecBad, Loop, Goto, loopVars, Stays, PcTypes, LoopTypes, HandTypes, TableTypes
<1>6. PageTypes' /\ TableTypes' /\ LocalTypes'
  <2>1. PageTypes'
    BY <1>1, Zenon DEF ExecBad, Loop, Goto, pageVars, PageTypes
  <2>2. TableTypes'
    BY <1>1, Zenon DEF ExecBad, Loop, Goto, TableTypes
  <2>3. PcTypes'
    BY <1>1, Zenon DEF ExecBad, Loop, Goto, PcTypes, Locations
  <2>4. LoopTypes'
    <3>1. p \in Procs /\ 1 \in Nat /\ (at[p] - 1) \in 0..NVA /\ "bad" \in {"none", "fork", "exec"} \cup Loops
      BY <1>1, <1>2, CowAssumption DEF LoopTypes, Loops
    <3>2. Loop(p, p, 1, (at[p] - 1), "bad")
      BY Zenon DEF ExecBad
    <3> QED BY <1>1, <3>1, <3>2, LoopTyped, Zenon
  <2>5. HandTypes'
    BY <1>1, Zenon DEF ExecBad, Loop, Goto, HandTypes
  <2> QED BY <2>1, <2>2, <2>3, <2>4, <2>5, Zenon DEF LocalTypes
<1>7. Inside(p)'
  BY <1>1, <1>2, <1>3, <1>4, Zenon DEF Inside
<1>8. Control(p)'
  BY <1>1, <1>2, <1>3, <1>4, Zenon DEF Control, Freeing, Loops
<1>9. Extent(p)'
  BY <1>1, <1>2, <1>3, <1>4 DEF Extent, Table, Loops, LoopTypes, TableTypes, VAs
<1>10. IF OnChild(p)' THEN OnChild(p) /\ tgt'[p] = tgt[p] ELSE tgt'[p] = p
  BY <1>1, <1>2, <1>3, Zenon DEF OnChild, Targets, Loops
<1>11. /\ Given(p)' <=> Given(p)
       /\ Given(p) => Entry(p)' = Entry(p)
       /\ HandPage(p)' = HandPage(p) /\ ~Raw(p)' /\ pc[p] # "embryo"
  BY <1>2, <1>3, Zenon DEF Given, Entry, HandPage, Counted, Raw
<1> QED BY <1>4, <1>5, <1>6, <1>7, <1>8, <1>9, <1>10, <1>11, QuietStep, Zenon

(* The table that kexec() gives up is unmapped. *)
LEMMA ExecDoneStep ==
  ASSUME IInv, NEW p \in Procs, ExecDone(p)
  PROVE  IInv'
<1>1. /\ PageTypes /\ TableTypes /\ LocalTypes /\ PcTypes /\ LoopTypes /\ HandTypes
      /\ Inside(p) /\ Control(p) /\ Extent(p) /\ Targets
  BY Zenon DEF IInv, LocalTypes
<1>2. pc[p] = "unmap" /\ why[p] \in {"bad", "old"} /\ at[p] > hi[p]
  BY <1>1, Zenon DEF ExecDone, LoopEnd, Loop, Goto, Control
<1>3. pc'[p] = "user" /\ why'[p] = "none" /\ tgt'[p] = p /\ at'[p] = 0 /\ hi'[p] = 0
      /\ ret'[p] = ret[p] /\ held'[p] = held[p] /\ sz'[p] = sz[p]
  BY <1>1, <1>2, Zenon DEF ExecDone, LoopEnd, Loop, Goto, PcTypes, LoopTypes, HandTypes, TableTypes
<1>4. UNCHANGED <<pt, npt, krefcount, freelist>> /\ (fails' = 0 => fails = 0)
  BY <1>1, Zenon DEF ExecDone, LoopEnd, Loop, Goto, pageVars
<1>5. \A q \in Procs : q # p => Stays(p, q)
  BY <1>1, Zenon DEF ExecDone, LoopEnd, Loop, Goto, loopVars, Stays, PcTypes, LoopTypes, HandTypes, TableTypes
<1>6. PageTypes' /\ TableTypes' /\ LocalTypes'
  <2>1. PageTypes'
    BY <1>1, Zenon DEF ExecDone, LoopEnd, Loop, Goto, pageVars, PageTypes
  <2>2. TableTypes'
    BY <1>1, Zenon DEF ExecDone, LoopEnd, Loop, Goto, TableTypes
  <2>3. PcTypes'
    BY <1>1, Zenon DEF ExecDone, LoopEnd, Loop, Goto, PcTypes, Locations
  <2>4. LoopTypes'
    <3>1. p \in Procs /\ 0 \in Nat /\ 0 \in 0..NVA /\ "none" \in {"none", "fork", "exec"} \cup Loops
      BY <1>1, <1>2, CowAssumption DEF TableTypes, Loops
    <3>2. Loop(p, p, 0, 0, "none")
      BY Zenon DEF ExecDone, LoopEnd
    <3> QED BY <1>1, <3>1, <3>2, LoopTyped, Zenon
  <2>5. HandTypes'
    BY <1>1, Zenon DEF ExecDone, LoopEnd, Loop, Goto, HandTypes
  <2> QED BY <2>1, <2>2, <2>3, <2>4, <2>5, Zenon DEF LocalTypes
<1>7. Inside(p)'
  BY <1>1, <1>2, <1>3, <1>4 DEF Inside, Extent, Table, Loops, LoopTypes, VAs
<1>8. Control(p)'
  BY <1>1, <1>2, <1>3, <1>4, Zenon DEF Control, Freeing, Loops
<1>9. Extent(p)'
  BY <1>1, <1>2, <1>3, <1>4, Zenon DEF Extent, Loops
<1>10. IF OnChild(p)' THEN OnChild(p) /\ tgt'[p] = tgt[p] ELSE tgt'[p] = p
  BY <1>1, <1>2, <1>3, Zenon DEF OnChild, Targets, Loops
<1>11. /\ Given(p)' <=> Given(p)
       /\ Given(p) => Entry(p)' = Entry(p)
       /\ HandPage(p)' = HandPage(p) /\ ~Raw(p)' /\ pc[p] # "embryo"
  BY <1>2, <1>3, Zenon DEF Given, Entry, HandPage, Counted, Raw
<1> QED BY <1>4, <1>5, <1>6, <1>7, <1>8, <1>9, <1>10, <1>11, QuietStep, Zenon

-----------------------------------------------------------------------------
(* ---- steps that take or drop a reference ---- *)

(* One more spot refers to a, and a counts one more. *)
LEMMA GainRef ==
  ASSUME Counting, IInv, NEW x \in Spots, NEW a \in Pages, Page(x) = 0, Page(x)' = a,
         \A y \in Spots : y \in {x} \/ Page(y)' = Page(y),
         krefcount' = [krefcount EXCEPT ![a] = krefcount[a] + 1], fails' = fails
  PROVE  Balance'
<1>1. krefcount \in [Pages -> Nat] /\ Balance
  BY Zenon DEF IInv, PageTypes
<1> SUFFICES ASSUME NEW b \in Pages
             PROVE  /\ Cardinality(Uses(b)') <= krefcount'[b]
                    /\ fails' = 0 => Cardinality(Uses(b)') = krefcount'[b]
  BY Zenon DEF Balance
<1>2. Cardinality(Uses(b)) <= krefcount[b] /\ (fails = 0 => Cardinality(Uses(b)) = krefcount[b])
  BY <1>1, Zenon DEF Balance
<1>3. b # 0
  BY CowAssumption, Zenon
<1>4. /\ Cardinality(Uses(b)) \in Nat /\ Cardinality(Uses(b)') \in Nat
      /\ b = a => Cardinality(Uses(b)') = Cardinality(Uses(b)) + 1
      /\ b # a => Cardinality(Uses(b)') = Cardinality(Uses(b))
  BY <1>3, OneSpot, Zenon
<1>5. krefcount'[b] = (IF b = a THEN krefcount[b] + 1 ELSE krefcount[b]) /\ krefcount[b] \in Nat
  BY <1>1, Zenon
<1> DEFINE n == Cardinality(Uses(b))
           m == Cardinality(Uses(b)')
<1> HIDE DEF n, m
<1>6. m <= krefcount'[b] /\ (fails' = 0 => m = krefcount'[b])
  <2>1. n <= krefcount[b] /\ (fails = 0 => n = krefcount[b])
    BY <1>2, Zenon DEF n
  <2>2. n \in Nat /\ m \in Nat /\ (b = a => m = n + 1) /\ (b # a => m = n)
    BY <1>4, Zenon DEF n, m
  <2> QED BY <1>5, <2>1, <2>2
<1> QED BY <1>6, Zenon DEF m

(* One spot less refers to a, and a counts one less. *)
LEMMA LoseRef ==
  ASSUME Counting, IInv, NEW x \in Spots, NEW a \in Pages, Page(x) = a, Page(x)' = 0,
         \A y \in Spots : y \in {x} \/ Page(y)' = Page(y),
         \/ krefcount' = [krefcount EXCEPT ![a] = krefcount[a] - 1] /\ fails' = fails
         \/ krefcount' = krefcount /\ fails' = fails + 1
  PROVE  Balance'
<1>1. krefcount \in [Pages -> Nat] /\ Balance /\ fails \in Nat
  BY Zenon DEF IInv, PageTypes, LocalTypes, HandTypes
<1> SUFFICES ASSUME NEW b \in Pages
             PROVE  /\ Cardinality(Uses(b)') <= krefcount'[b]
                    /\ fails' = 0 => Cardinality(Uses(b)') = krefcount'[b]
  BY Zenon DEF Balance
<1>2. Cardinality(Uses(b)) <= krefcount[b] /\ (fails = 0 => Cardinality(Uses(b)) = krefcount[b])
  BY <1>1, Zenon DEF Balance
<1>3. b # 0
  BY CowAssumption, Zenon
<1>4. /\ Cardinality(Uses(b)) \in Nat /\ Cardinality(Uses(b)') \in Nat
      /\ b = a => Cardinality(Uses(b)') = Cardinality(Uses(b)) - 1
      /\ b # a => Cardinality(Uses(b)') = Cardinality(Uses(b))
  BY <1>3, OneSpot, Zenon
<1>5. /\ krefcount[b] \in Nat
      /\ \/ krefcount'[b] = (IF b = a THEN krefcount[b] - 1 ELSE krefcount[b]) /\ fails' = fails
         \/ krefcount'[b] = krefcount[b] /\ fails' = fails + 1
  BY <1>1, Zenon
<1> DEFINE n == Cardinality(Uses(b))
           m == Cardinality(Uses(b)')
<1> HIDE DEF n, m
<1>6. m <= krefcount'[b] /\ (fails' = 0 => m = krefcount'[b])
  <2>1. n <= krefcount[b] /\ (fails = 0 => n = krefcount[b])
    BY <1>2, Zenon DEF n
  <2>2. n \in Nat /\ m \in Nat /\ (b = a => m = n - 1) /\ (b # a => m = n)
    BY <1>4, Zenon DEF n, m
  <2> QED BY <1>1, <1>5, <2>1, <2>2
<1> QED BY <1>6, Zenon DEF m

(* What remains to be shown of a step of p. *)
LEMMA StepKeeps ==
  ASSUME IInv, NEW p \in Procs, pc[p] # "embryo", \A q \in Procs : q # p => Stays(p, q),
         IF OnChild(p)' THEN OnChild(p) /\ tgt'[p] = tgt[p] ELSE tgt'[p] = p,
         PageTypes', TableTypes', LocalTypes', Inside(p)', Control(p)', Extent(p)',
         Unshared', Balance'
  PROVE  IInv'
BY OthersKeep, Zenon DEF IInv

(* In a step of p only its own hand may change, and no entry of a table. *)
LEMMA HandMoves ==
  ASSUME NEW p \in Procs, \A q \in Procs : q # p => Stays(p, q), UNCHANGED <<pt, npt>>,
         Given(p)' <=> Given(p), Given(p) => Entry(p)' = Entry(p)
  PROVE  /\ <<p, 0, "hand">> \in Spots
         /\ Page(<<p, 0, "hand">>) = HandPage(p) /\ Page(<<p, 0, "hand">>)' = HandPage(p)'
         /\ \A y \in Spots : y \in {<<p, 0, "hand">>} \/ Page(y)' = Page(y)
<1>1. \A q \in Procs : q # p => /\ Given(q)' <=> Given(q)
                                /\ Entry(q)' = Entry(q) /\ HandPage(q)' = HandPage(q)
  BY SpotsStay, Zenon
<1>2. \A y : GivenUp(y)' <=> GivenUp(y)
  BY <1>1, GivenStays, Zenon
<1>3. \A q \in Procs : <<q, 0, "hand">> \in {<<p, 0, "hand">>} \/ HandPage(q)' = HandPage(q)
  BY <1>1, Zenon
<1> DEFINE X == {<<p, 0, "hand">>}
<1> HIDE DEF X
<1>4. \A q \in Procs : <<q, 0, "hand">> \in X \/ HandPage(q)' = HandPage(q)
  BY <1>3, Zenon DEF X
<1>5. \A y \in Spots : y \in X \/ Page(y)' = Page(y)
  BY <1>2, <1>4, PagesStay, Zenon
<1> QED BY <1>5, SpotPages, Zenon DEF X

(* No two loops unmap the same entry. *)
LEMMA OwnEntry ==
  ASSUME IInv, NEW p \in Procs, NEW q \in Procs, why[p] \in Loops, why[q] \in Loops,
         Entry(p) = Entry(q)
  PROVE  p = q
<1>1. /\ why[p] \in {"bad", "old"} => Entry(p) = <<p, at[p], "npt">>
      /\ why[p] \notin {"bad", "old"} => Entry(p) = <<tgt[p], at[p], "pt">>
      /\ why[q] \in {"bad", "old"} => Entry(q) = <<q, at[q], "npt">>
      /\ why[q] \notin {"bad", "old"} => Entry(q) = <<tgt[q], at[q], "pt">>
  BY Zenon DEF Entry
<1>2. p = q \/ tgt[p] = tgt[q]
  BY <1>1
<1>3. pc[p] # "embryo" /\ pc[q] # "embryo"
  BY Zenon DEF IInv, Control, Loops
<1> QED BY <1>2, <1>3, Apart, Zenon

(* Nobody else unmaps an entry of the table that p works on. *)
LEMMA NotGiven ==
  ASSUME IInv, NEW p \in Procs, pc[p] # "embryo", ~Given(p), NEW va
  PROVE  /\ ~GivenUp(<<p, va, "pt">>) /\ ~GivenUp(<<tgt[p], va, "pt">>)
         /\ ~GivenUp(<<p, va, "npt">>)
<1> SUFFICES ASSUME NEW q \in Procs, Given(q)
             PROVE  /\ Entry(q) # <<p, va, "pt">> /\ Entry(q) # <<tgt[p], va, "pt">>
                    /\ Entry(q) # <<p, va, "npt">>
  BY Zenon DEF GivenUp
<1>1. q # p /\ pc[q] # "embryo"
  BY Zenon DEF Given
<1>2. tgt[q] # p /\ tgt[q] # tgt[p]
  BY <1>1, Apart, Zenon
<1>3. Entry(q) = <<q, at[q], "npt">> \/ Entry(q) = <<tgt[q], at[q], "pt">>
  BY Zenon DEF Entry
<1> QED BY <1>1, <1>2, <1>3

(* The entry that uvmunmap() is at. *)
LEMMA EntryPage ==
  ASSUME IInv, NEW p \in Procs, why[p] \in Loops, at[p] \in VAs
  PROVE  /\ Entry(p) \in Spots
         /\ Page(Entry(p)) = IF GivenUp(Entry(p)) THEN 0 ELSE Table(p)[at[p]].pa
         /\ ~Given(p) => ~GivenUp(Entry(p))
         /\ \A q \in Procs : q # p /\ Given(q) => Entry(q) # Entry(p)
<1>1. tgt[p] \in Procs
  BY Zenon DEF IInv, LocalTypes, LoopTypes
<1>2. \A q \in Procs : Given(q) => why[q] \in Loops
  BY Zenon DEF IInv, Given, Control
<1>3. /\ \A q \in Procs : q # p /\ Given(q) => Entry(q) # Entry(p)
      /\ ~Given(p) => ~GivenUp(Entry(p))
  BY <1>2, OwnEntry, Zenon DEF GivenUp
<1>4. CASE why[p] \in {"bad", "old"}
  <2>1. Entry(p) = <<p, at[p], "npt">> /\ Table(p) = npt[p]
    BY <1>4, Zenon DEF Entry, Table
  <2>2. <<p, at[p], "npt">> \in Spots /\ Page(<<p, at[p], "npt">>) = IF GivenUp(<<p, at[p], "npt">>) THEN 0 ELSE npt[p][at[p]].pa
    BY SpotPages, Zenon
  <2> QED BY <1>3, <2>1, <2>2, Zenon
<1>5. CASE why[p] \notin {"bad", "old"}
  <2>1. Entry(p) = <<tgt[p], at[p], "pt">> /\ Table(p) = pt[tgt[p]]
    BY <1>5, Zenon DEF Entry, Table
  <2>2. <<tgt[p], at[p], "pt">> \in Spots /\ Page(<<tgt[p], at[p], "pt">>) = IF GivenUp(<<tgt[p], at[p], "pt">>) THEN 0 ELSE pt[tgt[p]][at[p]].pa
    BY <1>1, SpotPages, Zenon
  <2> QED BY <1>3, <2>1, <2>2, Zenon
<1> QED BY <1>4, <1>5, Zenon

(* The pages that nobody shares, after a step of p. *)
LEMMA UnsharedKeeps ==
  ASSUME Unshared, NEW p \in Procs,
         \A q \in Procs : q # p => (Raw(q)' <=> Raw(q)) /\ held'[q] = held[q],
         \A pa \in freelist' : krefcount'[pa] = 0,
         \A q \in Procs : q # p /\ Raw(q) => held[q] \notin freelist' /\ krefcount'[held[q]] = 0,
         Raw(p)' => /\ held'[p] \notin freelist' /\ krefcount'[held'[p]] = 0
                    /\ \A q \in Procs : q # p /\ Raw(q) => held[q] # held'[p]
  PROVE  Unshared'
<1>1. \A q \in Procs : Raw(q)' => held'[q] \notin freelist' /\ krefcount'[held'[q]] = 0
  BY Zenon
<1>2. ASSUME NEW q \in Procs, NEW r \in Procs, Raw(q)', Raw(r)', held'[q] = held'[r] PROVE q = r
  <2>1. CASE q = p \/ r = p
    BY <1>2, <2>1, Zenon
  <2>2. CASE q # p /\ r # p
    BY <1>2, <2>2, Zenon DEF Unshared
  <2> QED BY <2>1, <2>2, Zenon
<1> QED BY <1>1, <1>2, Zenon DEF Unshared

(* The same, when p has taken a reference to a. *)
LEMMA RefTaken ==
  ASSUME IInv, NEW p \in Procs, NEW a \in Pages, freelist' \subseteq freelist, a \notin freelist',
         \A q \in Procs : q # p => (Raw(q)' <=> Raw(q)) /\ held'[q] = held[q],
         \A q \in Procs : q # p /\ Raw(q) => held[q] # a,
         \A pa \in Pages : pa # a => krefcount'[pa] = krefcount[pa], ~Raw(p)'
  PROVE  Unshared'
<1>1. /\ \A q \in Procs : Raw(q) => held[q] \in Pages
      /\ freelist \subseteq Pages /\ Unshared
  BY Zenon DEF IInv, PageTypes, Control, Raw
<1>2. /\ \A q \in Procs : Raw(q) => held[q] \notin freelist /\ krefcount[held[q]] = 0
      /\ \A pa \in freelist : krefcount[pa] = 0
  BY <1>1, Zenon DEF Unshared
<1>3. \A pa \in freelist' : krefcount'[pa] = 0
  BY <1>1, <1>2, Zenon
<1>4. \A q \in Procs : q # p /\ Raw(q) => held[q] \notin freelist' /\ krefcount'[held[q]] = 0
  BY <1>1, <1>2, Zenon
<1> QED BY <1>1, <1>3, <1>4, UnsharedKeeps, Zenon

(* p gives the page of the entry it is at to kfree(). *)
LEMMA EntryMoves ==
  ASSUME IInv, NEW p \in Procs, NEW x \in Spots, x = Entry(p), x[3] # "hand",
         \A q \in Procs : q # p => Stays(p, q), UNCHANGED <<pt, npt>>,
         ~Given(p), Given(p)', Entry(p)' = Entry(p), HandPage(p)' = HandPage(p)
  PROVE  Page(x)' = 0 /\ \A y \in Spots : y \in {x} \/ Page(y)' = Page(y)
<1>1. \A q \in Procs : q # p => /\ Given(q)' <=> Given(q)
                                /\ Entry(q)' = Entry(q) /\ HandPage(q)' = HandPage(q)
  BY SpotsStay, Zenon
<1>2. GivenUp(x)'
  BY Zenon DEF GivenUp
<1>3. ASSUME NEW y, y # x PROVE GivenUp(y)' <=> GivenUp(y)
  BY <1>1, <1>3, Zenon DEF GivenUp
<1>4. Page(x)' = 0
  BY <1>2, Zenon DEF Page
<1> DEFINE X == {x}
<1>5. /\ \A q \in Procs, va \in VAs :
           <<q, va, "pt">> \in X \/ ((GivenUp(<<q, va, "pt">>)' <=> GivenUp(<<q, va, "pt">>))
                                     /\ pt'[q][va].pa = pt[q][va].pa)
      /\ \A q \in Procs, va \in VAs :
           <<q, va, "npt">> \in X \/ ((GivenUp(<<q, va, "npt">>)' <=> GivenUp(<<q, va, "npt">>))
                                     /\ npt'[q][va].pa = npt[q][va].pa)
  BY <1>3, Zenon
<1>6. \A q \in Procs : HandPage(q)' = HandPage(q)
  BY <1>1, Zenon
<1> HIDE DEF X
<1>7. \A y \in Spots : y \in X \/ Page(y)' = Page(y)
  BY <1>5, <1>6, PagesStay, Zenon
<1> QED BY <1>4, <1>7, Zenon DEF X

\* A step of p that changes the pages of one entry and of p's hand at most.
OneCell(p, t, v) ==
  /\ pc[p] # "embryo" /\ ~Given(p) /\ ~Given(p)' /\ npt' = npt /\ (t = p \/ t = tgt[p])
  /\ \A q \in Procs : q # p => Stays(p, q)
  /\ \A q \in Procs, va \in VAs : (q = t /\ va = v) \/ pt'[q][va].pa = pt[q][va].pa

(* A step of p changes at most its hand and one entry of the table it works on. *)
LEMMA CellMoves ==
  ASSUME IInv, NEW p \in Procs, NEW t \in Procs, NEW v \in VAs, OneCell(p, t, v)
  PROVE  /\ <<p, 0, "hand">> \in Spots /\ <<t, v, "pt">> \in Spots
         /\ Page(<<p, 0, "hand">>) = HandPage(p) /\ Page(<<p, 0, "hand">>)' = HandPage(p)'
         /\ Page(<<t, v, "pt">>) = pt[t][v].pa /\ Page(<<t, v, "pt">>)' = pt'[t][v].pa
         /\ \A z \in Spots : z \in {<<p, 0, "hand">>, <<t, v, "pt">>} \/ Page(z)' = Page(z)
<1>1. \A q \in Procs : q # p => /\ Given(q)' <=> Given(q)
                                /\ Entry(q)' = Entry(q) /\ HandPage(q)' = HandPage(q)
  BY SpotsStay, Zenon DEF OneCell
<1>2. \A y : GivenUp(y)' <=> GivenUp(y)
  BY <1>1, GivenStays, Zenon DEF OneCell
<1>3. ~GivenUp(<<t, v, "pt">>)
  BY NotGiven, Zenon DEF OneCell
<1>4. /\ <<p, 0, "hand">> \in Spots /\ <<t, v, "pt">> \in Spots
      /\ Page(<<p, 0, "hand">>) = HandPage(p) /\ Page(<<p, 0, "hand">>)' = HandPage(p)'
      /\ Page(<<t, v, "pt">>) = (IF GivenUp(<<t, v, "pt">>) THEN 0 ELSE pt[t][v].pa)
      /\ Page(<<t, v, "pt">>)' = (IF GivenUp(<<t, v, "pt">>)' THEN 0 ELSE pt'[t][v].pa)
  BY SpotPages, Zenon
<1> DEFINE X == {<<p, 0, "hand">>, <<t, v, "pt">>}
<1>5. /\ \A q \in Procs : <<q, 0, "hand">> \in X \/ HandPage(q)' = HandPage(q)
      /\ \A q \in Procs, va \in VAs : <<q, va, "pt">> \in X \/ pt'[q][va].pa = pt[q][va].pa
  BY <1>1, Zenon DEF OneCell
<1> HIDE DEF X
<1>6. \A y \in Spots : y \in X \/ Page(y)' = Page(y)
  BY <1>2, <1>5, PagesStay, Zenon DEF OneCell
<1> QED BY <1>2, <1>3, <1>4, <1>6, Zenon DEF X

(* An entry, read-only or copy-on-write after uvmcopy(). *)
LEMMA SharedPte ==
  ASSUME NEW e \in Ptes
  PROVE  /\ Shared(e) \in Ptes /\ Shared(e).pa = e.pa /\ (Shared(e) = NoPte <=> e = NoPte)
         /\ e # NoPte => e.pa \in Pages /\ e.perm \in {"r", "w", "cow"}
         /\ e = NoPte => e.pa = 0 /\ e.perm = "none"
         /\ e.pa \in Pages => e # NoPte
<1>1. CASE e = NoPte
  <2>1. e.perm = "none" /\ e.pa = 0 /\ 0 \notin Pages
    BY <1>1, CowAssumption DEF NoPte
  <2> QED BY <1>1, <2>1, Zenon DEF Shared, Ptes
<1>2. CASE e # NoPte
  <2>1. e \in [pa : Pages, perm : {"r", "w", "cow"}]
    BY <1>2, Zenon DEF Ptes
  <2>2. e.pa \in Pages /\ e.perm \in {"r", "w", "cow"}
    BY <2>1
  <2>3. Pte(e.pa, "cow") \in Ptes /\ Pte(e.pa, "cow").pa = e.pa
    BY <2>2 DEF Pte, Ptes
  <2>4. Pte(e.pa, "cow") # NoPte
    BY <2>2, <2>3 DEF Pte, NoPte
  <2> QED BY <1>2, <2>2, <2>3, <2>4, Zenon DEF Shared
<1> QED BY <1>1, <1>2, Zenon

(* A fresh entry. *)
LEMMA FreshPte ==
  ASSUME NEW a \in Pages, NEW m \in {"r", "w", "cow"}
  PROVE  Pte(a, m) \in Ptes /\ Pte(a, m).pa = a /\ Pte(a, m).perm = m /\ Pte(a, m) # NoPte
<1>1. Pte(a, m) \in Ptes /\ Pte(a, m).pa = a /\ Pte(a, m).perm = m
  BY DEF Pte, Ptes
<1>2. Pte(a, m) # NoPte
  BY <1>1 DEF NoPte
<1> QED BY <1>1, <1>2, Zenon

(* The entry whose page kfree() has taken is cleared: it counted for nothing. *)
LEMMA EntryCleared ==
  ASSUME IInv, NEW p \in Procs, why[p] \in Loops, NEW v \in VAs, v = at[p], UnmapClear(p),
         \A q \in Procs : q # p => Stays(p, q)
  PROVE  \A y \in Spots : Page(y)' = Page(y)
<1>1. /\ TableTypes /\ PcTypes /\ LoopTypes /\ tgt[p] \in Procs /\ pc[p] = "unmap_clear"
  BY Zenon DEF IInv, LocalTypes, LoopTypes, UnmapClear, Goto
<1>2. Given(p) /\ ~Given(p)' /\ HandPage(p)' = HandPage(p)
  <2>1. pc'[p] = "unmap"
    BY <1>1, Zenon DEF UnmapClear, Goto, PcTypes
  <2> QED BY <1>1, <2>1, Zenon DEF Given, HandPage, Counted
<1>3. \A q \in Procs : q # p => /\ Given(q)' <=> Given(q)
                                /\ Entry(q)' = Entry(q) /\ HandPage(q)' = HandPage(q)
  BY SpotsStay, Zenon
<1>4. Entry(p) \in Spots /\ Page(Entry(p)) = 0
  <2>1. GivenUp(Entry(p))
    BY <1>2, Zenon DEF GivenUp
  <2> QED BY <2>1, EntryPage, Zenon
<1>5. PICK x \in Spots : x = Entry(p) /\ Page(x) = 0
  BY <1>4, Zenon
<1>6. ASSUME NEW y, y # x PROVE GivenUp(y)' <=> GivenUp(y)
  BY <1>2, <1>3, <1>5, <1>6, Zenon DEF GivenUp
<1>7. NoPte.pa = 0
  BY DEF NoPte
<1> DEFINE X == {x}
<1>8. Page(x)' = 0 /\ \A y \in Spots : y \in X \/ Page(y)' = Page(y)
  <2>1. CASE why[p] \in {"bad", "old"}
    <3>1. x = <<p, v, "npt">>
      BY <1>5, <2>1, Zenon DEF Entry
    <3>2. npt' = [npt EXCEPT ![p][v] = NoPte] /\ pt' = pt
      BY <2>1, Zenon DEF UnmapClear
    <3>3. /\ npt'[p][v] = NoPte
          /\ \A q \in Procs, va \in VAs : (q = p /\ va = v) \/ npt'[q][va] = npt[q][va]
      BY <1>1, <3>2, Zenon DEF TableTypes
    <3>4. Page(x)' = IF GivenUp(x)' THEN 0 ELSE npt'[p][v].pa
      BY <3>1, SpotPages, Zenon
    <3>5. /\ \A q \in Procs : HandPage(q)' = HandPage(q)
          /\ \A q \in Procs, va \in VAs : <<q, va, "pt">> \in X \/
               ((GivenUp(<<q, va, "pt">>)' <=> GivenUp(<<q, va, "pt">>)) /\ pt'[q][va].pa = pt[q][va].pa)
      BY <1>2, <1>3, <1>6, <3>2, Zenon
    <3>6. \A q \in Procs, va \in VAs : <<q, va, "npt">> \in X \/
            ((GivenUp(<<q, va, "npt">>)' <=> GivenUp(<<q, va, "npt">>)) /\ npt'[q][va].pa = npt[q][va].pa)
      BY <1>6, <3>1, <3>3, Zenon
    <3> HIDE DEF X
    <3>7. \A y \in Spots : y \in X \/ Page(y)' = Page(y)
      BY <3>5, <3>6, PagesStay, Zenon
    <3> QED BY <1>7, <3>3, <3>4, <3>7, Zenon
  <2>2. CASE why[p] \notin {"bad", "old"}
    <3>1. PICK t \in Procs : t = tgt[p]
      BY <1>1, Zenon
    <3>2. x = <<t, v, "pt">>
      BY <1>5, <2>2, <3>1, Zenon DEF Entry
    <3>3. pt' = [pt EXCEPT ![t][v] = NoPte] /\ npt' = npt
      BY <2>2, <3>1, Zenon DEF UnmapClear
    <3>4. /\ pt'[t][v] = NoPte
          /\ \A q \in Procs, va \in VAs : (q = t /\ va = v) \/ pt'[q][va] = pt[q][va]
      BY <1>1, <3>3, Zenon DEF TableTypes
    <3>5. Page(x)' = IF GivenUp(x)' THEN 0 ELSE pt'[t][v].pa
      BY <3>2, SpotPages, Zenon
    <3>6. /\ \A q \in Procs : HandPage(q)' = HandPage(q)
          /\ \A q \in Procs, va \in VAs : <<q, va, "npt">> \in X \/
               ((GivenUp(<<q, va, "npt">>)' <=> GivenUp(<<q, va, "npt">>)) /\ npt'[q][va].pa = npt[q][va].pa)
      BY <1>2, <1>3, <1>6, <3>3, Zenon
    <3>7. \A q \in Procs, va \in VAs : <<q, va, "pt">> \in X \/
            ((GivenUp(<<q, va, "pt">>)' <=> GivenUp(<<q, va, "pt">>)) /\ pt'[q][va].pa = pt[q][va].pa)
      BY <1>6, <3>2, <3>4, Zenon
    <3> HIDE DEF X
    <3>8. \A y \in Spots : y \in X \/ Page(y)' = Page(y)
      BY <3>6, <3>7, PagesStay, Zenon
    <3> QED BY <1>7, <3>4, <3>5, <3>8, Zenon
  <2> QED BY <2>1, <2>2, Zenon
<1> QED BY <1>5, <1>8, Zenon

(* kexec() maps a page in its new table. *)
LEMMA NewCellMoves ==
  ASSUME IInv, NEW p \in Procs, pc[p] # "embryo", ~Given(p), ~Given(p)', HandPage(p)' = HandPage(p),
         \A q \in Procs : q # p => Stays(p, q), pt' = pt, NEW v \in VAs,
         \A q \in Procs, va \in VAs : (q = p /\ va = v) \/ npt'[q][va].pa = npt[q][va].pa
  PROVE  /\ <<p, v, "npt">> \in Spots
         /\ Page(<<p, v, "npt">>) = npt[p][v].pa /\ Page(<<p, v, "npt">>)' = npt'[p][v].pa
         /\ \A z \in Spots : z \in {<<p, v, "npt">>} \/ Page(z)' = Page(z)
<1>1. \A q \in Procs : q # p => /\ Given(q)' <=> Given(q)
                                /\ Entry(q)' = Entry(q) /\ HandPage(q)' = HandPage(q)
  BY SpotsStay, Zenon
<1>2. \A y : GivenUp(y)' <=> GivenUp(y)
  BY <1>1, GivenStays, Zenon
<1>3. ~GivenUp(<<p, v, "npt">>)
  BY NotGiven, Zenon
<1>4. /\ <<p, v, "npt">> \in Spots
      /\ Page(<<p, v, "npt">>) = (IF GivenUp(<<p, v, "npt">>) THEN 0 ELSE npt[p][v].pa)
      /\ Page(<<p, v, "npt">>)' = (IF GivenUp(<<p, v, "npt">>)' THEN 0 ELSE npt'[p][v].pa)
  BY SpotPages, Zenon
<1> DEFINE X == {<<p, v, "npt">>}
<1>5. /\ \A q \in Procs : HandPage(q)' = HandPage(q)
      /\ \A q \in Procs, va \in VAs : <<q, va, "npt">> \in X \/ npt'[q][va].pa = npt[q][va].pa
  BY <1>1, Zenon
<1> HIDE DEF X
<1>6. \A y \in Spots : y \in X \/ Page(y)' = Page(y)
  BY <1>2, <1>5, PagesStay, Zenon
<1> QED BY <1>2, <1>3, <1>4, <1>6, Zenon DEF X

(* kfree() drops a reference: of the entry that uvmunmap() is at, or of p itself. *)
LEMMA KfreeDecStep ==
  ASSUME Counting, IInv, NEW p \in Procs, KfreeDec(p)
  PROVE  IInv'
<1>1. /\ PageTypes /\ TableTypes /\ LocalTypes /\ PcTypes /\ LoopTypes /\ HandTypes
      /\ Inside(p) /\ Control(p) /\ Extent(p) /\ Targets /\ Unshared /\ Balance
  BY Zenon DEF IInv, LocalTypes
<1>2. pc[p] = "kfree" /\ held[p] \in Pages /\ pc[p] # "embryo"
  BY <1>1, Zenon DEF KfreeDec, Goto, Hold, Control
<1>3. /\ ret'[p] = ret[p] /\ sz'[p] = sz[p]
      /\ IF krefcount[held[p]] > 1 THEN pc'[p] = ret[p] /\ held'[p] = 0
         ELSE pc'[p] = "kfree_push" /\ held'[p] = held[p]
      /\ why'[p] = why[p] /\ tgt'[p] = tgt[p] /\ at'[p] = at[p] /\ hi'[p] = hi[p]
  BY <1>1, <1>2, Zenon DEF KfreeDec, Goto, Hold, PcTypes, LoopTypes, HandTypes, TableTypes, loopVars
<1>4. /\ pt' = pt /\ npt' = npt /\ freelist' = freelist /\ fails' = fails
      /\ krefcount' = [krefcount EXCEPT ![held[p]] = IF krefcount[held[p]] > 1 THEN krefcount[held[p]] - 1 ELSE 0]
  BY <1>1, Zenon DEF KfreeDec, Goto, Hold, pageVars
<1>5. \A q \in Procs : q # p => Stays(p, q)
  BY <1>1, Zenon DEF KfreeDec, Goto, Hold, loopVars, Stays, PcTypes, LoopTypes, HandTypes, TableTypes
<1>6. PageTypes' /\ TableTypes' /\ LocalTypes'
  <2>1. PageTypes'
    <3>1. (IF krefcount[held[p]] > 1 THEN krefcount[held[p]] - 1 ELSE 0) \in Nat
      <4>1. krefcount[held[p]] \in Nat
        BY <1>1, <1>2, Zenon DEF PageTypes
      <4> QED BY <4>1
    <3> QED BY <1>1, <1>4, <3>1, Zenon DEF KfreeDec, PageTypes
  <2>2. TableTypes'
    BY <1>1, Zenon DEF KfreeDec, Goto, Hold, TableTypes
  <2>3. PcTypes'
    BY <1>1, Zenon DEF KfreeDec, Goto, Hold, PcTypes, Locations
  <2>4. LoopTypes'
    BY <1>1, Zenon DEF KfreeDec, Goto, Hold, loopVars, LoopTypes, Loops
  <2>5. HandTypes'
    BY <1>1, Zenon DEF KfreeDec, Goto, Hold, HandTypes
  <2> QED BY <2>1, <2>2, <2>3, <2>4, <2>5, Zenon DEF LocalTypes
<1>7. Inside(p)'
  BY <1>1, <1>2, <1>3, <1>4, Zenon DEF Inside, PcTypes
<1>8. Control(p)'
  BY <1>1, <1>2, <1>3, <1>4, Zenon DEF Control, Freeing, Loops, Table, PcTypes
<1>9. Extent(p)'
  BY <1>1, <1>2, <1>3, <1>4, Zenon DEF Extent, Table
<1>10. IF OnChild(p)' THEN OnChild(p) /\ tgt'[p] = tgt[p] ELSE tgt'[p] = p
  BY <1>1, <1>2, <1>3, Zenon DEF OnChild, Targets, Loops
<1>11. \A q \in Procs : q # p => /\ Given(q)' <=> Given(q)
                                 /\ Entry(q)' = Entry(q) /\ HandPage(q)' = HandPage(q)
                                 /\ (Raw(q)' <=> Raw(q)) /\ held'[q] = held[q]
  BY <1>5, SpotsStay, Zenon DEF Stays
<1>12. PICK x \in Spots : /\ Page(x) = held[p] /\ Page(x)' = 0
                         /\ \A y \in Spots : y \in {x} \/ Page(y)' = Page(y)
  <2>1. CASE Freeing(p)
    <3>1. /\ ret[p] = "unmap_clear" /\ why[p] \in Loops /\ at[p] \in 1..hi[p]
          /\ held[p] = Table(p)[at[p]].pa
      BY <1>1, <1>2, <2>1, Zenon DEF Control, Freeing
    <3>2. at[p] \in VAs
      BY <1>1, <3>1, CowAssumption DEF LoopTypes, VAs
    <3>3. ~Given(p) /\ Given(p)' /\ Entry(p)' = Entry(p) /\ HandPage(p)' = HandPage(p)
      BY <1>2, <1>3, <3>1, Zenon DEF Given, Entry, HandPage, Counted
    <3>4. Entry(p) \in Spots /\ Page(Entry(p)) = held[p]
      BY <3>1, <3>2, <3>3, EntryPage, Zenon
    <3>5. PICK x \in Spots : x = Entry(p) /\ Page(x) = held[p]
      BY <3>4, Zenon
    <3>6. x[3] # "hand"
      BY <3>5 DEF Entry
    <3> QED BY <1>4, <1>5, <3>3, <3>5, <3>6, EntryMoves, Zenon
  <2>2. CASE ~Freeing(p)
    <3>1. /\ Given(p)' <=> Given(p)
          /\ Entry(p)' = Entry(p) /\ HandPage(p) = held[p] /\ HandPage(p)' = 0
      BY <1>1, <1>2, <1>3, <2>2, Zenon DEF Given, Entry, HandPage, Counted, Freeing, PcTypes
    <3> QED BY <1>4, <1>5, <3>1, HandMoves, Zenon
  <2> QED BY <2>1, <2>2, Zenon
<1>15. /\ krefcount[held[p]] \in Nat /\ krefcount[held[p]] >= 1 /\ held[p] \notin freelist
       /\ \A q \in Procs : Raw(q) => held[q] # held[p]
  BY <1>2, <1>12, InUse, Zenon
<1>16. (IF krefcount[held[p]] > 1 THEN krefcount[held[p]] - 1 ELSE 0) = krefcount[held[p]] - 1
  BY <1>15
<1>17. krefcount' = [krefcount EXCEPT ![held[p]] = krefcount[held[p]] - 1]
  BY <1>4, <1>16, Zenon
<1>13. Balance'
  BY <1>2, <1>4, <1>12, <1>17, LoseRef, Zenon
<1>14. Unshared'
  <2>1. \A pa \in Pages : pa # held[p] => krefcount'[pa] = krefcount[pa]
    BY <1>1, <1>4, Zenon DEF PageTypes
  <2>2. CASE krefcount[held[p]] > 1
    <3>1. ~Raw(p)'
      BY <1>1, <1>3, <2>2, Zenon DEF Raw, PcTypes
    <3> QED BY <1>2, <1>4, <1>11, <1>15, <2>1, <3>1, RefTaken, Zenon
  <2>3. CASE ~(krefcount[held[p]] > 1)
    <3>1. held'[p] = held[p] /\ krefcount'[held[p]] = 0
      BY <1>1, <1>2, <1>3, <1>4, <2>3, Zenon DEF PageTypes
    <3>2. /\ \A q \in Procs : Raw(q) => held[q] \in Pages
          /\ freelist \subseteq Pages
      BY Zenon DEF IInv, PageTypes, Control, Raw
    <3>3. /\ \A q \in Procs : Raw(q) => held[q] \notin freelist /\ krefcount[held[q]] = 0
          /\ \A pa \in freelist : krefcount[pa] = 0
      BY <1>1, Zenon DEF Unshared
    <3>4. \A pa \in freelist' : krefcount'[pa] = 0
      BY <1>4, <1>15, <2>1, <3>2, <3>3, Zenon
    <3>5. \A q \in Procs : q # p /\ Raw(q) => held[q] \notin freelist' /\ krefcount'[held[q]] = 0
      BY <1>4, <1>15, <2>1, <3>2, <3>3, Zenon
    <3> QED BY <1>1, <1>4, <1>11, <1>15, <3>1, <3>4, <3>5, UnsharedKeeps, Zenon
  <2> QED BY <2>2, <2>3, Zenon
<1> QED BY <1>2, <1>5, <1>6, <1>7, <1>8, <1>9, <1>10, <1>13, <1>14, StepKeeps, Zenon

(* kfree() pushes the page on the free list. *)
LEMMA KfreePushStep ==
  ASSUME IInv, NEW p \in Procs, KfreePush(p)
  PROVE  IInv'
<1>1. /\ PageTypes /\ TableTypes /\ LocalTypes /\ PcTypes /\ LoopTypes /\ HandTypes
      /\ Inside(p) /\ Control(p) /\ Extent(p) /\ Targets /\ Unshared /\ Balance
  BY Zenon DEF IInv, LocalTypes
<1>2. pc[p] = "kfree_push" /\ held[p] \in Pages /\ pc[p] # "embryo"
  BY <1>1, Zenon DEF KfreePush, Goto, Hold, Control
<1>3. pc'[p] = ret[p] /\ ret'[p] = ret[p] /\ held'[p] = 0 /\ sz'[p] = sz[p]
      /\ why'[p] = why[p] /\ tgt'[p] = tgt[p] /\ at'[p] = at[p] /\ hi'[p] = hi[p]
  BY <1>1, <1>2, Zenon DEF KfreePush, Goto, Hold, PcTypes, LoopTypes, HandTypes, TableTypes, loopVars
<1>4. /\ pt' = pt /\ npt' = npt /\ krefcount' = krefcount /\ fails' = fails
      /\ freelist' = freelist \cup {held[p]}
  BY <1>1, Zenon DEF KfreePush, Goto, Hold, pageVars
<1>5. \A q \in Procs : q # p => Stays(p, q)
  BY <1>1, Zenon DEF KfreePush, Goto, Hold, loopVars, Stays, PcTypes, LoopTypes, HandTypes, TableTypes
<1>6. PageTypes' /\ TableTypes' /\ LocalTypes'
  <2>1. PageTypes'
    <3>1. Junk \in 0..3 /\ 1 \in Nat
      BY DEF Junk
    <3> QED BY <1>1, <1>2, <3>1, Zenon DEF KfreePush, PageTypes
  <2>2. TableTypes'
    BY <1>1, Zenon DEF KfreePush, Goto, Hold, TableTypes
  <2>3. PcTypes'
    BY <1>1, Zenon DEF KfreePush, Goto, Hold, PcTypes, Locations
  <2>4. LoopTypes'
    BY <1>1, Zenon DEF KfreePush, Goto, Hold, loopVars, LoopTypes, Loops
  <2>5. HandTypes'
    BY <1>1, Zenon DEF KfreePush, Goto, Hold, HandTypes
  <2> QED BY <2>1, <2>2, <2>3, <2>4, <2>5, Zenon DEF LocalTypes
<1>7. Inside(p)'
  BY <1>1, <1>2, <1>3, <1>4, Zenon DEF Inside, PcTypes
<1>8. Control(p)'
  BY <1>1, <1>2, <1>3, <1>4, Zenon DEF Control, Freeing, Loops, Table, PcTypes
<1>9. Extent(p)'
  BY <1>1, <1>2, <1>3, <1>4, Zenon DEF Extent, Table
<1>10. IF OnChild(p)' THEN OnChild(p) /\ tgt'[p] = tgt[p] ELSE tgt'[p] = p
  BY <1>1, <1>2, <1>3, Zenon DEF OnChild, Targets, Loops
<1>11. \A q \in Procs : q # p => /\ Given(q)' <=> Given(q)
                                 /\ Entry(q)' = Entry(q) /\ HandPage(q)' = HandPage(q)
                                 /\ (Raw(q)' <=> Raw(q)) /\ held'[q] = held[q]
  BY <1>5, SpotsStay, Zenon DEF Stays
<1>12. /\ Given(p)' <=> Given(p)
       /\ Entry(p)' = Entry(p) /\ HandPage(p)' = HandPage(p) /\ ~Raw(p)' /\ Raw(p)
  BY <1>1, <1>2, <1>3, Zenon DEF Given, Entry, HandPage, Counted, Raw, PcTypes
<1>13. Balance'
  BY <1>1, <1>4, <1>11, <1>12, QuietPages, Zenon
<1>14. Unshared'
  BY <1>1, <1>4, <1>11, <1>12, Zenon DEF Unshared
<1> QED BY <1>2, <1>5, <1>6, <1>7, <1>8, <1>9, <1>10, <1>13, <1>14, StepKeeps, Zenon

(* vmfault() takes a page off the free list. *)
LEMMA FaultAllocStep ==
  ASSUME IInv, NEW p \in Procs, NEW va \in VAs, FaultAlloc(p, va)
  PROVE  IInv'
<1>1. /\ PageTypes /\ TableTypes /\ LocalTypes /\ PcTypes /\ LoopTypes /\ HandTypes
      /\ Inside(p) /\ Control(p) /\ Extent(p) /\ Targets /\ Unshared /\ Balance
  BY Zenon DEF IInv, LocalTypes
<1>2. pc[p] = "user" /\ why[p] = "none" /\ pc[p] # "embryo"
      /\ va \in 1..sz[p] /\ pt[p][va].perm \in {"none", "cow"}
  <2>1. pc[p] = "user" /\ why[p] = "none" /\ va <= sz[p] /\ pt[p][va].perm \in {"none", "cow"}
    BY <1>1, Zenon DEF FaultAlloc, Goto, Control
  <2>2. va \in Nat /\ va >= 1 /\ sz[p] \in Nat
    BY <1>1 DEF VAs, TableTypes
  <2> QED BY <2>1, <2>2
<1>3. /\ pc'[p] = "fault_fill" /\ ret'[p] = ret[p] /\ held'[p] \in freelist /\ sz'[p] = sz[p]
      /\ why'[p] = "none" /\ tgt'[p] = tgt[p] /\ at'[p] = va /\ hi'[p] = hi[p]
  BY <1>1, <1>2, Zenon DEF FaultAlloc, Goto, Hold, PcTypes, LoopTypes, HandTypes, TableTypes
<1>4. /\ pt' = pt /\ npt' = npt /\ krefcount' = krefcount /\ fails' = fails
      /\ freelist' = freelist \ {held'[p]}
  BY <1>1, Zenon DEF FaultAlloc, Goto, Hold, pageVars, HandTypes
<1>5. \A q \in Procs : q # p => Stays(p, q)
  BY <1>1, Zenon DEF FaultAlloc, Goto, Hold, loopVars, Stays, PcTypes, LoopTypes, HandTypes, TableTypes
<1>6. PageTypes' /\ TableTypes' /\ LocalTypes'
  <2>1. PageTypes'
    BY <1>1, Zenon DEF FaultAlloc, Goto, Hold, pageVars, PageTypes
  <2>2. TableTypes'
    BY <1>1, Zenon DEF FaultAlloc, Goto, Hold, TableTypes
  <2>3. PcTypes'
    BY <1>1, Zenon DEF FaultAlloc, Goto, Hold, PcTypes, Locations
  <2>4. LoopTypes'
    <3>1. va \in Nat
      BY DEF VAs
    <3> QED BY <1>1, <3>1, Zenon DEF FaultAlloc, LoopTypes
  <2>5. HandTypes'
    BY <1>1, Zenon DEF FaultAlloc, Goto, Hold, HandTypes, PageTypes
  <2> QED BY <2>1, <2>2, <2>3, <2>4, <2>5, Zenon DEF LocalTypes
<1>7. Inside(p)'
  BY <1>1, <1>2, <1>3, <1>4, Zenon DEF Inside
<1>8. Control(p)'
  BY <1>1, <1>2, <1>3, <1>4, Zenon DEF Control, Freeing, Loops, PageTypes
<1>9. Extent(p)'
  BY <1>1, <1>2, <1>3, <1>4, Zenon DEF Extent, Loops
<1>10. IF OnChild(p)' THEN OnChild(p) /\ tgt'[p] = tgt[p] ELSE tgt'[p] = p
  BY <1>1, <1>2, <1>3, Zenon DEF OnChild, Targets, Loops
<1>11. \A q \in Procs : q # p => /\ Given(q)' <=> Given(q)
                                 /\ Entry(q)' = Entry(q) /\ HandPage(q)' = HandPage(q)
                                 /\ (Raw(q)' <=> Raw(q)) /\ held'[q] = held[q]
  BY <1>5, SpotsStay, Zenon DEF Stays
<1>12. /\ Given(p)' <=> Given(p)
       /\ ~Given(p) /\ HandPage(p)' = HandPage(p) /\ Raw(p)'
  BY <1>1, <1>2, <1>3, Zenon DEF Given, Entry, HandPage, Counted, Raw
<1>13. Balance'
  BY <1>1, <1>4, <1>11, <1>12, QuietPages, Zenon
<1>14. Unshared'
  <2>1. \A q \in Procs : Raw(q) => held[q] \notin freelist /\ krefcount[held[q]] = 0
    BY <1>1, Zenon DEF Unshared
  <2>2. \A pa \in freelist : krefcount[pa] = 0
    BY <1>1, Zenon DEF Unshared
  <2> QED BY <1>1, <1>3, <1>4, <1>11, <2>1, <2>2, UnsharedKeeps, Zenon
<1> QED BY <1>2, <1>5, <1>6, <1>7, <1>8, <1>9, <1>10, <1>13, <1>14, StepKeeps, Zenon

(* vmfault() counts and clears its page. *)
LEMMA FaultFillStep ==
  ASSUME Counting, IInv, NEW p \in Procs, FaultFill(p)
  PROVE  IInv'
<1>1. /\ PageTypes /\ TableTypes /\ LocalTypes /\ PcTypes /\ LoopTypes /\ HandTypes
      /\ Inside(p) /\ Control(p) /\ Extent(p) /\ Targets /\ Unshared /\ Balance
  BY Zenon DEF IInv, LocalTypes
<1>2. pc[p] = "fault_fill" /\ why[p] = "none" /\ pc[p] # "embryo" /\ held[p] \in Pages /\ Raw(p)
  BY <1>1, Zenon DEF FaultFill, Goto, Control, Raw
<1>3. /\ pc'[p] = "fault_copy" /\ ret'[p] = ret[p] /\ held'[p] = held[p] /\ sz'[p] = sz[p]
      /\ why'[p] = why[p] /\ tgt'[p] = tgt[p] /\ at'[p] = at[p] /\ hi'[p] = hi[p]
  BY <1>1, <1>2, Zenon DEF FaultFill, Goto, PcTypes, LoopTypes, HandTypes, TableTypes, loopVars
<1>4. /\ pt' = pt /\ npt' = npt /\ freelist' = freelist /\ fails' = fails
      /\ krefcount' = [krefcount EXCEPT ![held[p]] = 1]
  BY <1>1, Zenon DEF FaultFill, Goto, pageVars
<1>5. \A q \in Procs : q # p => Stays(p, q)
  BY <1>1, Zenon DEF FaultFill, Goto, loopVars, Stays, PcTypes, LoopTypes, HandTypes, TableTypes
<1>6. PageTypes' /\ TableTypes' /\ LocalTypes'
  <2>1. PageTypes'
    <3>1. 0 \in 0..3 /\ 1 \in Nat
      OBVIOUS
    <3> QED BY <1>1, <1>2, <3>1, Zenon DEF FaultFill, PageTypes
  <2>2. TableTypes'
    BY <1>1, Zenon DEF FaultFill, Goto, TableTypes
  <2>3. PcTypes'
    BY <1>1, Zenon DEF FaultFill, Goto, PcTypes, Locations
  <2>4. LoopTypes'
    BY <1>1, Zenon DEF FaultFill, Goto, loopVars, LoopTypes, Loops
  <2>5. HandTypes'
    BY <1>1, Zenon DEF FaultFill, Goto, HandTypes
  <2> QED BY <2>1, <2>2, <2>3, <2>4, <2>5, Zenon DEF LocalTypes
<1>7. Inside(p)'
  BY <1>1, <1>2, <1>3, <1>4, Zenon DEF Inside
<1>8. Control(p)'
  BY <1>1, <1>2, <1>3, <1>4, Zenon DEF Control, Freeing, Loops
<1>9. Extent(p)'
  BY <1>1, <1>2, <1>3, <1>4, Zenon DEF Extent, Loops
<1>10. IF OnChild(p)' THEN OnChild(p) /\ tgt'[p] = tgt[p] ELSE tgt'[p] = p
  BY <1>1, <1>2, <1>3, Zenon DEF OnChild, Targets, Loops
<1>11. \A q \in Procs : q # p => /\ Given(q)' <=> Given(q)
                                 /\ Entry(q)' = Entry(q) /\ HandPage(q)' = HandPage(q)
                                 /\ (Raw(q)' <=> Raw(q)) /\ held'[q] = held[q]
  BY <1>5, SpotsStay, Zenon DEF Stays
<1>12. /\ Given(p)' <=> Given(p)
       /\ Entry(p)' = Entry(p) /\ HandPage(p) = 0 /\ HandPage(p)' = held[p] /\ ~Raw(p)'
  BY <1>1, <1>2, <1>3, Zenon DEF Given, Entry, HandPage, Counted, Raw
<1>13. Balance'
  <2>1. krefcount[held[p]] + 1 = 1
    <3>1. krefcount[held[p]] = 0
      BY <1>1, <1>2, Zenon DEF Unshared
    <3> QED BY <3>1
  <2> QED BY <1>2, <1>4, <1>5, <1>12, <2>1, HandMoves, GainRef, Zenon
<1>14. Unshared'
  <2>1. held[p] \notin freelist /\ \A q \in Procs : q # p /\ Raw(q) => held[q] # held[p]
    BY <1>1, <1>2, Zenon DEF Unshared
  <2>2. \A pa \in Pages : pa # held[p] => krefcount'[pa] = krefcount[pa]
    BY <1>1, <1>4, Zenon DEF PageTypes
  <2> QED BY <1>2, <1>4, <1>11, <1>12, <2>1, <2>2, RefTaken, Zenon
<1> QED BY <1>2, <1>5, <1>6, <1>7, <1>8, <1>9, <1>10, <1>13, <1>14, StepKeeps, Zenon

(* vmfault() maps its copy and gives the shared page to kfree(). *)
LEMMA FaultCopyStep ==
  ASSUME Counting, IInv, NEW p \in Procs, FaultCopy(p)
  PROVE  IInv'
<1>1. /\ PageTypes /\ TableTypes /\ LocalTypes /\ PcTypes /\ LoopTypes /\ HandTypes
      /\ Inside(p) /\ Control(p) /\ Extent(p) /\ Targets /\ Unshared /\ Balance
  BY Zenon DEF IInv, LocalTypes
<1>2. /\ pc[p] = "fault_copy" /\ why[p] = "none" /\ held[p] \in Pages /\ at[p] \in 1..sz[p]
      /\ at[p] \in VAs /\ pc[p] # "embryo" /\ pt[p][at[p]].pa \in Pages
  <2>1. pc[p] = "fault_copy" /\ why[p] = "none" /\ held[p] \in Pages /\ at[p] \in 1..sz[p]
        /\ pt[p][at[p]].perm = "cow"
    BY <1>1, Zenon DEF FaultCopy, Goto, Control
  <2>2. at[p] \in VAs
    <3>1. sz[p] \in 0..NVA
      BY <1>1, Zenon DEF TableTypes
    <3> QED BY <2>1, <3>1, CowAssumption DEF VAs
  <2>3. pt[p][at[p]] \in Ptes
    BY <1>1, <2>2, Zenon DEF TableTypes
  <2>4. pt[p][at[p]].pa \in Pages
    BY <2>1, <2>3, SharedPte
  <2> QED BY <2>1, <2>2, <2>4, Zenon
<1>3. /\ pc'[p] = "kfree" /\ ret'[p] = "user" /\ held'[p] = pt[p][at[p]].pa /\ sz'[p] = sz[p]
      /\ why'[p] = "none" /\ tgt'[p] = tgt[p] /\ at'[p] = 0 /\ hi'[p] = hi[p]
  BY <1>1, <1>2, Zenon DEF FaultCopy, Goto, Hold, PcTypes, LoopTypes, HandTypes, TableTypes
<1>4. /\ npt' = npt /\ krefcount' = krefcount /\ freelist' = freelist /\ fails' = fails
      /\ pt' = [pt EXCEPT ![p][at[p]] = Pte(held[p], "w")]
  BY <1>1, Zenon DEF FaultCopy, Goto, Hold, pageVars
<1>5. \A q \in Procs : q # p => Stays(p, q)
  BY <1>1, Zenon DEF FaultCopy, Goto, Hold, loopVars, Stays, PcTypes, LoopTypes, HandTypes, TableTypes
<1>6. PageTypes' /\ TableTypes' /\ LocalTypes'
  <2>1. PageTypes'
    <3>1. data[pt[p][at[p]].pa] \in 0..3
      BY <1>1, <1>2, Zenon DEF PageTypes
    <3> QED BY <1>1, <1>2, <3>1, Zenon DEF FaultCopy, PageTypes
  <2>2. TableTypes'
    <3>1. Pte(held[p], "w") \in Ptes
      BY <1>2, FreshPte
    <3> QED BY <1>1, <1>2, <3>1, Zenon DEF FaultCopy, TableTypes
  <2>3. PcTypes'
    BY <1>1, Zenon DEF FaultCopy, Goto, Hold, PcTypes, Locations
  <2>4. LoopTypes'
    BY <1>1, Zenon DEF FaultCopy, Goto, Hold, loopVars, LoopTypes, Loops
  <2>5. HandTypes'
    BY <1>1, <1>2, Zenon DEF FaultCopy, Hold, HandTypes
  <2> QED BY <2>1, <2>2, <2>3, <2>4, <2>5, Zenon DEF LocalTypes
<1>7. Inside(p)'
  <2>1. /\ \A va \in VAs : va # at[p] => pt'[p][va] = pt[p][va]
        /\ pc[p] # "embryo" /\ at[p] <= sz[p]
    BY <1>1, <1>2, <1>4 DEF TableTypes
  <2> QED BY <1>1, <1>2, <1>3, <1>4, <2>1, Zenon DEF Inside
<1>8. Control(p)'
  BY <1>1, <1>2, <1>3, <1>4, Zenon DEF Control, Freeing, Loops
<1>9. Extent(p)'
  BY <1>1, <1>2, <1>3, <1>4, Zenon DEF Extent, Loops
<1>10. IF OnChild(p)' THEN OnChild(p) /\ tgt'[p] = tgt[p] ELSE tgt'[p] = p
  BY <1>1, <1>2, <1>3, Zenon DEF OnChild, Targets, Loops
<1>11. \A q \in Procs : q # p => /\ Given(q)' <=> Given(q)
                                 /\ Entry(q)' = Entry(q) /\ HandPage(q)' = HandPage(q)
                                 /\ (Raw(q)' <=> Raw(q)) /\ held'[q] = held[q]
  BY <1>5, SpotsStay, Zenon DEF Stays
<1>12. /\ ~Given(p) /\ ~Given(p)'
       /\ HandPage(p) = held[p] /\ HandPage(p)' = pt[p][at[p]].pa /\ ~Raw(p)' /\ ~Raw(p)
  BY <1>1, <1>2, <1>3, Zenon DEF Given, HandPage, Counted, Raw
<1>13. Balance'
  <2>1. PICK v \in VAs : v = at[p]
    BY <1>2, Zenon
  <2>2. \A q \in Procs, va \in VAs : (q = p /\ va = v) \/ pt'[q][va].pa = pt[q][va].pa
    BY <1>1, <1>4, <2>1, Zenon DEF TableTypes
  <2>3. pt'[p][v].pa = held[p] /\ pt[p][v].pa = pt[p][at[p]].pa
    <3>1. pt'[p][v] = Pte(held[p], "w")
      BY <1>1, <1>4, <2>1, Zenon DEF TableTypes
    <3>2. Pte(held[p], "w").pa = held[p]
      BY <1>2, FreshPte
    <3> QED BY <1>2, <2>1, <3>1, <3>2, Zenon
  <2>4. /\ <<p, 0, "hand">> \in Spots /\ <<p, v, "pt">> \in Spots
        /\ Page(<<p, 0, "hand">>) = HandPage(p) /\ Page(<<p, 0, "hand">>)' = HandPage(p)'
        /\ Page(<<p, v, "pt">>) = pt[p][v].pa /\ Page(<<p, v, "pt">>)' = pt'[p][v].pa
        /\ \A z \in Spots : z \in {<<p, 0, "hand">>, <<p, v, "pt">>} \/ Page(z)' = Page(z)
    <3>1. OneCell(p, p, v)
      BY <1>2, <1>4, <1>5, <1>12, <2>2, Zenon DEF OneCell
    <3> QED BY <3>1, CellMoves, Zenon
  <2> QED BY <1>1, <1>4, <1>12, <2>3, <2>4, Swapped, Zenon
<1>14. Unshared'
  <2>1. /\ \A q \in Procs : Raw(q) => held[q] \notin freelist /\ krefcount[held[q]] = 0
        /\ \A pa \in freelist : krefcount[pa] = 0
    BY <1>1, Zenon DEF Unshared
  <2> QED BY <1>1, <1>4, <1>11, <1>12, <2>1, UnsharedKeeps, Zenon
<1> QED BY <1>2, <1>5, <1>6, <1>7, <1>8, <1>9, <1>10, <1>13, <1>14, StepKeeps, Zenon

(* vmfault() maps a page where there was none. *)
LEMMA FaultLazyStep ==
  ASSUME Counting, IInv, NEW p \in Procs, FaultLazy(p)
  PROVE  IInv'
<1>1. /\ PageTypes /\ TableTypes /\ LocalTypes /\ PcTypes /\ LoopTypes /\ HandTypes
      /\ Inside(p) /\ Control(p) /\ Extent(p) /\ Targets /\ Unshared /\ Balance
  BY Zenon DEF IInv, LocalTypes
<1>2. /\ pc[p] = "fault_copy" /\ why[p] = "none" /\ held[p] \in Pages /\ at[p] \in 1..sz[p]
      /\ at[p] \in VAs /\ pc[p] # "embryo" /\ pt[p][at[p]].pa = 0
  <2>1. pc[p] = "fault_copy" /\ why[p] = "none" /\ held[p] \in Pages /\ at[p] \in 1..sz[p]
        /\ pt[p][at[p]].perm = "none"
    BY <1>1, Zenon DEF FaultLazy, Goto, Control
  <2>2. at[p] \in VAs
    <3>1. sz[p] \in 0..NVA
      BY <1>1, Zenon DEF TableTypes
    <3> QED BY <2>1, <3>1, CowAssumption DEF VAs
  <2>3. pt[p][at[p]] \in Ptes
    BY <1>1, <2>2, Zenon DEF TableTypes
  <2>4. pt[p][at[p]].pa = 0
    BY <2>1, <2>3, SharedPte
  <2> QED BY <2>1, <2>2, <2>4, Zenon
<1>3. /\ pc'[p] = "user" /\ ret'[p] = ret[p] /\ held'[p] = 0 /\ sz'[p] = sz[p]
      /\ why'[p] = "none" /\ tgt'[p] = tgt[p] /\ at'[p] = 0 /\ hi'[p] = hi[p]
  BY <1>1, <1>2, Zenon DEF FaultLazy, Goto, Hold, PcTypes, LoopTypes, HandTypes, TableTypes
<1>4. /\ npt' = npt /\ krefcount' = krefcount /\ freelist' = freelist /\ fails' = fails
      /\ pt' = [pt EXCEPT ![p][at[p]] = Pte(held[p], "w")]
  BY <1>1, Zenon DEF FaultLazy, Goto, Hold, pageVars
<1>5. \A q \in Procs : q # p => Stays(p, q)
  BY <1>1, Zenon DEF FaultLazy, Goto, Hold, loopVars, Stays, PcTypes, LoopTypes, HandTypes, TableTypes
<1>6. PageTypes' /\ TableTypes' /\ LocalTypes'
  <2>1. PageTypes'
    BY <1>1, Zenon DEF FaultLazy, Goto, Hold, pageVars, PageTypes
  <2>2. TableTypes'
    <3>1. Pte(held[p], "w") \in Ptes
      BY <1>2, FreshPte
    <3> QED BY <1>1, <1>2, <3>1, Zenon DEF FaultLazy, TableTypes
  <2>3. PcTypes'
    BY <1>1, Zenon DEF FaultLazy, Goto, Hold, PcTypes, Locations
  <2>4. LoopTypes'
    BY <1>1, Zenon DEF FaultLazy, Goto, Hold, loopVars, LoopTypes, Loops
  <2>5. HandTypes'
    BY <1>1, Zenon DEF FaultLazy, Goto, Hold, HandTypes
  <2> QED BY <2>1, <2>2, <2>3, <2>4, <2>5, Zenon DEF LocalTypes
<1>7. Inside(p)'
  <2>1. /\ \A va \in VAs : va # at[p] => pt'[p][va] = pt[p][va]
        /\ pc[p] # "embryo" /\ at[p] <= sz[p]
    BY <1>1, <1>2, <1>4 DEF TableTypes
  <2> QED BY <1>1, <1>2, <1>3, <1>4, <2>1, Zenon DEF Inside
<1>8. Control(p)'
  BY <1>1, <1>2, <1>3, <1>4, Zenon DEF Control, Freeing, Loops
<1>9. Extent(p)'
  BY <1>1, <1>2, <1>3, <1>4, Zenon DEF Extent, Loops
<1>10. IF OnChild(p)' THEN OnChild(p) /\ tgt'[p] = tgt[p] ELSE tgt'[p] = p
  BY <1>1, <1>2, <1>3, Zenon DEF OnChild, Targets, Loops
<1>11. \A q \in Procs : q # p => /\ Given(q)' <=> Given(q)
                                 /\ Entry(q)' = Entry(q) /\ HandPage(q)' = HandPage(q)
                                 /\ (Raw(q)' <=> Raw(q)) /\ held'[q] = held[q]
  BY <1>5, SpotsStay, Zenon DEF Stays
<1>12. /\ ~Given(p) /\ ~Given(p)'
       /\ HandPage(p) = held[p] /\ HandPage(p)' = 0 /\ ~Raw(p)' /\ ~Raw(p)
  BY <1>1, <1>2, <1>3, Zenon DEF Given, HandPage, Counted, Raw
<1>13. Balance'
  <2>1. PICK v \in VAs : v = at[p]
    BY <1>2, Zenon
  <2>2. \A q \in Procs, va \in VAs : (q = p /\ va = v) \/ pt'[q][va].pa = pt[q][va].pa
    BY <1>1, <1>4, <2>1, Zenon DEF TableTypes
  <2>3. pt'[p][v].pa = held[p] /\ pt[p][v].pa = 0
    <3>1. pt'[p][v] = Pte(held[p], "w")
      BY <1>1, <1>4, <2>1, Zenon DEF TableTypes
    <3>2. Pte(held[p], "w").pa = held[p]
      BY <1>2, FreshPte
    <3> QED BY <1>2, <2>1, <3>1, <3>2, Zenon
  <2>4. /\ <<p, 0, "hand">> \in Spots /\ <<p, v, "pt">> \in Spots
        /\ Page(<<p, 0, "hand">>) = HandPage(p) /\ Page(<<p, 0, "hand">>)' = HandPage(p)'
        /\ Page(<<p, v, "pt">>) = pt[p][v].pa /\ Page(<<p, v, "pt">>)' = pt'[p][v].pa
        /\ \A z \in Spots : z \in {<<p, 0, "hand">>, <<p, v, "pt">>} \/ Page(z)' = Page(z)
    <3>1. OneCell(p, p, v)
      BY <1>2, <1>4, <1>5, <1>12, <2>2, Zenon DEF OneCell
    <3> QED BY <3>1, CellMoves, Zenon
  <2> QED BY <1>1, <1>4, <1>12, <2>3, <2>4, Swapped, Zenon
<1>14. Unshared'
  <2>1. /\ \A q \in Procs : Raw(q) => held[q] \notin freelist /\ krefcount[held[q]] = 0
        /\ \A pa \in freelist : krefcount[pa] = 0
    BY <1>1, Zenon DEF Unshared
  <2> QED BY <1>1, <1>4, <1>11, <1>12, <2>1, UnsharedKeeps, Zenon
<1> QED BY <1>2, <1>5, <1>6, <1>7, <1>8, <1>9, <1>10, <1>13, <1>14, StepKeeps, Zenon

(* What uvmunmap() changes when it clears an entry. *)
LEMMA EntryGone ==
  ASSUME TableTypes, LoopTypes, NEW p \in Procs, UnmapClear(p), at[p] \in VAs
  PROVE  /\ pt' \in [Procs -> [VAs -> Ptes]] /\ npt' \in [Procs -> [VAs -> Ptes]]
         /\ why[p] \in {"bad", "old"} =>
              /\ pt' = pt /\ npt'[p][at[p]] = NoPte
              /\ \A va \in VAs : va = at[p] \/ npt'[p][va] = npt[p][va]
         /\ why[p] \notin {"bad", "old"} =>
              /\ npt' = npt /\ pt'[tgt[p]][at[p]] = NoPte
              /\ \A q \in Procs, va \in VAs : (q = tgt[p] /\ va = at[p]) \/ pt'[q][va] = pt[q][va]
<1>1. /\ NoPte \in Ptes /\ tgt[p] \in Procs
      /\ pt \in [Procs -> [VAs -> Ptes]] /\ npt \in [Procs -> [VAs -> Ptes]]
  BY Zenon DEF Ptes, LoopTypes, TableTypes
<1>2. CASE why[p] \in {"bad", "old"}
  <2>1. npt' = [npt EXCEPT ![p][at[p]] = NoPte] /\ pt' = pt
    BY <1>2, Zenon DEF UnmapClear
  <2>2. /\ npt' \in [Procs -> [VAs -> Ptes]] /\ npt'[p][at[p]] = NoPte
        /\ \A q \in Procs, va \in VAs : (q = p /\ va = at[p]) \/ npt'[q][va] = npt[q][va]
    BY <1>1, <2>1, CellUpdate
  <2> QED BY <1>1, <1>2, <2>1, <2>2, Zenon
<1>3. CASE why[p] \notin {"bad", "old"}
  <2>1. pt' = [pt EXCEPT ![tgt[p]][at[p]] = NoPte] /\ npt' = npt
    BY <1>3, Zenon DEF UnmapClear
  <2>2. /\ pt' \in [Procs -> [VAs -> Ptes]] /\ pt'[tgt[p]][at[p]] = NoPte
        /\ \A q \in Procs, va \in VAs : (q = tgt[p] /\ va = at[p]) \/ pt'[q][va] = pt[q][va]
    BY <1>1, <2>1, CellUpdate
  <2> QED BY <1>1, <1>3, <2>1, <2>2, Zenon
<1> QED BY <1>2, <1>3, Zenon

(* uvmunmap() clears the entry whose page it has given to kfree(). *)
LEMMA UnmapClearStep ==
  ASSUME IInv, NEW p \in Procs, UnmapClear(p)
  PROVE  IInv'
<1>1. /\ PageTypes /\ TableTypes /\ LocalTypes /\ PcTypes /\ LoopTypes /\ HandTypes
      /\ Inside(p) /\ Control(p) /\ Extent(p) /\ Targets /\ Unshared /\ Balance
  BY Zenon DEF IInv, LocalTypes
<1>2. /\ pc[p] = "unmap_clear" /\ why[p] \in Loops /\ at[p] \in 1..hi[p]
      /\ at[p] \in VAs /\ pc[p] # "embryo"
  <2>1. pc[p] = "unmap_clear" /\ why[p] \in Loops /\ at[p] \in 1..hi[p]
    BY <1>1, Zenon DEF UnmapClear, Goto, Control
  <2>2. at[p] \in VAs
    <3>1. hi[p] \in 0..NVA
      BY <1>1, Zenon DEF LoopTypes
    <3> QED BY <2>1, <3>1, CowAssumption DEF VAs
  <2> QED BY <2>1, <2>2, Zenon
<1>3. /\ pc'[p] = "unmap" /\ at'[p] = at[p] + 1 /\ why'[p] = why[p] /\ tgt'[p] = tgt[p] /\ hi'[p] = hi[p]
      /\ ret'[p] = ret[p] /\ held'[p] = held[p] /\ sz'[p] = sz[p]
  BY <1>1, <1>2, Zenon DEF UnmapClear, Goto, PcTypes, LoopTypes, HandTypes, TableTypes
<1>4. /\ krefcount' = krefcount /\ freelist' = freelist /\ fails' = fails
      /\ IF why[p] \in {"bad", "old"} THEN npt' = [npt EXCEPT ![p][at[p]] = NoPte] /\ pt' = pt
         ELSE pt' = [pt EXCEPT ![tgt[p]][at[p]] = NoPte] /\ npt' = npt
  BY <1>1, Zenon DEF UnmapClear, Goto, pageVars
<1>5. \A q \in Procs : q # p => Stays(p, q)
  <2>1. \A q \in Procs : q # p => npt'[q] = npt[q] /\ (pt'[q] = pt[q] \/ q = tgt[p])
    BY <1>1, <1>4, Zenon DEF TableTypes, LoopTypes
  <2> QED BY <1>1, <2>1, Zenon DEF UnmapClear, Goto, Stays, PcTypes, LoopTypes
<1>6. PageTypes' /\ TableTypes' /\ LocalTypes'
  <2>1. PageTypes'
    BY <1>1, Zenon DEF UnmapClear, Goto, pageVars, PageTypes
  <2>2. TableTypes'
    <3>1. pt' \in [Procs -> [VAs -> Ptes]] /\ npt' \in [Procs -> [VAs -> Ptes]]
      BY <1>1, <1>2, EntryGone, Zenon
    <3> QED BY <1>1, <3>1, Zenon DEF TableTypes, UnmapClear
  <2>3. PcTypes'
    BY <1>1, Zenon DEF UnmapClear, Goto, PcTypes, Locations
  <2>4. LoopTypes'
    <3>1. at[p] \in Nat /\ at[p] + 1 \in Nat
      BY <1>2
    <3> QED BY <1>1, <3>1, Zenon DEF UnmapClear, LoopTypes
  <2>5. HandTypes'
    BY <1>1, Zenon DEF UnmapClear, Goto, HandTypes
  <2> QED BY <2>1, <2>2, <2>3, <2>4, <2>5, Zenon DEF LocalTypes
<1>7. Inside(p)'
  <2>1. \A va \in VAs : /\ (pt'[p][va] = pt[p][va] \/ pt'[p][va] = NoPte)
                         /\ (npt'[p][va] = npt[p][va] \/ npt'[p][va] = NoPte)
    <3>1. CASE why[p] \in {"bad", "old"}
      BY <1>1, <1>2, <3>1, EntryGone, Zenon
    <3>2. CASE why[p] \notin {"bad", "old"}
      BY <1>1, <1>2, <3>2, EntryGone, Zenon
    <3> QED BY <3>1, <3>2, Zenon
  <2> QED BY <1>1, <1>2, <1>3, <2>1, Zenon DEF Inside
<1>8. Control(p)'
  BY <1>1, <1>2, <1>3, <1>4, Zenon DEF Control, Freeing, Loops
<1>9. Extent(p)'
  <2>1. \A va \in VAs : Table(p)'[va] # NoPte => va # at[p] /\ Table(p)[va] # NoPte
    <3>1. CASE why[p] \in {"bad", "old"}
      <4>1. Table(p) = npt[p] /\ Table(p)' = npt'[p]
        BY <1>3, <3>1, Zenon DEF Table
      <4> QED BY <1>1, <1>2, <3>1, <4>1, EntryGone, Zenon
    <3>2. CASE why[p] \notin {"bad", "old"}
      <4>1. Table(p) = pt[tgt[p]] /\ Table(p)' = pt'[tgt[p]] /\ tgt[p] \in Procs
        BY <1>1, <1>3, <3>2, Zenon DEF Table, LoopTypes
      <4>2. /\ pt'[tgt[p]][at[p]] = NoPte
            /\ \A q \in Procs, va \in VAs : (q = tgt[p] /\ va = at[p]) \/ pt'[q][va] = pt[q][va]
        BY <1>1, <1>2, <3>2, EntryGone, Zenon
      <4> QED BY <4>1, <4>2, Zenon
    <3> QED BY <3>1, <3>2, Zenon
  <2>2. \A va \in VAs : Table(p)[va] # NoPte =>
          va <= hi[p] /\ (va >= at[p] \/ (why[p] = "shrink" /\ va < hi[p]))
    BY <1>1, <1>2, Zenon DEF Extent
  <2>3. at[p] \in Nat /\ at[p] >= 1 /\ \A va \in VAs : va \in Nat
    BY <1>2 DEF VAs
  <2>4. \A va \in VAs : Table(p)'[va] # NoPte =>
          va <= hi[p] /\ (va >= at[p] + 1 \/ (why[p] = "shrink" /\ va < hi[p]))
    BY <2>1, <2>2, <2>3
  <2>5. at[p] + 1 >= 1 /\ (why[p] = "shrink" => at[p] + 1 >= hi[p])
    <3>1. (why[p] = "shrink" => at[p] >= hi[p]) /\ hi[p] \in Nat
      BY <1>1, <1>2 DEF Extent, LoopTypes
    <3> QED BY <2>3, <3>1
  <2> QED BY <1>1, <1>2, <1>3, <2>4, <2>5, Zenon DEF Extent, Loops
<1>10. IF OnChild(p)' THEN OnChild(p) /\ tgt'[p] = tgt[p] ELSE tgt'[p] = p
  BY <1>1, <1>2, <1>3, Zenon DEF OnChild, Targets, Loops
<1>11. \A q \in Procs : q # p => /\ Given(q)' <=> Given(q)
                                 /\ Entry(q)' = Entry(q) /\ HandPage(q)' = HandPage(q)
                                 /\ (Raw(q)' <=> Raw(q)) /\ held'[q] = held[q]
  BY <1>5, SpotsStay, Zenon DEF Stays
<1>12. ~Raw(p)'
  BY <1>3, Zenon DEF Raw
<1>13. Balance'
  <2>1. PICK v \in VAs : v = at[p]
    BY <1>2, Zenon
  <2>2. \A y \in Spots : Page(y)' = Page(y)
    BY <1>2, <1>5, <2>1, EntryCleared, Zenon
  <2> QED BY <1>1, <1>4, <2>2, NoneMoved, Zenon
<1>14. Unshared'
  <2>1. /\ \A q \in Procs : Raw(q) => held[q] \notin freelist /\ krefcount[held[q]] = 0
        /\ \A pa \in freelist : krefcount[pa] = 0
    BY <1>1, Zenon DEF Unshared
  <2> QED BY <1>1, <1>4, <1>11, <1>12, <2>1, UnsharedKeeps, Zenon
<1> QED BY <1>2, <1>5, <1>6, <1>7, <1>8, <1>9, <1>10, <1>13, <1>14, StepKeeps, Zenon

(* uvmcopy() counts a reference to the page it is about to share. *)
LEMMA CopyRefStep ==
  ASSUME Counting, IInv, NEW p \in Procs, CopyRef(p)
  PROVE  IInv'
<1>1. /\ PageTypes /\ TableTypes /\ LocalTypes /\ PcTypes /\ LoopTypes /\ HandTypes
      /\ Inside(p) /\ Control(p) /\ Extent(p) /\ Targets /\ Unshared /\ Balance
  BY Zenon DEF IInv, LocalTypes
<1>2. /\ pc[p] = "copy" /\ why[p] = "fork" /\ at[p] \in 1..hi[p] /\ at[p] \in VAs /\ pc[p] # "embryo"
      /\ pt[p][at[p]] # NoPte /\ pt[p][at[p]].pa \in Pages
  <2>1. pc[p] = "copy" /\ why[p] = "fork" /\ at[p] <= hi[p] /\ at[p] >= 1 /\ pt[p][at[p]] # NoPte
    BY <1>1, Zenon DEF CopyRef, Control, Extent
  <2>2. at[p] \in VAs /\ at[p] \in 1..hi[p]
    <3>1. hi[p] \in 0..NVA /\ at[p] \in Nat
      BY <1>1, Zenon DEF LoopTypes
    <3> QED BY <2>1, <3>1, CowAssumption DEF VAs
  <2>3. pt[p][at[p]] \in Ptes
    BY <1>1, <2>2, Zenon DEF TableTypes
  <2>4. pt[p][at[p]].pa \in Pages
    BY <2>1, <2>3, SharedPte, Zenon
  <2> QED BY <2>1, <2>2, <2>4, Zenon
<1>3. /\ pc'[p] = "copy_map" /\ held'[p] = pt[p][at[p]].pa /\ ret'[p] = ret[p] /\ sz'[p] = sz[p]
      /\ why'[p] = why[p] /\ tgt'[p] = tgt[p] /\ at'[p] = at[p] /\ hi'[p] = hi[p]
  BY <1>1, <1>2, Zenon DEF CopyRef, Goto, Hold, PcTypes, LoopTypes, HandTypes, TableTypes, loopVars
<1>4. /\ pt' = pt /\ npt' = npt /\ freelist' = freelist /\ fails' = fails
      /\ krefcount' = [krefcount EXCEPT ![pt[p][at[p]].pa] = krefcount[pt[p][at[p]].pa] + 1]
  BY <1>1, Zenon DEF CopyRef, Goto, Hold, pageVars
<1>5. \A q \in Procs : q # p => Stays(p, q)
  BY <1>1, Zenon DEF CopyRef, Goto, Hold, loopVars, Stays, PcTypes, LoopTypes, HandTypes, TableTypes
<1>6. PageTypes' /\ TableTypes' /\ LocalTypes'
  <2>1. PageTypes'
    <3>1. krefcount[pt[p][at[p]].pa] + 1 \in Nat
      <4>1. krefcount[pt[p][at[p]].pa] \in Nat
        BY <1>1, <1>2, Zenon DEF PageTypes
      <4> QED BY <4>1
    <3> QED BY <1>1, <1>4, <3>1, Zenon DEF CopyRef, PageTypes
  <2>2. TableTypes'
    BY <1>1, Zenon DEF CopyRef, Goto, Hold, TableTypes
  <2>3. PcTypes'
    BY <1>1, Zenon DEF CopyRef, Goto, Hold, PcTypes, Locations
  <2>4. LoopTypes'
    BY <1>1, Zenon DEF CopyRef, Goto, Hold, loopVars, LoopTypes, Loops
  <2>5. HandTypes'
    BY <1>1, <1>2, Zenon DEF CopyRef, Hold, HandTypes
  <2> QED BY <2>1, <2>2, <2>3, <2>4, <2>5, Zenon DEF LocalTypes
<1>7. Inside(p)'
  BY <1>1, <1>2, <1>3, <1>4, Zenon DEF Inside
<1>8. Control(p)'
  BY <1>1, <1>2, <1>3, <1>4, Zenon DEF Control, Freeing, Loops
<1>9. Extent(p)'
  BY <1>1, <1>2, <1>3, <1>4, Zenon DEF Extent, Loops, Table
<1>10. IF OnChild(p)' THEN OnChild(p) /\ tgt'[p] = tgt[p] ELSE tgt'[p] = p
  BY <1>1, <1>2, <1>3, Zenon DEF OnChild, Targets, Loops
<1>11. \A q \in Procs : q # p => /\ Given(q)' <=> Given(q)
                                 /\ Entry(q)' = Entry(q) /\ HandPage(q)' = HandPage(q)
                                 /\ (Raw(q)' <=> Raw(q)) /\ held'[q] = held[q]
  BY <1>5, SpotsStay, Zenon DEF Stays
<1>12. /\ ~Given(p) /\ ~Given(p)' /\ ~Raw(p)'
       /\ HandPage(p) = 0 /\ HandPage(p)' = pt[p][at[p]].pa
  BY <1>2, <1>3, Zenon DEF Given, HandPage, Counted, Raw
<1>13. Balance'
  BY <1>2, <1>4, <1>5, <1>12, HandMoves, GainRef, Zenon
<1>14. Unshared'
  <2>1. PICK x \in Spots : Page(x) = pt[p][at[p]].pa
    <3>1. ~GivenUp(<<p, at[p], "pt">>)
      BY <1>2, <1>12, NotGiven, Zenon
    <3>2. /\ <<p, at[p], "pt">> \in Spots
          /\ Page(<<p, at[p], "pt">>) = IF GivenUp(<<p, at[p], "pt">>) THEN 0 ELSE pt[p][at[p]].pa
      BY <1>2, SpotPages, Zenon
    <3> QED BY <3>1, <3>2, Zenon
  <2>2. /\ pt[p][at[p]].pa \notin freelist
        /\ \A q \in Procs : Raw(q) => held[q] # pt[p][at[p]].pa
    BY <1>2, <2>1, InUse, Zenon
  <2>3. \A pa \in Pages : pa # pt[p][at[p]].pa => krefcount'[pa] = krefcount[pa]
    BY <1>1, <1>4, Zenon DEF PageTypes
  <2> QED BY <1>2, <1>4, <1>11, <1>12, <2>2, <2>3, RefTaken, Zenon
<1> QED BY <1>2, <1>5, <1>6, <1>7, <1>8, <1>9, <1>10, <1>13, <1>14, StepKeeps, Zenon

(* uvmcopy() maps a page in the child's table, and read-only in the parent's. *)
LEMMA CopyMapped ==
  ASSUME TableTypes, LoopTypes, NEW p \in Procs, CopyMap(p), at[p] \in VAs, tgt[p] # p
  PROVE  /\ pt' \in [Procs -> [VAs -> Ptes]]
         /\ pt'[p][at[p]] = Shared(pt[p][at[p]]) /\ pt'[tgt[p]][at[p]] = Shared(pt[p][at[p]])
         /\ \A q \in Procs, va \in VAs : (q \in {p, tgt[p]} /\ va = at[p]) \/ pt'[q][va] = pt[q][va]
         /\ \A q \in Procs : q \in {p, tgt[p]} \/ pt'[q] = pt[q]
<1>1. /\ pt \in [Procs -> [VAs -> Ptes]] /\ tgt[p] \in Procs
  BY Zenon DEF LoopTypes, TableTypes
<1>2. PICK v \in VAs, t \in Procs : v = at[p] /\ t = tgt[p]
  BY <1>1, Zenon
<1>3. PICK e \in Ptes : e = Shared(pt[p][v])
  <2>1. pt[p][v] \in Ptes
    BY <1>1, <1>2, Zenon
  <2> QED BY <2>1, SharedPte, Zenon
<1> DEFINE T == [pt EXCEPT ![p][v] = e]
<1>4. pt' = [T EXCEPT ![t][v] = e]
  BY <1>1, <1>2, <1>3, Zenon DEF CopyMap
<1>5. /\ T \in [Procs -> [VAs -> Ptes]] /\ T[p][v] = e
      /\ \A q \in Procs, va \in VAs : (q = p /\ va = v) \/ T[q][va] = pt[q][va]
  BY <1>1, CellUpdate
<1>6. \A q \in Procs : q = p \/ T[q] = pt[q]
  BY <1>1, Zenon
<1> HIDE DEF T
<1>7. /\ pt' \in [Procs -> [VAs -> Ptes]] /\ pt'[t][v] = e
      /\ \A q \in Procs, va \in VAs : (q = t /\ va = v) \/ pt'[q][va] = T[q][va]
  BY <1>4, <1>5, CellUpdate
<1>8. \A q \in Procs : q = t \/ pt'[q] = T[q]
  BY <1>4, <1>5, Zenon
<1>9. /\ pt'[p][v] = e
      /\ \A q \in Procs, va \in VAs : (q \in {p, t} /\ va = v) \/ pt'[q][va] = pt[q][va]
      /\ \A q \in Procs : q \in {p, t} \/ pt'[q] = pt[q]
  <2>1. pt'[p][v] = e
    BY <1>2, <1>5, <1>7, Zenon
  <2>2. ASSUME NEW q \in Procs, NEW va \in VAs
        PROVE  (q \in {p, t} /\ va = v) \/ pt'[q][va] = pt[q][va]
    BY <1>5, <1>7, Zenon
  <2>3. ASSUME NEW q \in Procs PROVE q \in {p, t} \/ pt'[q] = pt[q]
    BY <1>6, <1>8, Zenon
  <2> QED BY <2>1, <2>2, <2>3, Zenon
<1> QED BY <1>2, <1>3, <1>7, <1>9, Zenon

(* uvmcopy() maps the page it has counted in the child's table. *)
LEMMA CopyMapStep ==
  ASSUME Counting, IInv, NEW p \in Procs, CopyMap(p)
  PROVE  IInv'
<1>1. /\ PageTypes /\ TableTypes /\ LocalTypes /\ PcTypes /\ LoopTypes /\ HandTypes
      /\ Inside(p) /\ Control(p) /\ Extent(p) /\ Targets /\ Unshared /\ Balance
  BY Zenon DEF IInv, LocalTypes
<1>2. /\ pc[p] = "copy_map" /\ why[p] = "fork" /\ at[p] \in 1..hi[p] /\ at[p] \in VAs /\ pc[p] # "embryo"
      /\ held[p] \in Pages /\ held[p] = pt[p][at[p]].pa /\ pt[p][at[p]] \in Ptes
      /\ tgt[p] # p /\ tgt[p] \in Procs
  <2>1. /\ pc[p] = "copy_map" /\ why[p] = "fork" /\ at[p] \in 1..hi[p] /\ held[p] \in Pages
        /\ held[p] = pt[p][at[p]].pa
    BY <1>1, Zenon DEF CopyMap, Goto, Control
  <2>2. at[p] \in VAs
    <3>1. hi[p] \in 0..NVA
      BY <1>1, Zenon DEF LoopTypes
    <3> QED BY <2>1, <3>1, CowAssumption DEF VAs
  <2>3. tgt[p] # p /\ tgt[p] \in Procs
    BY <1>1, <2>1, Zenon DEF Targets, LoopTypes
  <2>4. pt[p][at[p]] \in Ptes
    BY <1>1, <2>2, Zenon DEF TableTypes
  <2> QED BY <2>1, <2>2, <2>3, <2>4, Zenon
<1>3. /\ pc'[p] = "copy" /\ held'[p] = 0 /\ at'[p] = at[p] + 1 /\ why'[p] = why[p] /\ tgt'[p] = tgt[p] /\ hi'[p] = hi[p]
      /\ ret'[p] = ret[p] /\ sz'[p] = sz[p]
  BY <1>1, <1>2, Zenon DEF CopyMap, Goto, Hold, PcTypes, LoopTypes, HandTypes, TableTypes
<1>4. /\ npt' = npt /\ krefcount' = krefcount /\ freelist' = freelist /\ fails' = fails
      /\ pt' \in [Procs -> [VAs -> Ptes]]
      /\ pt'[p][at[p]] = Shared(pt[p][at[p]]) /\ pt'[tgt[p]][at[p]] = Shared(pt[p][at[p]])
      /\ \A q \in Procs, va \in VAs : (q \in {p, tgt[p]} /\ va = at[p]) \/ pt'[q][va] = pt[q][va]
      /\ \A q \in Procs : q \in {p, tgt[p]} \/ pt'[q] = pt[q]
  BY <1>1, <1>2, CopyMapped, Zenon DEF CopyMap, pageVars
<1>5. \A q \in Procs : q # p => Stays(p, q)
  <2> SUFFICES ASSUME NEW q \in Procs, q # p PROVE Stays(p, q)
    OBVIOUS
  <2>1. pc'[q] = pc[q] /\ ret'[q] = ret[q] /\ held'[q] = held[q]
    BY <1>1, Zenon DEF CopyMap, Goto, Hold, PcTypes, HandTypes
  <2>2. why'[q] = why[q] /\ tgt'[q] = tgt[q] /\ at'[q] = at[q] /\ hi'[q] = hi[q] /\ sz'[q] = sz[q]
    BY <1>1, Zenon DEF CopyMap, LoopTypes
  <2>3. npt'[q] = npt[q] /\ (pt'[q] = pt[q] \/ q = tgt[p])
    BY <1>4, Zenon
  <2> QED BY <2>1, <2>2, <2>3, Zenon DEF Stays
<1>6. PageTypes' /\ TableTypes' /\ LocalTypes'
  <2>1. PageTypes'
    BY <1>1, Zenon DEF CopyMap, Goto, Hold, pageVars, PageTypes
  <2>2. TableTypes'
    BY <1>1, <1>4, Zenon DEF CopyMap, TableTypes
  <2>3. PcTypes'
    BY <1>1, Zenon DEF CopyMap, Goto, Hold, PcTypes, Locations
  <2>4. LoopTypes'
    <3>1. at[p] \in Nat /\ at[p] + 1 \in Nat
      BY <1>2
    <3> QED BY <1>1, <3>1, Zenon DEF CopyMap, LoopTypes
  <2>5. HandTypes'
    BY <1>1, Zenon DEF CopyMap, Goto, Hold, HandTypes
  <2> QED BY <2>1, <2>2, <2>3, <2>4, <2>5, Zenon DEF LocalTypes
<1>7. Inside(p)'
  <2>1. \A va \in VAs : pt'[p][va] # NoPte => pt[p][va] # NoPte
    BY <1>2, <1>4, SharedPte, Zenon
  <2> QED BY <1>1, <1>2, <1>3, <1>4, <2>1, Zenon DEF Inside
<1>8. Control(p)'
  BY <1>1, <1>2, <1>3, <1>4, Zenon DEF Control, Freeing, Loops
<1>9. Extent(p)'
  <2>1. \A va \in VAs : pt'[tgt[p]][va] # NoPte => va = at[p] \/ pt[tgt[p]][va] # NoPte
    BY <1>2, <1>4, Zenon
  <2>2. /\ \A va \in VAs : pt[tgt[p]][va] # NoPte => va < at[p] /\ va <= hi[p]
        /\ hi[p] = sz[p] /\ hi[p] \in 0..NVA
    BY <1>1, <1>2, Zenon DEF Extent, LoopTypes
  <2>3. at[p] + 1 >= 1 /\ \A va \in VAs : pt'[tgt[p]][va] # NoPte => va < at[p] + 1 /\ va <= hi[p]
    BY <1>2, <2>1, <2>2 DEF VAs
  <2> QED BY <1>2, <1>3, <2>2, <2>3, Zenon DEF Extent, Loops
<1>10. IF OnChild(p)' THEN OnChild(p) /\ tgt'[p] = tgt[p] ELSE tgt'[p] = p
  BY <1>1, <1>2, <1>3, Zenon DEF OnChild, Targets, Loops
<1>11. \A q \in Procs : q # p => /\ Given(q)' <=> Given(q)
                                 /\ Entry(q)' = Entry(q) /\ HandPage(q)' = HandPage(q)
                                 /\ (Raw(q)' <=> Raw(q)) /\ held'[q] = held[q]
  BY <1>5, SpotsStay, Zenon DEF Stays
<1>12. /\ ~Given(p) /\ ~Given(p)' /\ ~Raw(p)'
       /\ HandPage(p) = held[p] /\ HandPage(p)' = 0
  BY <1>2, <1>3, Zenon DEF Given, HandPage, Counted, Raw
<1>13. Balance'
  <2>1. PICK v \in VAs, t \in Procs : v = at[p] /\ t = tgt[p] /\ t # p
    BY <1>2, Zenon
  <2>2. Shared(pt[p][v]).pa = held[p]
    BY <1>2, <2>1, SharedPte, Zenon
  <2>3. \A q \in Procs, va \in VAs : (q = t /\ va = v) \/ pt'[q][va].pa = pt[q][va].pa
    BY <1>2, <1>4, <2>1, <2>2, Zenon
  <2>4. pt'[t][v].pa = held[p]
    BY <1>4, <2>1, <2>2, Zenon
  <2>5. pt[t][v].pa = 0
    <3>1. pt[t][v] # NoPte => v < v
      BY <1>1, <1>2, <2>1, Zenon DEF Extent
    <3>2. pt[t][v] = NoPte
      BY <3>1 DEF VAs
    <3> QED BY <3>2 DEF NoPte
  <2>6. /\ <<p, 0, "hand">> \in Spots /\ <<t, v, "pt">> \in Spots
        /\ Page(<<p, 0, "hand">>) = HandPage(p) /\ Page(<<p, 0, "hand">>)' = HandPage(p)'
        /\ Page(<<t, v, "pt">>) = pt[t][v].pa /\ Page(<<t, v, "pt">>)' = pt'[t][v].pa
        /\ \A z \in Spots : z \in {<<p, 0, "hand">>, <<t, v, "pt">>} \/ Page(z)' = Page(z)
    <3>1. npt' = npt /\ pc[p] # "embryo" /\ (t = p \/ t = tgt[p]) /\ ~Given(p) /\ ~Given(p)'
      BY <1>2, <1>4, <1>12, <2>1, Zenon
    <3>2. OneCell(p, t, v)
      BY <1>5, <2>3, <3>1, Zenon DEF OneCell
    <3> HIDE <2>1
    <3> QED BY <3>2, CellMoves, Zenon
  <2>7. krefcount' = krefcount /\ fails' = fails /\ Balance
    BY <1>1, <1>4, Zenon
  <2>8. /\ Page(<<p, 0, "hand">>)' = Page(<<t, v, "pt">>)
        /\ Page(<<t, v, "pt">>)' = Page(<<p, 0, "hand">>)
    BY <1>12, <2>4, <2>5, <2>6, Zenon
  <2> QED BY <2>6, <2>7, <2>8, Swapped, Zenon
<1>14. Unshared'
  <2>1. /\ \A q \in Procs : Raw(q) => held[q] \notin freelist /\ krefcount[held[q]] = 0
        /\ \A pa \in freelist : krefcount[pa] = 0
    BY <1>1, Zenon DEF Unshared
  <2> QED BY <1>1, <1>4, <1>11, <1>12, <2>1, UnsharedKeeps, Zenon
<1> QED BY <1>2, <1>5, <1>6, <1>7, <1>8, <1>9, <1>10, <1>13, <1>14, StepKeeps, Zenon

(* mappages() finds no page in uvmcopy(), which keeps the reference it has counted. *)
LEMMA CopyMapFailStep ==
  ASSUME Counting, IInv, NEW p \in Procs, CopyMapFail(p)
  PROVE  IInv'
<1>1. /\ PageTypes /\ TableTypes /\ LocalTypes /\ PcTypes /\ LoopTypes /\ HandTypes
      /\ Inside(p) /\ Control(p) /\ Extent(p) /\ Targets /\ Unshared /\ Balance
  BY Zenon DEF IInv, LocalTypes
<1>2. /\ pc[p] = "copy_map" /\ why[p] = "fork" /\ at[p] \in 1..hi[p] /\ at[p] \in VAs /\ pc[p] # "embryo"
      /\ held[p] \in Pages /\ held[p] = pt[p][at[p]].pa /\ pt[p][at[p]] \in Ptes
      /\ tgt[p] # p /\ tgt[p] \in Procs
  <2>1. /\ pc[p] = "copy_map" /\ why[p] = "fork" /\ at[p] \in 1..hi[p] /\ held[p] \in Pages
        /\ held[p] = pt[p][at[p]].pa
    BY <1>1, Zenon DEF CopyMapFail, Goto, Control
  <2>2. at[p] \in VAs
    <3>1. hi[p] \in 0..NVA
      BY <1>1, Zenon DEF LoopTypes
    <3> QED BY <2>1, <3>1, CowAssumption DEF VAs
  <2>3. tgt[p] # p /\ tgt[p] \in Procs
    BY <1>1, <2>1, Zenon DEF Targets, LoopTypes
  <2>4. pt[p][at[p]] \in Ptes
    BY <1>1, <2>2, Zenon DEF TableTypes
  <2> QED BY <2>1, <2>2, <2>3, <2>4, Zenon
<1>3. /\ pc'[p] = "unmap" /\ held'[p] = 0 /\ ret'[p] = ret[p] /\ sz'[p] = sz[p]
      /\ why'[p] = "undo" /\ tgt'[p] = tgt[p] /\ at'[p] = 1 /\ hi'[p] = at[p] - 1
  BY <1>1, <1>2, Zenon DEF CopyMapFail, Goto, Hold, Loop, PcTypes, LoopTypes, HandTypes, TableTypes
<1>4. /\ npt' = npt /\ krefcount' = krefcount /\ freelist' = freelist /\ fails' = fails + 1
      /\ pt' \in [Procs -> [VAs -> Ptes]] /\ pt'[p][at[p]] = Shared(pt[p][at[p]])
      /\ \A q \in Procs, va \in VAs : (q = p /\ va = at[p]) \/ pt'[q][va] = pt[q][va]
      /\ \A q \in Procs : q = p \/ pt'[q] = pt[q]
  <2>1. PICK v \in VAs : v = at[p]
    BY <1>2, Zenon
  <2>2. PICK e \in Ptes : e = Shared(pt[p][v])
    BY <1>2, <2>1, SharedPte, Zenon
  <2>3. pt' = [pt EXCEPT ![p][v] = e] /\ pt \in [Procs -> [VAs -> Ptes]]
    BY <1>1, <2>1, <2>2, Zenon DEF CopyMapFail, TableTypes
  <2>4. /\ pt' \in [Procs -> [VAs -> Ptes]] /\ pt'[p][v] = e
        /\ \A q \in Procs, va \in VAs : (q = p /\ va = v) \/ pt'[q][va] = pt[q][va]
    BY <2>3, CellUpdate
  <2>5. \A q \in Procs : q = p \/ pt'[q] = pt[q]
    BY <2>3, Zenon
  <2> QED BY <2>1, <2>2, <2>4, <2>5, Zenon DEF CopyMapFail, pageVars
<1>5. \A q \in Procs : q # p => Stays(p, q)
  <2> SUFFICES ASSUME NEW q \in Procs, q # p PROVE Stays(p, q)
    OBVIOUS
  <2>1. pc'[q] = pc[q] /\ ret'[q] = ret[q] /\ held'[q] = held[q]
    BY <1>1, Zenon DEF CopyMapFail, Goto, Hold, PcTypes, HandTypes
  <2>2. why'[q] = why[q] /\ tgt'[q] = tgt[q] /\ at'[q] = at[q] /\ hi'[q] = hi[q]
    BY <1>1, Zenon DEF CopyMapFail, Loop, LoopTypes
  <2>3. sz'[q] = sz[q] /\ npt'[q] = npt[q] /\ pt'[q] = pt[q]
    BY <1>4, Zenon DEF CopyMapFail
  <2> QED BY <2>1, <2>2, <2>3, Zenon DEF Stays
<1>6. PageTypes' /\ TableTypes' /\ LocalTypes'
  <2>1. PageTypes'
    BY <1>1, Zenon DEF CopyMapFail, Goto, Hold, Loop, pageVars, PageTypes
  <2>2. TableTypes'
    BY <1>1, <1>4, Zenon DEF CopyMapFail, TableTypes
  <2>3. PcTypes'
    BY <1>1, Zenon DEF CopyMapFail, Goto, Hold, Loop, PcTypes, Locations
  <2>4. LoopTypes'
    <3>1. hi[p] \in 0..NVA
      BY <1>1, Zenon DEF LoopTypes
    <3>2. at[p] - 1 \in 0..NVA /\ 1 \in Nat
      BY <1>2, <3>1, CowAssumption
    <3> QED BY <1>1, <1>2, <3>2, Zenon DEF CopyMapFail, Loop, LoopTypes, Loops
  <2>5. HandTypes'
    <3>1. fails + 1 \in Nat
      BY <1>1 DEF HandTypes
    <3> QED BY <1>1, <3>1, Zenon DEF CopyMapFail, Hold, HandTypes
  <2> QED BY <2>1, <2>2, <2>3, <2>4, <2>5, Zenon DEF LocalTypes
<1>7. Inside(p)'
  <2>1. \A va \in VAs : pt'[p][va] # NoPte => pt[p][va] # NoPte
    BY <1>2, <1>4, SharedPte, Zenon
  <2> QED BY <1>1, <1>2, <1>3, <1>4, <2>1, Zenon DEF Inside
<1>8. Control(p)'
  BY <1>1, <1>2, <1>3, <1>4, Zenon DEF Control, Freeing, Loops
<1>9. Extent(p)'
  <2>1. pt'[tgt[p]] = pt[tgt[p]]
    BY <1>2, <1>4, Zenon
  <2>2. Table(p)' = pt[tgt[p]]
    BY <1>3, <2>1, Zenon DEF Table
  <2>3. \A va \in VAs : pt[tgt[p]][va] # NoPte => va < at[p]
    BY <1>1, <1>2, Zenon DEF Extent
  <2>4. /\ 1 >= 1
        /\ \A va \in VAs : Table(p)'[va] # NoPte => va <= at[p] - 1 /\ va >= 1
    BY <1>2, <2>2, <2>3 DEF VAs
  <2> QED BY <1>3, <2>4, Zenon DEF Extent, Loops
<1>10. IF OnChild(p)' THEN OnChild(p) /\ tgt'[p] = tgt[p] ELSE tgt'[p] = p
  BY <1>1, <1>2, <1>3, Zenon DEF OnChild, Targets, Loops
<1>11. \A q \in Procs : q # p => /\ Given(q)' <=> Given(q)
                                 /\ Entry(q)' = Entry(q) /\ HandPage(q)' = HandPage(q)
                                 /\ (Raw(q)' <=> Raw(q)) /\ held'[q] = held[q]
  BY <1>5, SpotsStay, Zenon DEF Stays
<1>12. /\ ~Given(p) /\ ~Given(p)' /\ ~Raw(p)'
       /\ HandPage(p) = held[p] /\ HandPage(p)' = 0
  BY <1>2, <1>3, Zenon DEF Given, HandPage, Counted, Raw
<1>13. Balance'
  <2>1. PICK v \in VAs : v = at[p]
    BY <1>2, Zenon
  <2>2. pt'[p][v].pa = pt[p][v].pa
    BY <1>2, <1>4, <2>1, SharedPte, Zenon
  <2>3. \A q \in Procs, va \in VAs : (q = p /\ va = v) \/ pt'[q][va].pa = pt[q][va].pa
    BY <1>4, <2>1, Zenon
  <2>4. /\ <<p, 0, "hand">> \in Spots
        /\ Page(<<p, 0, "hand">>) = HandPage(p) /\ Page(<<p, 0, "hand">>)' = HandPage(p)'
        /\ Page(<<p, v, "pt">>) = pt[p][v].pa /\ Page(<<p, v, "pt">>)' = pt'[p][v].pa
        /\ \A z \in Spots : z \in {<<p, 0, "hand">>, <<p, v, "pt">>} \/ Page(z)' = Page(z)
    <3>1. OneCell(p, p, v)
      BY <1>2, <1>4, <1>5, <1>12, <2>3, Zenon DEF OneCell
    <3> QED BY <3>1, CellMoves, Zenon
  <2>5. \A z \in Spots : z \in {<<p, 0, "hand">>} \/ Page(z)' = Page(z)
    BY <2>2, <2>4, Zenon
  <2> QED BY <1>2, <1>4, <1>12, <2>4, <2>5, LoseRef, Zenon
<1>14. Unshared'
  <2>1. /\ \A q \in Procs : Raw(q) => held[q] \notin freelist /\ krefcount[held[q]] = 0
        /\ \A pa \in freelist : krefcount[pa] = 0
    BY <1>1, Zenon DEF Unshared
  <2> QED BY <1>1, <1>4, <1>11, <1>12, <2>1, UnsharedKeeps, Zenon
<1> QED BY <1>2, <1>5, <1>6, <1>7, <1>8, <1>9, <1>10, <1>13, <1>14, StepKeeps, Zenon

\* What ExecPage() and ExecPageFail() do with the page a they take off the free list.
ExecTakes(p, a) ==
  /\ freelist' = freelist \ {a} /\ krefcount' = [krefcount EXCEPT ![a] = 1]
  /\ data' = [data EXCEPT ![a] = Image]
  /\ npt' = [npt EXCEPT ![p][at[p]] = Pte(a, IF at[p] = 1 THEN "r" ELSE "w")]
ExecReturns(p, a) ==
  /\ freelist' = freelist \ {a} /\ krefcount' = [krefcount EXCEPT ![a] = 1]
  /\ data' = [data EXCEPT ![a] = 0] /\ Hold(p, a)

(* kexec() takes a page off the free list and maps it in its new table. *)
LEMMA ExecPageStep ==
  ASSUME Counting, IInv, NEW p \in Procs, NEW a \in freelist, ExecTakes(p, a), ExecPage(p)
  PROVE  IInv'
<1>1. /\ PageTypes /\ TableTypes /\ LocalTypes /\ PcTypes /\ LoopTypes /\ HandTypes
      /\ Inside(p) /\ Control(p) /\ Extent(p) /\ Targets /\ Unshared /\ Balance
  BY Zenon DEF IInv, LocalTypes
<1>2. /\ pc[p] = "exec" /\ why[p] = "exec" /\ at[p] \in 1..hi[p] /\ at[p] \in VAs /\ pc[p] # "embryo"
      /\ a \in Pages /\ krefcount[a] = 0 /\ npt[p][at[p]] = NoPte
      /\ \A q \in Procs : Raw(q) => held[q] # a
  <2>1. /\ pc[p] = "exec" /\ why[p] = "exec" /\ at[p] <= hi[p] /\ at[p] >= 1
        /\ a \in Pages /\ krefcount[a] = 0 /\ \A q \in Procs : Raw(q) => held[q] # a
    <3>1. pc[p] = "exec" /\ why[p] = "exec" /\ at[p] <= hi[p]
      BY <1>1, Zenon DEF ExecPage, Goto, Control
    <3>2. at[p] >= 1
      BY <1>1, <3>1, Zenon DEF Extent
    <3>3. a \in Pages /\ krefcount[a] = 0 /\ \A q \in Procs : Raw(q) => held[q] # a
      BY <1>1, Zenon DEF Unshared, PageTypes
    <3> QED BY <3>1, <3>2, <3>3, Zenon
  <2>2. at[p] \in VAs /\ at[p] \in 1..hi[p]
    <3>1. hi[p] \in 0..NVA /\ at[p] \in Nat
      BY <1>1, Zenon DEF LoopTypes
    <3> QED BY <2>1, <3>1, CowAssumption DEF VAs
  <2>3. npt[p][at[p]] = NoPte
    <3>1. npt[p][at[p]] # NoPte => at[p] < at[p]
      BY <1>1, <2>1, <2>2, Zenon DEF Extent
    <3> QED BY <2>2, <3>1
  <2> QED BY <2>1, <2>2, <2>3, Zenon
<1>3. /\ pc'[p] = "exec" /\ at'[p] = at[p] + 1 /\ why'[p] = why[p] /\ tgt'[p] = tgt[p] /\ hi'[p] = hi[p]
      /\ ret'[p] = ret[p] /\ held'[p] = held[p] /\ sz'[p] = sz[p]
  BY <1>1, <1>2, Zenon DEF ExecPage, Goto, PcTypes, LoopTypes, HandTypes, TableTypes
<1>4. /\ pt' = pt /\ fails' = fails /\ freelist' = freelist \ {a}
      /\ krefcount' = [krefcount EXCEPT ![a] = krefcount[a] + 1]
      /\ npt' \in [Procs -> [VAs -> Ptes]] /\ npt'[p][at[p]].pa = a
      /\ \A q \in Procs, va \in VAs : (q = p /\ va = at[p]) \/ npt'[q][va] = npt[q][va]
      /\ \A q \in Procs : q = p \/ npt'[q] = npt[q]
  <2>1. krefcount[a] + 1 = 1
    BY <1>2
  <2>2. PICK v \in VAs : v = at[p]
    BY <1>2, Zenon
  <2>3. PICK m \in {"r", "w", "cow"} : m = IF at[p] = 1 THEN "r" ELSE "w"
    BY Zenon
  <2>4. PICK e \in Ptes : e = Pte(a, m) /\ e.pa = a
    <3>1. Pte(a, m) \in Ptes /\ Pte(a, m).pa = a
      BY <1>2, FreshPte
    <3> QED BY <3>1, Zenon
  <2>5. npt' = [npt EXCEPT ![p][v] = e] /\ npt \in [Procs -> [VAs -> Ptes]]
    BY <1>1, <2>2, <2>3, <2>4, Zenon DEF TableTypes, ExecTakes
  <2>6. /\ npt' \in [Procs -> [VAs -> Ptes]] /\ npt'[p][v] = e
        /\ \A q \in Procs, va \in VAs : (q = p /\ va = v) \/ npt'[q][va] = npt[q][va]
    BY <2>5, CellUpdate
  <2>7. \A q \in Procs : q = p \/ npt'[q] = npt[q]
    BY <2>5, Zenon
  <2> QED BY <2>1, <2>2, <2>4, <2>6, <2>7, Zenon DEF ExecPage, ExecTakes
<1>5. \A q \in Procs : q # p => Stays(p, q)
  BY <1>1, <1>4, Zenon DEF ExecPage, Goto, Stays, PcTypes, LoopTypes
<1>6. PageTypes' /\ TableTypes' /\ LocalTypes'
  <2>1. PageTypes'
    <3>1. Image \in 0..3 /\ 1 \in Nat
      BY DEF Image
    <3> QED BY <1>1, <1>2, <3>1, Zenon DEF PageTypes, ExecTakes
  <2>2. TableTypes'
    BY <1>1, <1>4, Zenon DEF ExecPage, TableTypes
  <2>3. PcTypes'
    BY <1>1, Zenon DEF ExecPage, Goto, PcTypes, Locations
  <2>4. LoopTypes'
    <3>1. at[p] \in Nat /\ at[p] + 1 \in Nat
      BY <1>2
    <3> QED BY <1>1, <3>1, Zenon DEF ExecPage, LoopTypes
  <2>5. HandTypes'
    BY <1>1, Zenon DEF ExecPage, Goto, HandTypes
  <2> QED BY <2>1, <2>2, <2>3, <2>4, <2>5, Zenon DEF LocalTypes
<1>7. Inside(p)'
  BY <1>1, <1>2, <1>3, <1>4, Zenon DEF Inside
<1>8. Control(p)'
  BY <1>1, <1>2, <1>3, <1>4, Zenon DEF Control, Freeing, Loops
<1>9. Extent(p)'
  <2>1. \A va \in VAs : npt'[p][va] # NoPte => va = at[p] \/ npt[p][va] # NoPte
    BY <1>4, Zenon
  <2>2. hi[p] \in 0..NVA /\ \A va \in VAs : npt[p][va] # NoPte => va < at[p]
    BY <1>1, <1>2, Zenon DEF Extent, LoopTypes
  <2>3. /\ at[p] + 1 >= 1 /\ at[p] + 1 <= hi[p] + 1
        /\ \A va \in VAs : npt'[p][va] # NoPte => va < at[p] + 1
    BY <1>2, <2>1, <2>2 DEF VAs
  <2> QED BY <1>2, <1>3, <2>3, Zenon DEF Extent, Loops
<1>10. IF OnChild(p)' THEN OnChild(p) /\ tgt'[p] = tgt[p] ELSE tgt'[p] = p
  BY <1>1, <1>2, <1>3, Zenon DEF OnChild, Targets, Loops
<1>11. \A q \in Procs : q # p => /\ Given(q)' <=> Given(q)
                                 /\ Entry(q)' = Entry(q) /\ HandPage(q)' = HandPage(q)
                                 /\ (Raw(q)' <=> Raw(q)) /\ held'[q] = held[q]
  BY <1>5, SpotsStay, Zenon DEF Stays
<1>12. ~Given(p) /\ ~Given(p)' /\ ~Raw(p)' /\ HandPage(p)' = HandPage(p)
  BY <1>2, <1>3, Zenon DEF Given, HandPage, Counted, Raw
<1>13. Balance'
  <2>1. PICK v \in VAs : v = at[p]
    BY <1>2, Zenon
  <2>2. \A q \in Procs, va \in VAs : (q = p /\ va = v) \/ npt'[q][va].pa = npt[q][va].pa
    BY <1>4, <2>1, Zenon
  <2>3. /\ <<p, v, "npt">> \in Spots
        /\ Page(<<p, v, "npt">>) = npt[p][v].pa /\ Page(<<p, v, "npt">>)' = npt'[p][v].pa
        /\ \A z \in Spots : z \in {<<p, v, "npt">>} \/ Page(z)' = Page(z)
    BY <1>2, <1>4, <1>5, <1>12, <2>2, NewCellMoves, Zenon
  <2>4. npt[p][v].pa = 0
    <3>1. npt[p][v] = NoPte
      BY <1>2, <2>1, Zenon
    <3> QED BY <3>1 DEF NoPte
  <2>5. krefcount' = [krefcount EXCEPT ![a] = krefcount[a] + 1] /\ fails' = fails /\ npt'[p][v].pa = a
    BY <1>4, <2>1, Zenon
  <2> QED BY <1>2, <2>3, <2>4, <2>5, GainRef, Zenon
<1>14. Unshared'
  <2>1. \A pa \in Pages : pa # a => krefcount'[pa] = krefcount[pa]
    BY <1>1, <1>4, Zenon DEF PageTypes
  <2>2. freelist' \subseteq freelist /\ a \notin freelist'
    BY <1>4, Zenon
  <2> QED BY <1>2, <1>11, <1>12, <2>1, <2>2, RefTaken, Zenon
<1> QED BY <1>2, <1>5, <1>6, <1>7, <1>8, <1>9, <1>10, <1>13, <1>14, StepKeeps, Zenon

(* mappages() finds no page in kexec(), which gives the one it has taken to kfree(). *)
LEMMA ExecPageFailStep ==
  ASSUME Counting, IInv, NEW p \in Procs, NEW a \in freelist, ExecReturns(p, a), ExecPageFail(p)
  PROVE  IInv'
<1>1. /\ PageTypes /\ TableTypes /\ LocalTypes /\ PcTypes /\ LoopTypes /\ HandTypes
      /\ Inside(p) /\ Control(p) /\ Extent(p) /\ Targets /\ Unshared /\ Balance
  BY Zenon DEF IInv, LocalTypes
<1>2. /\ pc[p] = "exec" /\ why[p] = "exec" /\ at[p] \in 1..hi[p] /\ at[p] \in VAs /\ pc[p] # "embryo"
      /\ a \in Pages /\ krefcount[a] = 0 /\ npt[p][at[p]] = NoPte
      /\ \A q \in Procs : Raw(q) => held[q] # a
  <2>1. /\ pc[p] = "exec" /\ why[p] = "exec" /\ at[p] <= hi[p] /\ at[p] >= 1
        /\ a \in Pages /\ krefcount[a] = 0 /\ \A q \in Procs : Raw(q) => held[q] # a
    <3>1. pc[p] = "exec" /\ why[p] = "exec" /\ at[p] <= hi[p]
      BY <1>1, Zenon DEF ExecPageFail, Goto, Control
    <3>2. at[p] >= 1
      BY <1>1, <3>1, Zenon DEF Extent
    <3>3. a \in Pages /\ krefcount[a] = 0 /\ \A q \in Procs : Raw(q) => held[q] # a
      BY <1>1, Zenon DEF Unshared, PageTypes
    <3> QED BY <3>1, <3>2, <3>3, Zenon
  <2>2. at[p] \in VAs /\ at[p] \in 1..hi[p]
    <3>1. hi[p] \in 0..NVA /\ at[p] \in Nat
      BY <1>1, Zenon DEF LoopTypes
    <3> QED BY <2>1, <3>1, CowAssumption DEF VAs
  <2>3. npt[p][at[p]] = NoPte
    <3>1. npt[p][at[p]] # NoPte => at[p] < at[p]
      BY <1>1, <2>1, <2>2, Zenon DEF Extent
    <3> QED BY <2>2, <3>1
  <2> QED BY <2>1, <2>2, <2>3, Zenon
<1>3. /\ pc'[p] = "kfree" /\ ret'[p] = "unmap" /\ held'[p] = a /\ sz'[p] = sz[p]
      /\ why'[p] = "bad" /\ tgt'[p] = p /\ at'[p] = 1 /\ hi'[p] = at[p] - 1
  BY <1>1, <1>2, Zenon DEF ExecPageFail, ExecReturns, Goto, Hold, Loop, PcTypes, LoopTypes, HandTypes
<1>4. /\ pt' = pt /\ npt' = npt /\ fails' = fails /\ freelist' = freelist \ {a}
      /\ krefcount' = [krefcount EXCEPT ![a] = krefcount[a] + 1]
  <2>1. krefcount[a] + 1 = 1
    BY <1>2
  <2> QED BY <2>1, Zenon DEF ExecPageFail, ExecReturns
<1>5. \A q \in Procs : q # p => Stays(p, q)
  <2> SUFFICES ASSUME NEW q \in Procs, q # p PROVE Stays(p, q)
    OBVIOUS
  <2>1. pc'[q] = pc[q] /\ ret'[q] = ret[q] /\ held'[q] = held[q]
    BY <1>1, Zenon DEF ExecPageFail, ExecReturns, Goto, Hold, PcTypes, HandTypes
  <2>2. why'[q] = why[q] /\ tgt'[q] = tgt[q] /\ at'[q] = at[q] /\ hi'[q] = hi[q]
    BY <1>1, Zenon DEF ExecPageFail, ExecReturns, Loop, LoopTypes
  <2>3. sz'[q] = sz[q] /\ npt'[q] = npt[q] /\ pt'[q] = pt[q]
    BY Zenon DEF ExecPageFail, ExecReturns
  <2> QED BY <2>1, <2>2, <2>3, Zenon DEF Stays
<1>6. PageTypes' /\ TableTypes' /\ LocalTypes'
  <2>1. PageTypes'
    <3>1. 0 \in 0..3 /\ 1 \in Nat
      OBVIOUS
    <3> QED BY <1>1, <1>2, <3>1, Zenon DEF PageTypes, ExecReturns
  <2>2. TableTypes'
    BY <1>1, Zenon DEF ExecPageFail, ExecReturns, Goto, Hold, Loop, TableTypes
  <2>3. PcTypes'
    BY <1>1, Zenon DEF ExecPageFail, ExecReturns, Goto, Hold, Loop, PcTypes, Locations
  <2>4. LoopTypes'
    <3>1. hi[p] \in 0..NVA
      BY <1>1, Zenon DEF LoopTypes
    <3>2. at[p] - 1 \in 0..NVA /\ 1 \in Nat
      BY <1>2, <3>1, CowAssumption
    <3> QED BY <1>1, <1>2, <3>2, Zenon DEF ExecPageFail, Loop, LoopTypes, Loops
  <2>5. HandTypes'
    BY <1>1, <1>2, Zenon DEF ExecPageFail, ExecReturns, Hold, HandTypes
  <2> QED BY <2>1, <2>2, <2>3, <2>4, <2>5, Zenon DEF LocalTypes
<1>7. Inside(p)'
  BY <1>1, <1>2, <1>3, <1>4, Zenon DEF Inside
<1>8. Control(p)'
  BY <1>1, <1>2, <1>3, <1>4, Zenon DEF Control, Freeing, Loops
<1>9. Extent(p)'
  <2>1. Table(p)' = npt[p]
    BY <1>3, <1>4, Zenon DEF Table
  <2>2. \A va \in VAs : npt[p][va] # NoPte => va < at[p]
    BY <1>1, <1>2, Zenon DEF Extent
  <2>3. /\ 1 >= 1
        /\ \A va \in VAs : Table(p)'[va] # NoPte => va <= at[p] - 1 /\ va >= 1
    BY <1>2, <2>1, <2>2 DEF VAs
  <2> QED BY <1>3, <2>3, Zenon DEF Extent, Loops
<1>10. IF OnChild(p)' THEN OnChild(p) /\ tgt'[p] = tgt[p] ELSE tgt'[p] = p
  BY <1>1, <1>2, <1>3, Zenon DEF OnChild, Targets, Loops
<1>11. \A q \in Procs : q # p => /\ Given(q)' <=> Given(q)
                                 /\ Entry(q)' = Entry(q) /\ HandPage(q)' = HandPage(q)
                                 /\ (Raw(q)' <=> Raw(q)) /\ held'[q] = held[q]
  BY <1>5, SpotsStay, Zenon DEF Stays
<1>12. ~Given(p) /\ ~Given(p)' /\ ~Raw(p)' /\ HandPage(p) = 0 /\ HandPage(p)' = a
  BY <1>2, <1>3, Zenon DEF Given, HandPage, Counted, Raw
<1>13. Balance'
  BY <1>2, <1>4, <1>5, <1>12, HandMoves, GainRef, Zenon
<1>14. Unshared'
  <2>1. \A pa \in Pages : pa # a => krefcount'[pa] = krefcount[pa]
    BY <1>1, <1>4, Zenon DEF PageTypes
  <2>2. freelist' \subseteq freelist /\ a \notin freelist'
    BY <1>4, Zenon
  <2> QED BY <1>2, <1>11, <1>12, <2>1, <2>2, RefTaken, Zenon
<1> QED BY <1>2, <1>5, <1>6, <1>7, <1>8, <1>9, <1>10, <1>13, <1>14, StepKeeps, Zenon

(* kexec() exchanges its two tables: the references stay as many. *)
LEMMA TablesSwapped ==
  ASSUME Counting, IInv, NEW p \in Procs, pc[p] # "embryo", ~Given(p), ~Given(p)',
         HandPage(p)' = HandPage(p), \A q \in Procs : q # p => Stays(p, q),
         \A va \in VAs : pt'[p][va] = npt[p][va] /\ npt'[p][va] = pt[p][va],
         \A q \in Procs : q # p => pt'[q] = pt[q] /\ npt'[q] = npt[q]
  PROVE  \A a : Cardinality(Uses(a)') = Cardinality(Uses(a))
<1>1. \A q \in Procs : q # p => /\ Given(q)' <=> Given(q)
                                /\ Entry(q)' = Entry(q) /\ HandPage(q)' = HandPage(q)
  BY SpotsStay, Zenon
<1>2. \A y : GivenUp(y)' <=> GivenUp(y)
  BY <1>1, GivenStays, Zenon
<1>3. \A va \in VAs : ~GivenUp(<<p, va, "pt">>) /\ ~GivenUp(<<p, va, "npt">>)
  BY NotGiven, Zenon
<1> DEFINE f == [z \in Spots |-> IF z[1] = p /\ z[3] = "pt" THEN <<p, z[2], "npt">>
                                 ELSE IF z[1] = p /\ z[3] = "npt" THEN <<p, z[2], "pt">> ELSE z]
<1>4. /\ \A q \in Procs : <<q, 0, "hand">> \in Spots /\ f[<<q, 0, "hand">>] = <<q, 0, "hand">>
      /\ \A q \in Procs, va \in VAs :
           /\ <<q, va, "pt">> \in Spots /\ f[<<q, va, "pt">>] = <<q, va, IF q = p THEN "npt" ELSE "pt">>
           /\ <<q, va, "npt">> \in Spots /\ f[<<q, va, "npt">>] = <<q, va, IF q = p THEN "pt" ELSE "npt">>
  <2>1. /\ \A q \in Procs : <<q, 0, "hand">> \in Spots
        /\ \A q \in Procs, va \in VAs : <<q, va, "pt">> \in Spots /\ <<q, va, "npt">> \in Spots
    BY SpotPages, Zenon
  <2>3. "pt" # "hand" /\ "npt" # "hand" /\ "npt" # "pt"
    OBVIOUS
  <2>4. ASSUME NEW q \in Procs PROVE f[<<q, 0, "hand">>] = <<q, 0, "hand">>
    <3> DEFINE z == <<q, 0, "hand">>
    <3>1. z \in Spots /\ z[3] = "hand"
      BY <2>1, Zenon
    <3> HIDE DEF z
    <3>2. f[z] = z
      BY <2>3, <3>1, Zenon
    <3> QED BY <3>2, Zenon DEF z
  <2>5. ASSUME NEW q \in Procs, NEW va \in VAs
        PROVE  f[<<q, va, "pt">>] = <<q, va, IF q = p THEN "npt" ELSE "pt">>
    <3> DEFINE z == <<q, va, "pt">>
    <3>1. z \in Spots /\ z[1] = q /\ z[2] = va /\ z[3] = "pt"
      BY <2>1, Zenon
    <3> HIDE DEF z
    <3>2. f[z] = IF q = p THEN <<q, va, "npt">> ELSE z
      BY <2>3, <3>1, Zenon
    <3> QED BY <3>2, Zenon DEF z
  <2>6. ASSUME NEW q \in Procs, NEW va \in VAs
        PROVE  f[<<q, va, "npt">>] = <<q, va, IF q = p THEN "pt" ELSE "npt">>
    <3> DEFINE z == <<q, va, "npt">>
    <3>1. z \in Spots /\ z[1] = q /\ z[2] = va /\ z[3] = "npt"
      BY <2>1, Zenon
    <3> HIDE DEF z
    <3>2. f[z] = IF q = p THEN <<q, va, "pt">> ELSE z
      BY <2>3, <3>1, Zenon
    <3> QED BY <3>2, Zenon DEF z
  <2> HIDE DEF f
  <2> QED BY <2>1, <2>4, <2>5, <2>6, Zenon
<1>5. f \in [Spots -> Spots] /\ \A z \in Spots : f[f[z]] = z
  <2>1. ASSUME NEW z \in Spots PROVE f[z] \in Spots /\ f[f[z]] = z
    <3> HIDE DEF f
    <3>1. ASSUME NEW q \in Procs, z = <<q, 0, "hand">> PROVE f[z] \in Spots /\ f[f[z]] = z
      BY <1>4, <3>1, Zenon
    <3>2. ASSUME NEW q \in Procs, NEW va \in VAs, z \in {<<q, va, "pt">>, <<q, va, "npt">>}
          PROVE  f[z] \in Spots /\ f[f[z]] = z
      <4>1. /\ <<q, va, "pt">> \in Spots /\ <<q, va, "npt">> \in Spots
            /\ IF q = p THEN f[<<q, va, "pt">>] = <<q, va, "npt">> /\ f[<<q, va, "npt">>] = <<q, va, "pt">>
               ELSE f[<<q, va, "pt">>] = <<q, va, "pt">> /\ f[<<q, va, "npt">>] = <<q, va, "npt">>
        BY <1>4, Zenon
      <4>2. CASE z = <<q, va, "pt">>
        BY <4>1, <4>2, Zenon
      <4>3. CASE z = <<q, va, "npt">>
        BY <4>1, <4>3, Zenon
      <4> QED BY <3>2, <4>2, <4>3, Zenon
    <3> QED BY <3>1, <3>2, SpotKinds, Zenon
  <2> QED BY <2>1, Zenon
<1>6. \A z \in Spots : Page(f[z])' = Page(z)
  <2> HIDE DEF f
  <2>1. ASSUME NEW q \in Procs PROVE Page(f[<<q, 0, "hand">>])' = Page(<<q, 0, "hand">>)
    <3>1. HandPage(q)' = HandPage(q) /\ f[<<q, 0, "hand">>] = <<q, 0, "hand">>
      BY <1>1, <1>4, Zenon
    <3>2. Page(<<q, 0, "hand">>) = HandPage(q) /\ Page(<<q, 0, "hand">>)' = HandPage(q)'
      BY SpotPages, Zenon
    <3> QED BY <3>1, <3>2, Zenon
  <2>2. ASSUME NEW q \in Procs, NEW va \in VAs
        PROVE  /\ Page(f[<<q, va, "pt">>])' = Page(<<q, va, "pt">>)
               /\ Page(f[<<q, va, "npt">>])' = Page(<<q, va, "npt">>)
    <3>1. CASE q = p
      <4>1. f[<<q, va, "pt">>] = <<q, va, "npt">> /\ f[<<q, va, "npt">>] = <<q, va, "pt">>
        BY <1>4, <3>1, Zenon
      <4>2. ~GivenUp(<<q, va, "pt">>) /\ ~GivenUp(<<q, va, "npt">>)
        BY <1>3, <3>1, Zenon
      <4>3. pt'[q][va] = npt[q][va] /\ npt'[q][va] = pt[q][va]
        BY <3>1, Zenon
      <4>4. /\ Page(<<q, va, "pt">>) = pt[q][va].pa /\ Page(<<q, va, "npt">>) = npt[q][va].pa
            /\ Page(<<q, va, "pt">>)' = pt'[q][va].pa /\ Page(<<q, va, "npt">>)' = npt'[q][va].pa
        BY <1>2, <4>2, SpotPages, Zenon
      <4> QED BY <4>1, <4>3, <4>4, Zenon
    <3>2. CASE q # p
      <4>1. f[<<q, va, "pt">>] = <<q, va, "pt">> /\ f[<<q, va, "npt">>] = <<q, va, "npt">>
        BY <1>4, <3>2, Zenon
      <4>2. pt'[q] = pt[q] /\ npt'[q] = npt[q]
        BY <3>2, Zenon
      <4>3. /\ GivenUp(<<q, va, "pt">>)' <=> GivenUp(<<q, va, "pt">>)
            /\ GivenUp(<<q, va, "npt">>)' <=> GivenUp(<<q, va, "npt">>)
        BY <1>2, Zenon
      <4>4. Page(<<q, va, "pt">>)' = Page(<<q, va, "pt">>)
        <5>1. /\ Page(<<q, va, "pt">>) = IF GivenUp(<<q, va, "pt">>) THEN 0 ELSE pt[q][va].pa
              /\ Page(<<q, va, "pt">>)' = IF GivenUp(<<q, va, "pt">>)' THEN 0 ELSE pt'[q][va].pa
          BY SpotPages, Zenon
        <5> QED BY <4>2, <4>3, <5>1, Zenon
      <4>5. Page(<<q, va, "npt">>)' = Page(<<q, va, "npt">>)
        <5>1. /\ Page(<<q, va, "npt">>) = IF GivenUp(<<q, va, "npt">>) THEN 0 ELSE npt[q][va].pa
              /\ Page(<<q, va, "npt">>)' = IF GivenUp(<<q, va, "npt">>)' THEN 0 ELSE npt'[q][va].pa
          BY SpotPages, Zenon
        <5> QED BY <4>2, <4>3, <5>1, Zenon
      <4> QED BY <4>1, <4>4, <4>5, Zenon
    <3> QED BY <3>1, <3>2, Zenon
  <2> QED BY <2>1, <2>2, SpotKinds, Zenon
<1> HIDE DEF f
<1>7. ASSUME NEW u \in Spots, NEW v \in Spots, f[u] = f[v] PROVE u = v
  <2>1. f[f[u]] = u /\ f[f[v]] = v
    BY <1>5, Zenon
  <2> QED BY <1>7, <2>1, Zenon
<1>8. \A u \in Spots : \E v \in Spots : f[v] = u
  BY <1>5, Zenon
<1> QED BY <1>5, <1>6, <1>7, <1>8, Permuted, Zenon

(* kexec() commits to its new table and begins to free the old one. *)
LEMMA ExecCommitStep ==
  ASSUME Counting, IInv, NEW p \in Procs, ExecCommit(p)
  PROVE  IInv'
<1>1. /\ PageTypes /\ TableTypes /\ LocalTypes /\ PcTypes /\ LoopTypes /\ HandTypes
      /\ Inside(p) /\ Control(p) /\ Extent(p) /\ Targets /\ Unshared /\ Balance
  BY Zenon DEF IInv, LocalTypes
<1>2. /\ pc[p] = "exec" /\ why[p] = "exec" /\ at[p] > hi[p] /\ pc[p] # "embryo"
  BY <1>1, Zenon DEF ExecCommit, Goto, Loop, Control
<1>3. /\ pc'[p] = "unmap" /\ ret'[p] = ret[p] /\ held'[p] = held[p] /\ sz'[p] = hi[p]
      /\ why'[p] = "old" /\ tgt'[p] = p /\ at'[p] = 1 /\ hi'[p] = sz[p]
  BY <1>1, <1>2, Zenon DEF ExecCommit, Goto, Loop, PcTypes, LoopTypes, HandTypes, TableTypes
<1>4. /\ krefcount' = krefcount /\ freelist' = freelist /\ fails' = fails
      /\ pt'[p] = npt[p] /\ npt'[p] = pt[p]
      /\ \A q \in Procs : q # p => pt'[q] = pt[q] /\ npt'[q] = npt[q]
  BY <1>1, Zenon DEF ExecCommit, Goto, Loop, pageVars, TableTypes
<1>5. \A q \in Procs : q # p => Stays(p, q)
  BY <1>1, <1>4, Zenon DEF ExecCommit, Goto, Loop, Stays, PcTypes, LoopTypes, TableTypes
<1>6. PageTypes' /\ TableTypes' /\ LocalTypes'
  <2>1. PageTypes'
    BY <1>1, Zenon DEF ExecCommit, Goto, Loop, pageVars, PageTypes
  <2>2. TableTypes'
    BY <1>1, Zenon DEF ExecCommit, Goto, Loop, TableTypes, LoopTypes
  <2>3. PcTypes'
    BY <1>1, Zenon DEF ExecCommit, Goto, Loop, PcTypes, Locations
  <2>4. LoopTypes'
    <3>1. sz[p] \in 0..NVA /\ 1 \in Nat
      BY <1>1 DEF TableTypes
    <3> QED BY <1>1, <3>1, Zenon DEF ExecCommit, Loop, LoopTypes, Loops
  <2>5. HandTypes'
    BY <1>1, Zenon DEF ExecCommit, Goto, Loop, HandTypes
  <2> QED BY <2>1, <2>2, <2>3, <2>4, <2>5, Zenon DEF LocalTypes
<1>7. Inside(p)'
  <2>1. at[p] <= hi[p] + 1 /\ \A va \in VAs : npt[p][va] # NoPte => va < at[p]
    BY <1>1, <1>2, Zenon DEF Extent
  <2>2. at[p] \in Nat /\ hi[p] \in Nat
    BY <1>1 DEF LoopTypes
  <2>3. \A va \in VAs : pt'[p][va] # NoPte => va <= hi[p]
    BY <1>4, <2>1, <2>2 DEF VAs
  <2> QED BY <1>3, <2>3, Zenon DEF Inside
<1>8. Control(p)'
  BY <1>1, <1>2, <1>3, <1>4, Zenon DEF Control, Freeing, Loops
<1>9. Extent(p)'
  <2>1. Table(p)' = pt[p]
    BY <1>3, <1>4, Zenon DEF Table
  <2>2. \A va \in VAs : pt[p][va] # NoPte => va <= sz[p]
    BY <1>1, <1>2, Zenon DEF Inside
  <2>3. 1 >= 1 /\ \A va \in VAs : va >= 1
    BY DEF VAs
  <2>4. \A va \in VAs : Table(p)'[va] # NoPte => va <= sz[p] /\ va >= 1
    BY <2>1, <2>2, <2>3, Zenon
  <2> QED BY <1>3, <2>3, <2>4, Zenon DEF Extent, Loops
<1>10. IF OnChild(p)' THEN OnChild(p) /\ tgt'[p] = tgt[p] ELSE tgt'[p] = p
  BY <1>1, <1>2, <1>3, Zenon DEF OnChild, Targets, Loops
<1>11. \A q \in Procs : q # p => /\ Given(q)' <=> Given(q)
                                 /\ Entry(q)' = Entry(q) /\ HandPage(q)' = HandPage(q)
                                 /\ (Raw(q)' <=> Raw(q)) /\ held'[q] = held[q]
  BY <1>5, SpotsStay, Zenon DEF Stays
<1>12. ~Given(p) /\ ~Given(p)' /\ ~Raw(p)' /\ HandPage(p)' = HandPage(p)
  BY <1>2, <1>3, Zenon DEF Given, HandPage, Counted, Raw
<1>13. Balance'
  <2>1. \A a : Cardinality(Uses(a)') = Cardinality(Uses(a))
    BY <1>2, <1>4, <1>5, <1>12, TablesSwapped, Zenon
  <2> QED BY <1>1, <1>4, <2>1, Zenon DEF Balance
<1>14. Unshared'
  <2>1. /\ \A q \in Procs : Raw(q) => held[q] \notin freelist /\ krefcount[held[q]] = 0
        /\ \A pa \in freelist : krefcount[pa] = 0
    BY <1>1, Zenon DEF Unshared
  <2> QED BY <1>1, <1>4, <1>11, <1>12, <2>1, UnsharedKeeps, Zenon
<1> QED BY <1>2, <1>5, <1>6, <1>7, <1>8, <1>9, <1>10, <1>13, <1>14, StepKeeps, Zenon

(* A step of p that makes t its child or lets it go; t itself has no page. *)
LEMMA FamilyStep ==
  ASSUME IInv, NEW p \in Procs, NEW t \in Procs, t # p, pc[p] # "embryo",
         \A q \in Procs : q # p /\ q # t => Stays(p, q),
         pc[t] \in {"unused", "embryo"}, pc'[t] \in {"unused", "embryo", "user"},
         why'[t] = why[t], tgt'[t] = tgt[t],
         \A q \in Procs : q # p /\ OnChild(q) => tgt[q] # t,
         IF OnChild(p)' THEN tgt'[p] = t /\ pc'[t] = "embryo" ELSE tgt'[p] = p,
         PageTypes', TableTypes', LocalTypes', Inside(p)', Control(p)', Extent(p)',
         Inside(t)', Control(t)', Extent(t)',
         UNCHANGED <<pt, npt, krefcount, freelist>>, fails' = fails,
         ~Given(p), ~Given(p)', HandPage(p) = 0, HandPage(p)' = 0, ~Raw(p)'
  PROVE  IInv'
<1>1. ASSUME NEW q \in Procs, q # p, q # t PROVE Inside(q)' /\ Control(q)' /\ Extent(q)'
  <2>1. Inside(q) /\ Control(q) /\ Extent(q) /\ Stays(p, q)
    BY <1>1, Zenon DEF IInv
  <2> QED BY <2>1, Frame, Zenon
<1>2. /\ ~Given(t) /\ ~Given(t)' /\ HandPage(t) = 0 /\ HandPage(t)' = 0 /\ ~Raw(t)'
      /\ why[t] = "none"
  BY Zenon DEF IInv, Control, Given, HandPage, Counted, Raw
<1>3. \A q \in Procs : q # p /\ q # t => /\ Given(q)' <=> Given(q)
                                         /\ Entry(q)' = Entry(q) /\ HandPage(q)' = HandPage(q)
                                         /\ (Raw(q)' <=> Raw(q)) /\ held'[q] = held[q]
  BY SpotsStay, Zenon DEF Stays
<1>4. Targets'
  <2>1. Targets /\ ~OnChild(t) /\ ~OnChild(t)' /\ tgt'[t] = t
    BY <1>2, Zenon DEF IInv, Targets, OnChild
  <2>2. \A q \in Procs : q # p /\ q # t =>
          /\ tgt'[q] = tgt[q] /\ (OnChild(q)' <=> OnChild(q)) /\ pc'[q] = pc[q]
          /\ tgt[q] # p /\ tgt[q] \in Procs
    BY Apart, Zenon DEF Stays, OnChild
  <2>3. ASSUME NEW q \in Procs
        PROVE  IF OnChild(q)' THEN tgt'[q] # q /\ pc'[tgt'[q]] = "embryo" ELSE tgt'[q] = q
    <3>1. CASE q = p
      BY <3>1, Zenon
    <3>2. CASE q = t
      BY <2>1, <3>2, Zenon
    <3>3. CASE q # p /\ q # t
      <4>1. IF OnChild(q) THEN tgt[q] # q /\ pc[tgt[q]] = "embryo" ELSE tgt[q] = q
        BY <2>1, Zenon DEF Targets, OnChild
      <4>2. OnChild(q) => pc'[tgt[q]] = pc[tgt[q]]
        BY <2>2, <3>3, Zenon
      <4> QED BY <2>2, <3>3, <4>1, <4>2, Zenon
    <3> QED BY <3>1, <3>2, <3>3, Zenon
  <2>4. ASSUME NEW q \in Procs, NEW r \in Procs, OnChild(q)', OnChild(r)', tgt'[q] = tgt'[r]
        PROVE  q = r
    <3>1. q # t /\ r # t
      BY <2>1, <2>4, Zenon
    <3>2. CASE q # p /\ r # p
      <4>1. OnChild(q) /\ OnChild(r) /\ tgt[q] = tgt[r]
        BY <2>2, <2>4, <3>1, <3>2, Zenon
      <4> QED BY <2>1, <4>1, Zenon DEF Targets, OnChild
    <3>3. CASE q = p \/ r = p
      <4>1. OnChild(p)' => tgt'[p] = t
        BY Zenon
      <4>2. \A u \in Procs : u # p /\ u # t /\ OnChild(u)' => tgt'[u] # t
        BY <2>2, Zenon
      <4> QED BY <2>4, <3>1, <3>3, <4>1, <4>2, Zenon
    <3> QED BY <3>2, <3>3, Zenon
  <2> QED BY <2>3, <2>4, Zenon DEF Targets, OnChild
<1>5. Balance'
  <2>1. \A q \in Procs : /\ Given(q)' <=> Given(q)
                         /\ Given(q) => Entry(q)' = Entry(q)
                         /\ HandPage(q)' = HandPage(q)
    BY <1>2, <1>3, Zenon
  <2>2. Balance /\ UNCHANGED <<pt, npt, krefcount>>
    BY Zenon DEF IInv
  <2> QED BY <2>1, <2>2, QuietPages, Zenon
<1>6. Unshared'
  <2>1. Unshared /\ \A q \in Procs : Raw(q)' => Raw(q) /\ held'[q] = held[q]
    BY <1>2, <1>3, Zenon DEF IInv
  <2> QED BY <2>1, Zenon DEF Unshared
<1> QED BY <1>1, <1>4, <1>5, <1>6, Zenon DEF IInv

(* kfork() allocates a child and begins to copy its own memory. *)
LEMMA ForkStep ==
  ASSUME IInv, NEW p \in Procs, NEW q \in Procs, Fork(p, q)
  PROVE  IInv'
<1>1. /\ PageTypes /\ TableTypes /\ LocalTypes /\ PcTypes /\ LoopTypes /\ HandTypes
      /\ Inside(p) /\ Control(p) /\ Extent(p) /\ Targets
  BY Zenon DEF IInv, LocalTypes
<1>2. /\ pc[p] = "user" /\ pc[q] = "unused" /\ q # p /\ why[p] = "none" /\ why[q] = "none" /\ sz[q] = 0
      /\ Inside(q) /\ Control(q) /\ pc[p] # "embryo"
  BY Zenon DEF Fork, IInv, Control
<1>3. /\ pc'[p] = "copy" /\ why'[p] = "fork" /\ tgt'[p] = q /\ at'[p] = 1 /\ hi'[p] = sz[p]
      /\ pc'[q] = "embryo" /\ why'[q] = why[q] /\ tgt'[q] = tgt[q] /\ sz' = sz
  BY <1>1, <1>2, Zenon DEF Fork, Loop, PcTypes, LoopTypes, HandTypes, TableTypes
<1>4. UNCHANGED <<pt, npt, krefcount, freelist>> /\ fails' = fails
  BY Zenon DEF Fork, Loop, pageVars
<1>5. \A r \in Procs : r # p /\ r # q => Stays(p, r)
  BY <1>1, <1>2, Zenon DEF Fork, Loop, Stays, PcTypes, LoopTypes, HandTypes, TableTypes
<1>6. PageTypes' /\ TableTypes' /\ LocalTypes'
  <2>1. PageTypes'
    BY <1>1, Zenon DEF Fork, Loop, pageVars, PageTypes
  <2>2. TableTypes'
    BY <1>1, <1>2, Zenon DEF Fork, Loop, TableTypes
  <2>3. PcTypes'
    BY <1>1, <1>2, Zenon DEF Fork, Loop, PcTypes, Locations
  <2>4. LoopTypes'
    <3>1. q \in Procs /\ 1 \in Nat /\ sz[p] \in 0..NVA /\ "fork" \in {"none", "fork", "exec"} \cup Loops
      BY <1>1, <1>2, CowAssumption DEF TableTypes, Loops
    <3>2. Loop(p, q, 1, sz[p], "fork")
      BY Zenon DEF Fork
    <3> QED BY <1>1, <3>1, <3>2, LoopTyped, Zenon
  <2>5. HandTypes'
    BY <1>1, Zenon DEF Fork, Loop, HandTypes
  <2> QED BY <2>1, <2>2, <2>3, <2>4, <2>5, Zenon DEF LocalTypes
<1>7. Inside(p)' /\ Control(p)' /\ Extent(p)'
  <2>1. Inside(p)'
    BY <1>1, <1>2, <1>3, <1>4, Zenon DEF Inside
  <2>2. Control(p)'
    BY <1>3, Zenon DEF Control, Freeing
  <2>3. Extent(p)'
    <3>1. \A va \in VAs : pt[q][va] = NoPte
      <4>1. \A va \in VAs : pt[q][va] # NoPte => va <= 0
        BY <1>2, Zenon DEF Inside
      <4> QED BY <4>1 DEF VAs
    <3>2. 1 >= 1
      OBVIOUS
    <3> QED BY <1>3, <1>4, <3>1, <3>2, Zenon DEF Extent, Loops
  <2> QED BY <2>1, <2>2, <2>3, Zenon
<1>8. Inside(q)' /\ Control(q)' /\ Extent(q)'
  BY <1>2, <1>3, <1>4, Zenon DEF Inside, Control, Freeing, Extent, Loops
<1>9. \A r \in Procs : r # p /\ OnChild(r) => tgt[r] # q
  BY <1>1, <1>2, Zenon DEF Targets, OnChild
<1>10. IF OnChild(p)' THEN tgt'[p] = q /\ pc'[q] = "embryo" ELSE tgt'[p] = p
  BY <1>2, <1>3, Zenon DEF OnChild
<1>11. ~Given(p) /\ ~Given(p)' /\ HandPage(p) = 0 /\ HandPage(p)' = 0 /\ ~Raw(p)'
  BY <1>2, <1>3, Zenon DEF Given, HandPage, Counted, Raw
<1> QED BY <1>2, <1>3, <1>4, <1>5, <1>6, <1>7, <1>8, <1>9, <1>10, <1>11, FamilyStep, Zenon

(* kfork() gives up its child, whose table is empty again. *)
LEMMA UndoDoneStep ==
  ASSUME IInv, NEW p \in Procs, UndoDone(p)
  PROVE  IInv'
<1>1. /\ PageTypes /\ TableTypes /\ LocalTypes /\ PcTypes /\ LoopTypes /\ HandTypes
      /\ Inside(p) /\ Control(p) /\ Extent(p) /\ Targets
  BY Zenon DEF IInv, LocalTypes
<1>0. PICK t \in Procs : t = tgt[p]
  BY Zenon DEF IInv, LocalTypes, LoopTypes
<1>2. /\ pc[p] = "unmap" /\ why[p] = "undo" /\ at[p] > hi[p] /\ pc[p] # "embryo"
      /\ t # p /\ pc[t] = "embryo" /\ why[t] = "none" /\ sz[t] = 0 /\ Inside(t) /\ t = tgt[p]
  <2>1. pc[p] = "unmap" /\ why[p] = "undo" /\ at[p] > hi[p]
    BY <1>1, Zenon DEF UndoDone, LoopEnd, Control
  <2>2. t # p /\ pc[t] = "embryo"
    BY <1>0, <1>1, <2>1, Zenon DEF Targets
  <2>3. Inside(t) /\ why[t] = "none" /\ sz[t] = 0
    BY <2>2, Zenon DEF IInv, Control
  <2> QED BY <1>0, <2>1, <2>2, <2>3, Zenon
<1>3. /\ pc'[p] = "user" /\ why'[p] = "none" /\ tgt'[p] = p /\ at'[p] = 0 /\ hi'[p] = 0
      /\ pc'[t] = "unused" /\ why'[t] = why[t] /\ tgt'[t] = tgt[t] /\ sz' = sz
  BY <1>1, <1>2, Zenon DEF UndoDone, LoopEnd, Loop, PcTypes, LoopTypes, HandTypes, TableTypes
<1>4. UNCHANGED <<pt, npt, krefcount, freelist>> /\ fails' = fails
  BY Zenon DEF UndoDone, LoopEnd, Loop, pageVars
<1>5. \A r \in Procs : r # p /\ r # t => Stays(p, r)
  BY <1>1, <1>2, Zenon DEF UndoDone, LoopEnd, Loop, Stays, PcTypes, LoopTypes, HandTypes, TableTypes
<1>6. PageTypes' /\ TableTypes' /\ LocalTypes'
  <2>1. PageTypes'
    BY <1>1, Zenon DEF UndoDone, LoopEnd, Loop, pageVars, PageTypes
  <2>2. TableTypes'
    BY <1>1, <1>2, Zenon DEF UndoDone, LoopEnd, Loop, TableTypes
  <2>3. PcTypes'
    BY <1>1, <1>2, Zenon DEF UndoDone, LoopEnd, Loop, PcTypes, Locations
  <2>4. LoopTypes'
    <3>1. p \in Procs /\ 0 \in Nat /\ 0 \in 0..NVA /\ "none" \in {"none", "fork", "exec"} \cup Loops
      BY <1>1, <1>2, CowAssumption DEF TableTypes, Loops
    <3>2. Loop(p, p, 0, 0, "none")
      BY Zenon DEF UndoDone, LoopEnd
    <3> QED BY <1>1, <3>1, <3>2, LoopTyped, Zenon
  <2>5. HandTypes'
    BY <1>1, Zenon DEF UndoDone, LoopEnd, Loop, HandTypes
  <2> QED BY <2>1, <2>2, <2>3, <2>4, <2>5, Zenon DEF LocalTypes
<1>7. Inside(p)' /\ Control(p)' /\ Extent(p)'
  <2>1. Inside(p)'
    BY <1>1, <1>2, <1>3, <1>4, Zenon DEF Inside
  <2>2. Control(p)'
    BY <1>3, Zenon DEF Control, Freeing
  <2>3. Extent(p)'
    BY <1>3, Zenon DEF Extent, Loops
  <2> QED BY <2>1, <2>2, <2>3, Zenon
<1>8. Inside(t)' /\ Control(t)' /\ Extent(t)'
  <2>1. \A va \in VAs : pt[t][va] # NoPte => va <= sz[t]
    <3>1. \A va \in VAs : pt[t][va] # NoPte => va <= hi[p] /\ va >= at[p]
      BY <1>1, <1>2, Zenon DEF Extent, Table, Loops
    <3>2. at[p] \in Nat /\ hi[p] \in Nat
      BY <1>1 DEF LoopTypes
    <3> QED BY <1>2, <3>1, <3>2 DEF VAs
  <2>2. Inside(t)'
    BY <1>2, <1>3, <1>4, <2>1, Zenon DEF Inside
  <2>3. Control(t)'
    BY <1>2, <1>3, Zenon DEF Control, Freeing
  <2>4. Extent(t)'
    BY <1>2, <1>3, Zenon DEF Extent, Loops
  <2> QED BY <2>2, <2>3, <2>4, Zenon
<1>9. \A r \in Procs : r # p /\ OnChild(r) => tgt[r] # t
  BY <1>1, <1>2, Zenon DEF Targets, OnChild
<1>10. IF OnChild(p)' THEN tgt'[p] = t /\ pc'[t] = "embryo" ELSE tgt'[p] = p
  BY <1>2, <1>3, Zenon DEF OnChild
<1>11. ~Given(p) /\ ~Given(p)' /\ HandPage(p) = 0 /\ HandPage(p)' = 0 /\ ~Raw(p)'
  BY <1>2, <1>3, Zenon DEF Given, HandPage, Counted, Raw
<1> QED BY <1>2, <1>3, <1>4, <1>5, <1>6, <1>7, <1>8, <1>9, <1>10, <1>11, FamilyStep, Zenon

(* kfork() lets its child run, with all the pages of the parent. *)
LEMMA CopyDoneStep ==
  ASSUME IInv, NEW p \in Procs, CopyDone(p)
  PROVE  IInv'
<1>1. /\ PageTypes /\ TableTypes /\ LocalTypes /\ PcTypes /\ LoopTypes /\ HandTypes
      /\ Inside(p) /\ Control(p) /\ Extent(p) /\ Targets
  BY Zenon DEF IInv, LocalTypes
<1>0. PICK t \in Procs : t = tgt[p]
  BY Zenon DEF IInv, LocalTypes, LoopTypes
<1>2. /\ pc[p] = "copy" /\ why[p] = "fork" /\ at[p] > hi[p] /\ pc[p] # "embryo"
      /\ t # p /\ pc[t] = "embryo" /\ why[t] = "none" /\ sz[t] = 0 /\ Inside(t) /\ t = tgt[p]
  <2>1. pc[p] = "copy" /\ why[p] = "fork" /\ at[p] > hi[p]
    BY <1>1, Zenon DEF CopyDone, LoopEnd, Control
  <2>2. t # p /\ pc[t] = "embryo"
    BY <1>0, <1>1, <2>1, Zenon DEF Targets
  <2>3. Inside(t) /\ why[t] = "none" /\ sz[t] = 0
    BY <2>2, Zenon DEF IInv, Control
  <2> QED BY <1>0, <2>1, <2>2, <2>3, Zenon
<1>3. /\ pc'[p] = "user" /\ why'[p] = "none" /\ tgt'[p] = p /\ at'[p] = 0 /\ hi'[p] = 0
      /\ pc'[t] = "user" /\ why'[t] = why[t] /\ tgt'[t] = tgt[t] /\ sz'[p] = sz[p] /\ sz'[t] = sz[p]
  BY <1>1, <1>2, Zenon DEF CopyDone, Loop, PcTypes, LoopTypes, HandTypes, TableTypes
<1>4. UNCHANGED <<pt, npt, krefcount, freelist>> /\ fails' = fails
  BY Zenon DEF CopyDone, Loop, pageVars
<1>5. \A r \in Procs : r # p /\ r # t => Stays(p, r)
  BY <1>1, <1>2, Zenon DEF CopyDone, Loop, Stays, PcTypes, LoopTypes, HandTypes, TableTypes
<1>6. PageTypes' /\ TableTypes' /\ LocalTypes'
  <2>1. PageTypes'
    BY <1>1, Zenon DEF CopyDone, Loop, pageVars, PageTypes
  <2>2. TableTypes'
    BY <1>1, <1>2, Zenon DEF CopyDone, Loop, TableTypes
  <2>3. PcTypes'
    BY <1>1, <1>2, Zenon DEF CopyDone, Loop, PcTypes, Locations
  <2>4. LoopTypes'
    <3>1. p \in Procs /\ 0 \in Nat /\ 0 \in 0..NVA /\ "none" \in {"none", "fork", "exec"} \cup Loops
      BY <1>1, <1>2, CowAssumption DEF TableTypes, Loops
    <3>2. Loop(p, p, 0, 0, "none")
      BY Zenon DEF CopyDone
    <3> QED BY <1>1, <3>1, <3>2, LoopTyped, Zenon
  <2>5. HandTypes'
    BY <1>1, Zenon DEF CopyDone, Loop, HandTypes
  <2> QED BY <2>1, <2>2, <2>3, <2>4, <2>5, Zenon DEF LocalTypes
<1>7. Inside(p)' /\ Control(p)' /\ Extent(p)'
  <2>1. Inside(p)'
    BY <1>1, <1>2, <1>3, <1>4, Zenon DEF Inside
  <2>2. Control(p)'
    BY <1>3, Zenon DEF Control, Freeing
  <2>3. Extent(p)'
    BY <1>3, Zenon DEF Extent, Loops
  <2> QED BY <2>1, <2>2, <2>3, Zenon
<1>8. Inside(t)' /\ Control(t)' /\ Extent(t)'
  <2>1. \A va \in VAs : pt[t][va] # NoPte => va <= sz[p]
    BY <1>1, <1>2, Zenon DEF Extent
  <2>2. Inside(t)'
    BY <1>2, <1>3, <1>4, <2>1, Zenon DEF Inside
  <2>3. Control(t)'
    BY <1>2, <1>3, Zenon DEF Control, Freeing
  <2>4. Extent(t)'
    BY <1>2, <1>3, Zenon DEF Extent, Loops
  <2> QED BY <2>2, <2>3, <2>4, Zenon
<1>9. \A r \in Procs : r # p /\ OnChild(r) => tgt[r] # t
  BY <1>1, <1>2, Zenon DEF Targets, OnChild
<1>10. IF OnChild(p)' THEN tgt'[p] = t /\ pc'[t] = "embryo" ELSE tgt'[p] = p
  BY <1>2, <1>3, Zenon DEF OnChild
<1>11. ~Given(p) /\ ~Given(p)' /\ HandPage(p) = 0 /\ HandPage(p)' = 0 /\ ~Raw(p)'
  BY <1>2, <1>3, Zenon DEF Given, HandPage, Counted, Raw
<1> QED BY <1>2, <1>3, <1>4, <1>5, <1>6, <1>7, <1>8, <1>9, <1>10, <1>11, FamilyStep, Zenon

-----------------------------------------------------------------------------
(* ---- the invariant ---- *)

(* It holds at the start. *)
LEMMA InitIInv ==
  ASSUME Counting, Init
  PROVE  IInv
<1>1. /\ \A p \in Procs : /\ pc[p] = "user" \/ pc[p] = "unused"
                          /\ held[p] = 0 /\ why[p] = "none" /\ tgt[p] = p
                          /\ pc[p] = "unused" => sz[p] = 0
      /\ \A p \in Procs, va \in VAs : pt[p][va] = NoPte /\ npt[p][va] = NoPte
      /\ freelist = Pages /\ fails = 0 /\ \A pa \in Pages : krefcount[pa] = 0
  <2>1. \A p \in Procs : pc[p] = IF p = init THEN "user" ELSE "unused"
    BY Zenon DEF Init
  <2>2. \A p \in Procs : sz[p] = IF p = init THEN NVA ELSE 0
    BY Zenon DEF Init
  <2>3. \A p \in Procs : pc[p] = "unused" => sz[p] = 0
    BY <2>1, <2>2, Zenon
  <2>4. \A p \in Procs, va \in VAs : pt[p][va] = NoPte /\ npt[p][va] = NoPte
    BY Zenon DEF Init
  <2>5. \A p \in Procs : held[p] = 0 /\ why[p] = "none" /\ tgt[p] = p
    BY Zenon DEF Init
  <2>6. freelist = Pages /\ fails = 0 /\ \A pa \in Pages : krefcount[pa] = 0
    BY Zenon DEF Init
  <2> QED BY <2>1, <2>3, <2>4, <2>5, <2>6, Zenon
<1>2. PageTypes
  <2>1. 0 \in Nat /\ Junk \in 0..3
    BY DEF Junk
  <2> QED BY <2>1, Zenon DEF Init, PageTypes
<1>3. TableTypes
  <2>1. NVA \in 0..NVA /\ 0 \in 0..NVA
    BY CowAssumption
  <2>2. NoPte \in Ptes
    BY Zenon DEF Ptes
  <2>3. [p \in Procs |-> [va \in VAs |-> NoPte]] \in [Procs -> [VAs -> Ptes]]
    BY <2>2, Zenon
  <2>4. [p \in Procs |-> IF p = init THEN NVA ELSE 0] \in [Procs -> 0..NVA]
    BY <2>1, Zenon
  <2> QED BY <2>3, <2>4, Zenon DEF Init, TableTypes
<1>4. PcTypes
  BY Zenon DEF Init, PcTypes, Locations
<1>5. LoopTypes
  <2>1. 0 \in Nat /\ 0 \in 0..NVA
    BY CowAssumption
  <2> QED BY <2>1, Zenon DEF Init, LoopTypes
<1>6. HandTypes
  <2>1. 0 \in Nat
    OBVIOUS
  <2> QED BY <2>1, Zenon DEF Init, HandTypes
<1>7. ASSUME NEW p \in Procs PROVE Inside(p) /\ Control(p) /\ Extent(p)
  <2>1. Inside(p)
    BY <1>1, Zenon DEF Inside
  <2>2. Control(p)
    BY <1>1, Zenon DEF Control, Freeing
  <2>3. Extent(p)
    BY <1>1, Zenon DEF Extent, Loops
  <2> QED BY <2>1, <2>2, <2>3, Zenon
<1>8. Targets
  BY <1>1, Zenon DEF Targets
<1>9. Unshared
  BY <1>1, Zenon DEF Unshared, Raw
<1>10. Balance
  <2> SUFFICES ASSUME NEW pa \in Pages PROVE Cardinality(Uses(pa)) = 0 /\ krefcount[pa] = 0
    <3>1. 0 <= 0
      OBVIOUS
    <3> QED BY <3>1, Zenon DEF Balance
  <2>1. pa # 0 /\ NoPte.pa = 0
    BY CowAssumption DEF NoPte
  <2>2. ASSUME NEW x \in Spots PROVE Page(x) = 0
    <3>1. ASSUME NEW p \in Procs PROVE Page(<<p, 0, "hand">>) = 0
      <4>1. HandPage(p) = 0
        BY <1>1, Zenon DEF HandPage, Counted
      <4> QED BY <4>1, SpotPages, Zenon
    <3>2. ASSUME NEW p \in Procs, NEW va \in VAs
          PROVE  Page(<<p, va, "pt">>) = 0 /\ Page(<<p, va, "npt">>) = 0
      <4>1. pt[p][va].pa = 0 /\ npt[p][va].pa = 0
        BY <1>1, <2>1, Zenon
      <4>2. /\ Page(<<p, va, "pt">>) = IF GivenUp(<<p, va, "pt">>) THEN 0 ELSE pt[p][va].pa
            /\ Page(<<p, va, "npt">>) = IF GivenUp(<<p, va, "npt">>) THEN 0 ELSE npt[p][va].pa
        BY SpotPages, Zenon
      <4> QED BY <4>1, <4>2, Zenon
    <3>3. CASE \E p \in Procs : x = <<p, 0, "hand">>
      BY <3>1, <3>3, Zenon
    <3>4. CASE \E p \in Procs, va \in VAs : x = <<p, va, "pt">>
      BY <3>2, <3>4, Zenon
    <3>5. CASE \E p \in Procs, va \in VAs : x = <<p, va, "npt">>
      BY <3>2, <3>5, Zenon
    <3> QED BY <3>3, <3>4, <3>5, SpotKinds, Zenon
  <2>3. Uses(pa) = {}
    BY <2>1, <2>2, Zenon DEF Uses
  <2>4. IsFiniteSet(Uses(pa))
    BY FiniteSpots, Zenon
  <2> QED BY <1>1, <2>3, <2>4, Zenon DEF Counting, CountNat
<1> QED BY <1>2, <1>3, <1>4, <1>5, <1>6, <1>7, <1>8, <1>9, <1>10, Zenon DEF IInv, LocalTypes

(* It says nothing of a step that changes nothing. *)
LEMMA StutterIInv ==
  ASSUME IInv, UNCHANGED vars
  PROVE  IInv'
<1>1. /\ UNCHANGED <<krefcount, freelist, data>> /\ UNCHANGED <<pt, npt, sz>>
      /\ UNCHANGED <<pc, ret, held, fails>> /\ UNCHANGED <<at, hi, tgt, why>>
  BY Zenon DEF vars, pageVars, loopVars
<1>2. PageTypes' /\ TableTypes' /\ PcTypes' /\ LoopTypes' /\ HandTypes'
  BY <1>1, Zenon DEF IInv, LocalTypes, PageTypes, TableTypes, PcTypes, LoopTypes, HandTypes
<1>3. ASSUME NEW q \in Procs PROVE Inside(q)' /\ Control(q)' /\ Extent(q)'
  <2>1. Inside(q) /\ Control(q) /\ Extent(q)
    BY Zenon DEF IInv
  <2>2. Stays(q, q)
    BY <1>1, Zenon DEF Stays
  <2> QED BY <1>1, <2>1, <2>2, Frame, Zenon
<1>4. \A q \in Procs : /\ Given(q)' <=> Given(q)
                       /\ Entry(q)' = Entry(q) /\ HandPage(q)' = HandPage(q) /\ (Raw(q)' <=> Raw(q))
  <2>1. \A q \in Procs : Stays(q, q)
    BY <1>1, Zenon DEF Stays
  <2> QED BY <2>1, SpotsStay, Zenon
<1>5. Balance'
  <2>1. UNCHANGED <<pt, npt, krefcount>> /\ fails' = fails /\ Balance
    BY <1>1, Zenon DEF IInv
  <2> QED BY <1>4, <2>1, QuietPages, Zenon
<1>6. Unshared' /\ Targets'
  BY <1>1, <1>4, Zenon DEF IInv, Unshared, Targets
<1> QED BY <1>2, <1>3, <1>5, <1>6, Zenon DEF IInv, LocalTypes

(* Every step of every process keeps it. *)
LEMMA NextIInv ==
  ASSUME Counting, IInv, Next
  PROVE  IInv'
<1>1. PICK p \in Procs :
        \/ KfreeDec(p) \/ KfreePush(p)
        \/ \E va \in VAs : FaultAlloc(p, va) \/ \E v \in Stores : Store(p, va, v)
        \/ FaultFill(p) \/ FaultCopy(p) \/ FaultLazy(p) \/ FaultLazyFail(p)
        \/ UnmapSkip(p) \/ UnmapFree(p) \/ UnmapClear(p)
        \/ Exit(p) \/ ExitDone(p) \/ SbrkShrink(p) \/ ShrinkDone(p) \/ SbrkLazy(p)
        \/ \E q \in Procs : Fork(p, q)
        \/ CopySkip(p) \/ CopyRef(p) \/ CopyMap(p) \/ CopyMapFail(p) \/ UndoDone(p) \/ CopyDone(p)
        \/ \E n \in VAs : Exec(p, n)
        \/ ExecPage(p) \/ ExecPageFail(p) \/ ExecBad(p) \/ ExecCommit(p) \/ ExecDone(p)
  BY Zenon DEF Next
<1>2. CASE KfreeDec(p)
  BY <1>2, KfreeDecStep, Zenon
<1>3. CASE KfreePush(p)
  BY <1>3, KfreePushStep, Zenon
<1>4. ASSUME NEW va \in VAs, FaultAlloc(p, va) PROVE IInv'
  BY <1>4, FaultAllocStep, Zenon
<1>5. ASSUME NEW va \in VAs, NEW v \in Stores, Store(p, va, v) PROVE IInv'
  BY <1>5, StoreStep, Zenon
<1>6. CASE FaultFill(p)
  BY <1>6, FaultFillStep, Zenon
<1>7. CASE FaultCopy(p)
  BY <1>7, FaultCopyStep, Zenon
<1>8. CASE FaultLazy(p)
  BY <1>8, FaultLazyStep, Zenon
<1>9. CASE FaultLazyFail(p)
  BY <1>9, FaultLazyFailStep, Zenon
<1>10. CASE UnmapSkip(p)
  BY <1>10, UnmapSkipStep, Zenon
<1>11. CASE UnmapFree(p)
  BY <1>11, UnmapFreeStep, Zenon
<1>12. CASE UnmapClear(p)
  BY <1>12, UnmapClearStep, Zenon
<1>13. CASE Exit(p)
  BY <1>13, ExitStep, Zenon
<1>14. CASE ExitDone(p)
  BY <1>14, ExitDoneStep, Zenon
<1>15. CASE SbrkShrink(p)
  BY <1>15, SbrkShrinkStep, Zenon
<1>16. CASE ShrinkDone(p)
  BY <1>16, ShrinkDoneStep, Zenon
<1>17. CASE SbrkLazy(p)
  BY <1>17, SbrkLazyStep, Zenon
<1>18. ASSUME NEW q \in Procs, Fork(p, q) PROVE IInv'
  BY <1>18, ForkStep, Zenon
<1>19. CASE CopySkip(p)
  BY <1>19, CopySkipStep, Zenon
<1>20. CASE CopyRef(p)
  BY <1>20, CopyRefStep, Zenon
<1>21. CASE CopyMap(p)
  BY <1>21, CopyMapStep, Zenon
<1>22. CASE CopyMapFail(p)
  BY <1>22, CopyMapFailStep, Zenon
<1>23. CASE UndoDone(p)
  BY <1>23, UndoDoneStep, Zenon
<1>24. CASE CopyDone(p)
  BY <1>24, CopyDoneStep, Zenon
<1>25. ASSUME NEW n \in VAs, Exec(p, n) PROVE IInv'
  BY <1>25, ExecStep, Zenon
<1>26. CASE ExecPage(p)
  <2>1. PICK a \in freelist : ExecTakes(p, a)
    BY <1>26, Zenon DEF ExecPage, ExecTakes
  <2> QED BY <1>26, <2>1, ExecPageStep, Zenon
<1>27. CASE ExecPageFail(p)
  <2>1. PICK a \in freelist : ExecReturns(p, a)
    BY <1>27, Zenon DEF ExecPageFail, ExecReturns
  <2> QED BY <1>27, <2>1, ExecPageFailStep, Zenon
<1>28. CASE ExecBad(p)
  BY <1>28, ExecBadStep, Zenon
<1>29. CASE ExecCommit(p)
  BY <1>29, ExecCommitStep, Zenon
<1>30. CASE ExecDone(p)
  BY <1>30, ExecDoneStep, Zenon
<1> QED BY <1>1, <1>2, <1>3, <1>4, <1>5, <1>6, <1>7, <1>8, <1>9, <1>10, <1>11, <1>12, <1>13, <1>14,
          <1>15, <1>16, <1>17, <1>18, <1>19, <1>20, <1>21, <1>22, <1>23, <1>24, <1>25, <1>26, <1>27,
          <1>28, <1>29, <1>30, Zenon

-----------------------------------------------------------------------------
(* ---- Refs counts the uses ---- *)

\* The entries that map pa, those of them that are given up, by whom, and the hands.
Entries == Procs \X VAs \X {"pt", "npt"}
Gone(pa) == {x \in Mappings(pa) : GivenUp(x)}
Givers(pa) == {p \in Procs : Given(p) /\ Table(p)[at[p]].pa = pa}
Hands(pa) == {x \in Procs \X {0} \X {"hand"} : Page(x) = pa}

(* An entry is an entry of one of the two tables. *)
LEMMA EntryKinds ==
  /\ \A x \in Entries : \E p \in Procs, va \in VAs : x = <<p, va, "pt">> \/ x = <<p, va, "npt">>
  /\ \A pa : \A p \in Procs, va \in VAs :
       /\ <<p, va, "pt">> \in Mappings(pa) <=> pt[p][va].pa = pa
       /\ <<p, va, "npt">> \in Mappings(pa) <=> npt[p][va].pa = pa
<1>1. ASSUME NEW x \in Entries
      PROVE  \E p \in Procs, va \in VAs : x = <<p, va, "pt">> \/ x = <<p, va, "npt">>
  <2>1. x[1] \in Procs /\ x[2] \in VAs /\ x[3] \in {"pt", "npt"} /\ x = <<x[1], x[2], x[3]>>
    BY DEF Entries
  <2> QED BY <2>1, Zenon
<1>2. ASSUME NEW pa, NEW p \in Procs, NEW va \in VAs
      PROVE  <<p, va, "pt">> \in Mappings(pa) <=> pt[p][va].pa = pa
  <2> DEFINE x == <<p, va, "pt">>
  <2>1. x \in Procs \X VAs \X {"pt", "npt"} /\ x[1] = p /\ x[2] = va /\ x[3] = "pt"
    OBVIOUS
  <2> HIDE DEF x
  <2>2. x \in Mappings(pa) <=> pt[p][va].pa = pa
    BY <2>1, Zenon DEF Mappings
  <2> QED BY <2>2, Zenon DEF x
<1>3. ASSUME NEW pa, NEW p \in Procs, NEW va \in VAs
      PROVE  <<p, va, "npt">> \in Mappings(pa) <=> npt[p][va].pa = pa
  <2> DEFINE x == <<p, va, "npt">>
  <2>1. x \in Procs \X VAs \X {"pt", "npt"} /\ x[1] = p /\ x[2] = va /\ x[3] = "npt" /\ x[3] # "pt"
    OBVIOUS
  <2> HIDE DEF x
  <2>2. x \in Mappings(pa) <=> npt[p][va].pa = pa
    BY <2>1, Zenon DEF Mappings
  <2> QED BY <2>2, Zenon DEF x
<1> QED BY <1>1, <1>2, <1>3, Zenon

(* The uses are the mappings that are not given up, and the hands. *)
LEMMA UsesSplit ==
  ASSUME NEW pa \in Pages
  PROVE  /\ Uses(pa) = (Mappings(pa) \ Gone(pa)) \cup Hands(pa)
         /\ (Mappings(pa) \ Gone(pa)) \cap Hands(pa) = {}
<1>1. pa # 0
  BY CowAssumption, Zenon
<1>2. ASSUME NEW x \in Entries
      PROVE  x \in Spots /\ x \notin Hands(pa) /\ (Page(x) = pa <=> x \in Mappings(pa) \ Gone(pa))
  <2>1. PICK p \in Procs, va \in VAs : x = <<p, va, "pt">> \/ x = <<p, va, "npt">>
    BY EntryKinds, Zenon
  <2>2. x \in Spots /\ x \notin Hands(pa)
    <3>1. x \in Spots
      BY <2>1, SpotPages, Zenon
    <3>2. x[3] # "hand"
      BY <2>1
    <3>3. \A y \in Procs \X {0} \X {"hand"} : y[3] = "hand"
      OBVIOUS
    <3> QED BY <3>1, <3>2, <3>3, Zenon DEF Hands
  <2>3. CASE x = <<p, va, "pt">>
    <3>1. Page(x) = IF GivenUp(x) THEN 0 ELSE pt[p][va].pa
      BY <2>3, SpotPages, Zenon
    <3>2. x \in Mappings(pa) <=> pt[p][va].pa = pa
      BY <2>3, EntryKinds, Zenon
    <3> QED BY <1>1, <2>2, <3>1, <3>2, Zenon DEF Gone
  <2>4. CASE x = <<p, va, "npt">>
    <3>1. Page(x) = IF GivenUp(x) THEN 0 ELSE npt[p][va].pa
      BY <2>4, SpotPages, Zenon
    <3>2. x \in Mappings(pa) <=> npt[p][va].pa = pa
      BY <2>4, EntryKinds, Zenon
    <3> QED BY <1>1, <2>2, <3>1, <3>2, Zenon DEF Gone
  <2> QED BY <2>1, <2>3, <2>4, Zenon
<1>3. Mappings(pa) \subseteq Entries
  BY Zenon DEF Mappings, Entries
<1>4. Spots = Entries \cup (Procs \X {0} \X {"hand"})
  BY Zenon DEF Spots, Entries
<1> QED BY <1>2, <1>3, <1>4, Zenon DEF Uses, Hands

(* A process gives up one entry, and no two of them the same. *)
LEMMA GoneCount ==
  ASSUME Counting, IInv, NEW pa \in Pages
  PROVE  IsFiniteSet(Givers(pa)) /\ Cardinality(Gone(pa)) = Cardinality(Givers(pa))
<1> DEFINE S == Givers(pa)
           T == Gone(pa)
           f == [p \in S |-> Entry(p)]
<1>1. IsFiniteSet(S)
  <2>1. S \in SUBSET Procs
    BY Zenon DEF Givers
  <2> QED BY <2>1, CowAssumption, Zenon DEF Counting, FiniteSome
<1>2. ASSUME NEW p \in Procs, Given(p)
      PROVE  why[p] \in Loops /\ (Entry(p) \in Mappings(pa) <=> Table(p)[at[p]].pa = pa)
  <2>1. why[p] \in Loops /\ at[p] \in 1..hi[p] /\ hi[p] \in 0..NVA /\ tgt[p] \in Procs
    BY <1>2, Zenon DEF IInv, Control, Given, Freeing, LocalTypes, LoopTypes
  <2>2. at[p] \in VAs
    BY <2>1, CowAssumption DEF VAs
  <2>3. CASE why[p] \in {"bad", "old"}
    <3>1. Entry(p) = <<p, at[p], "npt">> /\ Table(p) = npt[p]
      BY <2>3, Zenon DEF Entry, Table
    <3>2. <<p, at[p], "npt">> \in Mappings(pa) <=> npt[p][at[p]].pa = pa
      BY <2>1, <2>2, EntryKinds, Zenon
    <3> QED BY <2>1, <3>1, <3>2, Zenon
  <2>4. CASE why[p] \notin {"bad", "old"}
    <3>1. Entry(p) = <<tgt[p], at[p], "pt">> /\ Table(p) = pt[tgt[p]]
      BY <2>4, Zenon DEF Entry, Table
    <3>2. <<tgt[p], at[p], "pt">> \in Mappings(pa) <=> pt[tgt[p]][at[p]].pa = pa
      BY <2>1, <2>2, EntryKinds, Zenon
    <3> QED BY <2>1, <3>1, <3>2, Zenon
  <2> QED BY <2>3, <2>4, Zenon
<1>3. f \in [S -> T]
  <2>1. ASSUME NEW p \in S PROVE Entry(p) \in T
    <3>1. p \in Procs /\ Given(p) /\ Table(p)[at[p]].pa = pa
      BY Zenon DEF Givers
    <3> QED BY <1>2, <3>1, Zenon DEF Gone, GivenUp
  <2> QED BY <2>1, Zenon
<1>4. ASSUME NEW p \in S, NEW q \in S, f[p] = f[q] PROVE p = q
  <2>1. p \in Procs /\ q \in Procs /\ Given(p) /\ Given(q) /\ Entry(p) = Entry(q)
    BY <1>4, Zenon DEF Givers
  <2>2. why[p] \in Loops /\ why[q] \in Loops
    BY <1>2, <2>1, Zenon
  <2> QED BY <2>1, <2>2, OwnEntry, Zenon
<1>5. ASSUME NEW y \in T PROVE \E p \in S : f[p] = y
  <2>1. PICK p \in Procs : Given(p) /\ Entry(p) = y
    BY Zenon DEF Gone, GivenUp
  <2>2. p \in S
    BY <1>2, <2>1, Zenon DEF Gone, Givers
  <2> QED BY <2>1, <2>2, Zenon
<1> HIDE DEF S, T, f
<1>6. Cardinality(T) = Cardinality(S)
  BY <1>1, <1>3, <1>4, <1>5, Zenon DEF Counting, CountBijection
<1> QED BY <1>1, <1>6, Zenon DEF S, T

(* The hands that refer to pa are InHand. *)
LEMMA HandCount ==
  ASSUME Counting, NEW pa \in Pages
  PROVE  IsFiniteSet(Hands(pa)) /\ Cardinality(Hands(pa)) = Cardinality(InHand(pa))
<1> DEFINE S == InHand(pa)
           T == Hands(pa)
           f == [p \in S |-> <<p, 0, "hand">>]
<1>1. IsFiniteSet(S)
  <2>1. S \in SUBSET Procs
    BY Zenon DEF InHand
  <2> QED BY <2>1, CowAssumption, Zenon DEF Counting, FiniteSome
<1>2. ASSUME NEW p \in Procs
      PROVE  /\ <<p, 0, "hand">> \in Procs \X {0} \X {"hand"}
             /\ (Page(<<p, 0, "hand">>) = pa <=> p \in S)
  <2>1. <<p, 0, "hand">> \in Procs \X {0} \X {"hand"}
    OBVIOUS
  <2>2. Page(<<p, 0, "hand">>) = HandPage(p) /\ pa # 0
    BY CowAssumption, SpotPages, Zenon
  <2> QED BY <2>1, <2>2, Zenon DEF HandPage, InHand
<1>3. f \in [S -> T]
  <2>1. ASSUME NEW p \in S PROVE <<p, 0, "hand">> \in T
    <3>1. p \in Procs
      BY Zenon DEF InHand
    <3> QED BY <1>2, <3>1, Zenon DEF Hands
  <2> QED BY <2>1, Zenon
<1>4. ASSUME NEW p \in S, NEW q \in S, f[p] = f[q] PROVE p = q
  <2>1. <<p, 0, "hand">> = <<q, 0, "hand">>
    BY <1>4, Zenon
  <2> QED BY <2>1
<1>5. ASSUME NEW y \in T PROVE \E p \in S : f[p] = y
  <2>1. y \in Procs \X {0} \X {"hand"} /\ Page(y) = pa
    BY Zenon DEF Hands
  <2>2. y[1] \in Procs /\ y = <<y[1], 0, "hand">>
    BY <2>1
  <2>3. y[1] \in S
    BY <1>2, <2>1, <2>2, Zenon
  <2> QED BY <2>2, <2>3, Zenon
<1> HIDE DEF S, T, f
<1>6. IsFiniteSet(T) /\ Cardinality(T) = Cardinality(S)
  BY <1>1, <1>3, <1>4, <1>5, Zenon DEF Counting, CountBijection
<1> QED BY <1>6, Zenon DEF S, T

(* Refs(pa) is the number of uses of pa. *)
LEMMA RefsAreUses ==
  ASSUME Counting, IInv, NEW pa \in Pages
  PROVE  Refs(pa) = Cardinality(Uses(pa))
<1> DEFINE M == Mappings(pa)
           G == Gone(pa)
           H == Hands(pa)
           D == Dropped(pa)
           C == {p \in Procs : held[p] = pa /\ Scrubbed(p) /\ ret[p] = "unmap_clear"}
<1>1. IsFiniteSet(M) /\ IsFiniteSet(G) /\ IsFiniteSet(M \ G)
  <2>1. M \in SUBSET (Procs \X VAs \X {"pt", "npt"}) /\ G \in SUBSET M /\ M \ G \in SUBSET M
    BY Zenon DEF Mappings, Gone
  <2>2. IsFiniteSet(M)
    BY <2>1, FiniteSpots, Zenon DEF Counting, FiniteSome
  <2> QED BY <2>1, <2>2, Zenon DEF Counting, FiniteSome
<1>2. Cardinality(M) = Cardinality(M \ G) + Cardinality(G)
  <2>1. M = (M \ G) \cup G /\ (M \ G) \cap G = {}
    BY Zenon DEF Gone
  <2> HIDE DEF M, G
  <2> QED BY <1>1, <2>1, Zenon DEF Counting, CountUnion
<1>3. Cardinality(Uses(pa)) = Cardinality(M \ G) + Cardinality(H)
  <2>1. Uses(pa) = (M \ G) \cup H /\ (M \ G) \cap H = {} /\ IsFiniteSet(H)
    BY UsesSplit, HandCount, Zenon
  <2> HIDE DEF M, G, H
  <2> QED BY <1>1, <2>1, Zenon DEF Counting, CountUnion
<1>4. Givers(pa) = D \cup C /\ D \cap C = {}
  <2>1. ASSUME NEW p \in Procs, pc[p] = "kfree_push", ret[p] = "unmap_clear"
        PROVE  held[p] = Table(p)[at[p]].pa
    BY <2>1, Zenon DEF IInv, Control, Freeing
  <2> QED BY <2>1, Zenon DEF Givers, Given, Dropped, Scrubbed
<1>5. IsFiniteSet(D) /\ IsFiniteSet(C)
  <2>1. D \in SUBSET Procs /\ C \in SUBSET Procs
    BY Zenon DEF Dropped
  <2> QED BY <2>1, CowAssumption, Zenon DEF Counting, FiniteSome
<1>6. Cardinality(G) = Cardinality(D) + Cardinality(C)
  <2>1. Cardinality(G) = Cardinality(Givers(pa))
    BY GoneCount, Zenon
  <2> HIDE DEF D, C, G
  <2>2. Cardinality(D \cup C) = Cardinality(D) + Cardinality(C)
    BY <1>4, <1>5, Zenon DEF Counting, CountUnion
  <2> QED BY <1>4, <2>1, <2>2, Zenon
<1>7. Cardinality(H) = Cardinality(InHand(pa)) /\ IsFiniteSet(H)
  BY HandCount, Zenon
<1>8. Refs(pa) = (Cardinality(M) + Cardinality(InHand(pa))) - Cardinality(D) - Cardinality(C)
  BY Zenon DEF Refs
<1>9. /\ Cardinality(M \ G) \in Nat /\ Cardinality(H) \in Nat /\ Cardinality(D) \in Nat
      /\ Cardinality(C) \in Nat
  BY <1>1, <1>5, <1>7, Zenon DEF Counting, CountNat
<1> DEFINE mg == Cardinality(M \ G)
           h == Cardinality(H)
           d == Cardinality(D)
           c == Cardinality(C)
           u == Cardinality(Uses(pa))
<1>10. Refs(pa) = ((mg + (d + c)) + h) - d - c
  BY <1>2, <1>6, <1>7, <1>8, Zenon
<1>11. u = mg + h /\ mg \in Nat /\ h \in Nat /\ d \in Nat /\ c \in Nat
  BY <1>3, <1>9, Zenon
<1> HIDE DEF mg, h, d, c, u
<1>12. Refs(pa) = u
  BY <1>10, <1>11
<1> QED BY <1>12, Zenon DEF u

(* What the invariant says of the counts. *)
LEMMA IInvPagesExact ==
  ASSUME Counting, IInv
  PROVE  PagesExact
<1>1. TypeOK
  BY Zenon DEF IInv, LocalTypes, PageTypes, TableTypes, HandTypes, Inside, TypeOK
<1>2. \A pa \in Pages : /\ Refs(pa) <= krefcount[pa]
                        /\ fails = 0 => Refs(pa) = krefcount[pa]
  BY RefsAreUses, Zenon DEF IInv, Balance
<1>3. \A pa \in Pages : pa \in freelist => krefcount[pa] = 0
  BY Zenon DEF IInv, Unshared
<1> QED BY <1>1, <1>2, <1>3, Zenon DEF PagesExact, NoEarlyFree, RefcountExact

-----------------------------------------------------------------------------
(* ---- the facts about finite sets hold ---- *)

FS == INSTANCE FiniteSetTheorems

(* The instance means the same finite sets and the same cardinalities. *)
LEMMA SameSets ==
  \A S : FS!Cardinality(S) = Cardinality(S) /\ (FS!IsFiniteSet(S) <=> IsFiniteSet(S))
BY Zenon DEF FS!Cardinality, Cardinality, FS!IsFiniteSet, IsFiniteSet

(* The empty set, singletons, intervals and parts of a finite set. *)
LEMMA SmallSets == CountNat /\ FiniteSome
<1>1. \A S : IsFiniteSet(S) => Cardinality(S) \in Nat
  <2>1. ASSUME NEW S, FS!IsFiniteSet(S) PROVE FS!Cardinality(S) \in Nat
    BY <2>1, FS!FS_CardinalityType, Zenon
  <2> QED BY <2>1, SameSets, Zenon
<1>2. \A S : IsFiniteSet(S) => (Cardinality(S) = 0 <=> S = {})
  BY FS!FS_EmptySet, SameSets, Zenon
<1>3. \A x : IsFiniteSet({x})
  BY FS!FS_Singleton, SameSets, Zenon
<1>4. ASSUME NEW a \in Int, NEW b \in Int PROVE IsFiniteSet(a..b)
  BY FS!FS_Interval, SameSets, Zenon
<1>5. ASSUME NEW S, NEW T \in SUBSET S, IsFiniteSet(S) PROVE IsFiniteSet(T)
  <2>1. FS!IsFiniteSet(S)
    BY <1>5, SameSets, Zenon
  <2>2. FS!IsFiniteSet(T)
    BY <2>1, FS!FS_Subset, Zenon
  <2> QED BY <2>2, SameSets, Zenon
<1> QED BY <1>1, <1>2, <1>3, <1>4, <1>5, Zenon DEF CountNat, FiniteSome

(* One element more or less. *)
LEMMA OneMoreOrLess == CountAdd /\ CountRemove
<1>1. ASSUME NEW S, NEW x, IsFiniteSet(S)
      PROVE  /\ IsFiniteSet(S \cup {x})
             /\ Cardinality(S \cup {x}) = IF x \in S THEN Cardinality(S) ELSE Cardinality(S) + 1
  <2>1. FS!IsFiniteSet(S)
    BY <1>1, SameSets, Zenon
  <2>2. /\ FS!IsFiniteSet(S \cup {x})
        /\ FS!Cardinality(S \cup {x}) = IF x \in S THEN FS!Cardinality(S) ELSE FS!Cardinality(S) + 1
    BY <2>1, FS!FS_AddElement, Zenon
  <2> QED BY <2>2, SameSets, Zenon
<1>2. ASSUME NEW S, NEW x, IsFiniteSet(S)
      PROVE  /\ IsFiniteSet(S \ {x})
             /\ Cardinality(S \ {x}) = IF x \in S THEN Cardinality(S) - 1 ELSE Cardinality(S)
  <2>1. FS!IsFiniteSet(S)
    BY <1>2, SameSets, Zenon
  <2>2. /\ FS!IsFiniteSet(S \ {x})
        /\ FS!Cardinality(S \ {x}) = IF x \in S THEN FS!Cardinality(S) - 1 ELSE FS!Cardinality(S)
    BY <2>1, FS!FS_RemoveElement, Zenon
  <2> QED BY <2>2, SameSets, Zenon
<1> QED BY <1>1, <1>2, Zenon DEF CountAdd, CountRemove

(* Unions and pairs. *)
LEMMA UnionsAndPairs == FiniteUnion /\ CountUnion /\ FinitePairs
<1>1. ASSUME NEW S, NEW T, IsFiniteSet(S), IsFiniteSet(T)
      PROVE  /\ IsFiniteSet(S \cup T) /\ IsFiniteSet(S \X T)
             /\ Cardinality(S \cup T) = Cardinality(S) + Cardinality(T) - Cardinality(S \cap T)
  <2>1. FS!IsFiniteSet(S) /\ FS!IsFiniteSet(T)
    BY <1>1, SameSets, Zenon
  <2>2. /\ FS!IsFiniteSet(S \cup T)
        /\ FS!Cardinality(S \cup T) = FS!Cardinality(S) + FS!Cardinality(T) - FS!Cardinality(S \cap T)
    BY <2>1, FS!FS_Union, Zenon
  <2>3. FS!IsFiniteSet(S \X T)
    BY <2>1, FS!FS_Product, Zenon
  <2> QED BY <2>2, <2>3, SameSets, Zenon
<1>2. ASSUME NEW S, NEW T, IsFiniteSet(S), IsFiniteSet(T), S \cap T = {}
      PROVE  Cardinality(S \cup T) = Cardinality(S) + Cardinality(T)
  <2>1. FS!IsFiniteSet({}) /\ FS!Cardinality({}) = 0
    BY FS!FS_EmptySet, Zenon
  <2>2. Cardinality(S) \in Nat /\ Cardinality(T) \in Nat /\ Cardinality({}) = 0
    BY <1>2, <2>1, SmallSets, SameSets, Zenon DEF CountNat
  <2>3. Cardinality(S \cup T) = Cardinality(S) + Cardinality(T) - Cardinality({})
    <3>1. Cardinality(S \cup T) = Cardinality(S) + Cardinality(T) - Cardinality(S \cap T)
      BY <1>1, <1>2, Zenon
    <3>2. Cardinality(S \cap T) = Cardinality({})
      BY <1>2, Zenon
    <3> QED BY <3>1, <3>2, Zenon
  <2> DEFINE n == Cardinality(S)
             m == Cardinality(T)
             k == Cardinality(S \cup T)
  <2>4. k = n + m - 0 /\ n \in Nat /\ m \in Nat
    BY <2>2, <2>3, Zenon
  <2> HIDE DEF n, m, k
  <2>5. k = n + m
    BY <2>4
  <2> QED BY <2>5, Zenon DEF n, m, k
<1> QED BY <1>1, <1>2, Zenon DEF FiniteUnion, CountUnion, FinitePairs

(* Sets that correspond one to one. *)
LEMMA Correspondence == CountBijection
<1> SUFFICES ASSUME NEW S, NEW T, NEW f \in [S -> T], IsFiniteSet(S),
                    \A x, y \in S : f[x] = f[y] => x = y, \A y \in T : \E x \in S : f[x] = y
             PROVE  IsFiniteSet(T) /\ Cardinality(T) = Cardinality(S)
  BY Zenon DEF CountBijection
<1>1. f \in FS!Bijection(S, T)
  <2>1. f \in FS!Injection(S, T)
    BY Zenon DEF FS!Injection, FS!IsInjective
  <2>2. f \in FS!Surjection(S, T)
    BY Zenon DEF FS!Surjection
  <2> QED BY <2>1, <2>2, Zenon DEF FS!Bijection
<1>2. FS!ExistsBijection(S, T)
  BY <1>1, Zenon DEF FS!ExistsBijection
<1>3. FS!IsFiniteSet(S)
  BY SameSets, Zenon
<1>4. FS!IsFiniteSet(T) /\ FS!Cardinality(T) = FS!Cardinality(S)
  BY <1>2, <1>3, FS!FS_Bijection, Zenon
<1> QED BY <1>4, SameSets, Zenon

(* The facts about finite sets that the lemmas above assume. *)
LEMMA CountingHolds == Counting
BY SmallSets, OneMoreOrLess, UnionsAndPairs, Correspondence, Zenon DEF Counting

-----------------------------------------------------------------------------
(* ---- what kalloc.c promises ---- *)

(* Every reachable state satisfies the inductive invariant. *)
LEMMA Invariant == Spec => []IInv
<1>1. Init => IInv
  BY CountingHolds, InitIInv, Zenon
<1>2. IInv /\ [Next]_vars => IInv'
  BY CountingHolds, NextIInv, StutterIInv, Zenon
<1> QED BY <1>1, <1>2, PTL DEF Spec

(* No page is freed while a page table or a kernel thread uses it, whatever    *)
(* forks, faults, exits and execs run at once, and unless a mappages() of      *)
(* uvmcopy() failed every count is exactly the number of uses: nothing leaks.  *)
THEOREM PagesAreCounted == Spec => []PagesExact
<1>1. IInv => PagesExact
  BY CountingHolds, IInvPagesExact, Zenon
<1> QED BY <1>1, Invariant, PTL
====
