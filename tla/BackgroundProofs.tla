-------------------------- MODULE BackgroundProofs --------------------------
(***************************************************************************)
(* Theorems, with their proofs, about what the goroutines of src/main.go   *)
(* clear away behind the requests: the tick loop with the counter of views *)
(* (TickLoop), and the user cache with the goroutine that drains it        *)
(* (UserCache).  The two share nothing.                                    *)
(*                                                                         *)
(* What is on its way to the database in TickLoop is a sum over the map,   *)
(* so the first part is about sums: SumFunctionOnSet is recursive, and     *)
(* what it answers is found by induction over the size of the set.         *)
(***************************************************************************)
EXTENDS TickLoop, UserCache, FiniteSetTheorems, WellFoundedInduction, TLAPS

-----------------------------------------------------------------------------
(* Induction over the naturals.                                            *)

\* Every non-empty set of naturals has a least element.
LEMMA LeastNat ==
    ASSUME NEW S \in SUBSET Nat, S # {}
    PROVE  \E n \in S : \A m \in S : n <= m
<1> DEFINE below == OpToRel(<, Nat)
<1>1. IsWellFoundedOn(below, Nat)
  BY NatLessThanWellFounded, Zenon
<1>2. \A m, n \in Nat : m < n => <<m, n>> \in below
  BY DEF OpToRel
<1> HIDE DEF below
<1>3. PICK n \in S : \A m \in S : <<m, n>> \notin below
  BY <1>1, WFMin
<1>4. \A m \in S : ~(m < n)
  BY <1>2, <1>3
<1> QED BY <1>4

\* Induction over the naturals, stated for a set.
LEMMA Induction ==
    ASSUME NEW S, 0 \in S, \A n \in Nat : n \in S => n + 1 \in S
    PROVE  Nat \subseteq S
<1> SUFFICES ASSUME Nat \ S # {} PROVE FALSE
  OBVIOUS
<1>1. PICK n \in Nat \ S : \A m \in Nat \ S : n <= m
  BY LeastNat
<1>2. n - 1 \in Nat /\ n - 1 \in S
  BY <1>1
<1> QED BY <1>1, <1>2

-----------------------------------------------------------------------------
(* Sums over a finite set (SumFunctionOnSet, as Pending uses it).          *)

\* The element a sum takes first, and the equation its partial sums satisfy.
First(s) == CHOOSE x \in s : TRUE

Sums(g, f, S) ==
    g = [s \in SUBSET S |-> IF s = {} THEN 0 ELSE f[First(s)] + g[s \ {First(s)}]]

\* A sum is read off a table of partial sums.
LEMMA SumIs ==
    ASSUME NEW f, NEW S
    PROVE  SumFunctionOnSet(f, S) = (CHOOSE g : Sums(g, f, S))[S]
BY DEF SumFunctionOnSet, FoldFunctionOnSet, MapThenFoldSet, Sums, First

\* What can be said of the finite sets of any size can be said of a finite set.
LEMMA BySize ==
    ASSUME NEW S, IsFiniteSet(S), NEW P \in SUBSET SUBSET S,
           \A s \in SUBSET S :
               (\A r \in SUBSET S : Cardinality(r) < Cardinality(s) => r \in P) => s \in P
    PROVE  S \in P
<1> DEFINE N == {n \in Nat : \A s \in SUBSET S : Cardinality(s) <= n => s \in P}
<1>1. \A s \in SUBSET S : Cardinality(s) \in Nat
  BY FS_Subset, FS_CardinalityType
<1>2. 0 \in N
  BY <1>1
<1>3. ASSUME NEW n \in Nat, n \in N PROVE n + 1 \in N
  <2>1. ASSUME NEW s \in SUBSET S, Cardinality(s) <= n + 1 PROVE s \in P
    <3>1. \A r \in SUBSET S : Cardinality(r) < Cardinality(s) => Cardinality(r) <= n
      BY <1>1, <2>1
    <3> QED BY <1>3, <3>1
  <2> QED BY <2>1
<1> HIDE DEF N
<1>4. Nat \subseteq N
  BY <1>2, <1>3, Induction
<1>5. Cardinality(S) \in N /\ Cardinality(S) <= Cardinality(S)
  BY <1>1, <1>4
<1> QED BY <1>5 DEF N

\* A set without an element is smaller.
LEMMA Smaller ==
    ASSUME NEW S, IsFiniteSet(S), NEW s \in SUBSET S, NEW x \in s
    PROVE  /\ IsFiniteSet(s \ {x}) /\ s \ {x} \in SUBSET S
           /\ Cardinality(s \ {x}) < Cardinality(s)
<1>1. IsFiniteSet(s)
  BY FS_Subset
<1>2. Cardinality(s) \in Nat /\ Cardinality(s \ {x}) = Cardinality(s) - 1 /\ IsFiniteSet(s \ {x})
  BY <1>1, FS_RemoveElement, FS_CardinalityType
<1> QED BY <1>2

\* The first element is one.
LEMMA FirstIn == ASSUME NEW s, s # {} PROVE First(s) \in s
BY DEF First

\* Two tables of partial sums agree where both are defined.
LEMMA SumsUnique ==
    ASSUME NEW f, NEW S, IsFiniteSet(S), NEW T \in SUBSET S, NEW g, NEW h,
           Sums(g, f, S), Sums(h, f, T)
    PROVE  g[T] = h[T]
<1> DEFINE P == {s \in SUBSET T : g[s] = h[s]}
<1>1. IsFiniteSet(T)
  BY FS_Subset
<1>2. ASSUME NEW s \in SUBSET T,
             \A r \in SUBSET T : Cardinality(r) < Cardinality(s) => r \in P
      PROVE  s \in P
  <2>1. s \in SUBSET S
    OBVIOUS
  <2>2. /\ g[s] = IF s = {} THEN 0 ELSE f[First(s)] + g[s \ {First(s)}]
        /\ h[s] = IF s = {} THEN 0 ELSE f[First(s)] + h[s \ {First(s)}]
    BY <2>1 DEF Sums
  <2>3. CASE s # {}
    <3>1. First(s) \in s
      BY <2>3, FirstIn
    <3>2. s \ {First(s)} \in SUBSET T /\ Cardinality(s \ {First(s)}) < Cardinality(s)
      BY <1>1, <3>1, Smaller
    <3>3. s \ {First(s)} \in P
      <4> HIDE DEF P
      <4> QED BY <1>2, <3>2
    <3> QED BY <2>2, <2>3, <3>3
  <2> QED BY <2>2, <2>3
<1> HIDE DEF P
<1>3. T \in P
  <2>1. P \in SUBSET SUBSET T
    BY DEF P
  <2> QED BY <1>1, <1>2, <2>1, BySize
<1> QED BY <1>3 DEF P

\* A table for the subsets of up to a size, and its extension by one.
LEMMA SumsExist ==
    ASSUME NEW f, NEW S, IsFiniteSet(S)
    PROVE  \E g : Sums(g, f, S)
<1> DEFINE Small(n) == {s \in SUBSET S : Cardinality(s) <= n}
           Val(g, s) == IF s = {} THEN 0 ELSE f[First(s)] + g[s \ {First(s)}]
           Table(g, n) == g = [s \in Small(n) |-> Val(g, s)]
           N == {n \in Nat : \E g : Table(g, n)}
<1>1. \A s \in SUBSET S : Cardinality(s) \in Nat
  BY FS_Subset, FS_CardinalityType
<1>2. ASSUME NEW n \in Nat, NEW s \in Small(n), s # {}
      PROVE  s \ {First(s)} \in SUBSET S /\ Cardinality(s \ {First(s)}) < Cardinality(s)
  BY <1>2, FirstIn, Smaller
<1>3. 0 \in N
  <2> DEFINE g == [s \in Small(0) |-> 0]
  <2>1. ASSUME NEW s \in Small(0) PROVE s = {}
    <3>1. SUFFICES ASSUME s # {} PROVE FALSE
      OBVIOUS
    <3>2. s \ {First(s)} \in SUBSET S /\ Cardinality(s \ {First(s)}) < Cardinality(s)
      <4> HIDE DEF Small
      <4> QED BY <1>2, <3>1
    <3> QED BY <1>1, <3>2
  <2>2. Table(g, 0)
    BY <2>1
  <2> QED BY <2>2
<1>4. ASSUME NEW n \in Nat, n \in N PROVE n + 1 \in N
  <2>1. PICK g : Table(g, n)
    BY <1>4
  <2> DEFINE h == [s \in Small(n + 1) |-> IF s \in Small(n) THEN g[s] ELSE Val(g, s)]
  <2>2. ASSUME NEW s \in Small(n + 1) PROVE h[s] = Val(h, s)
    <3>1. ASSUME s # {} PROVE h[s \ {First(s)}] = g[s \ {First(s)}]
      <4>1. s \ {First(s)} \in SUBSET S /\ Cardinality(s \ {First(s)}) < Cardinality(s)
        <5> HIDE DEF Small
        <5> QED BY <1>2, <3>1
      <4>2. s \ {First(s)} \in Small(n) /\ s \ {First(s)} \in Small(n + 1)
        BY <1>1, <4>1
      <4> HIDE DEF Small
      <4> QED BY <4>2
    <3>2. s \in Small(n) => g[s] = Val(g, s)
      <4> HIDE DEF Small
      <4> QED BY <2>1
    <3>3. h[s] = Val(g, s)
      <4> HIDE DEF Small, Val
      <4> QED BY <3>2
    <3>4. Val(g, s) = Val(h, s)
      <4> HIDE DEF h
      <4> QED BY <3>1
    <3> QED BY <3>3, <3>4
  <2>3. Table(h, n + 1)
    <3> HIDE DEF Small, Val
    <3> SUFFICES h = [s \in Small(n + 1) |-> Val(h, s)]
      OBVIOUS
    <3> QED BY <2>2
  <2> HIDE DEF Table
  <2> QED BY <2>3
<1> HIDE DEF N
<1>5. Nat \subseteq N
  BY <1>3, <1>4, Induction
<1>6. PICK g : Table(g, Cardinality(S))
  <2> HIDE DEF Table
  <2> QED BY <1>1, <1>5 DEF N
<1>7. Small(Cardinality(S)) = SUBSET S
  BY FS_Subset, FS_CardinalityType
<1>8. Sums(g, f, S)
  BY <1>6, <1>7 DEF Sums
<1> QED BY <1>8

\* The sum of every part of S is read off one table.
LEMMA SumTable ==
    ASSUME NEW f, NEW S, IsFiniteSet(S)
    PROVE  \E g : Sums(g, f, S) /\ \A T \in SUBSET S : SumFunctionOnSet(f, T) = g[T]
<1>1. PICK g : Sums(g, f, S)
  BY SumsExist
<1>2. ASSUME NEW T \in SUBSET S PROVE SumFunctionOnSet(f, T) = g[T]
  <2>1. IsFiniteSet(T)
    BY FS_Subset
  <2>2. \E h : Sums(h, f, T)
    BY <2>1, SumsExist
  <2> DEFINE h == CHOOSE i : Sums(i, f, T)
  <2>3. Sums(h, f, T)
    BY <2>2
  <2>4. SumFunctionOnSet(f, T) = h[T]
    BY SumIs
  <2> HIDE DEF h
  <2> QED BY <1>1, <2>3, <2>4, SumsUnique
<1> QED BY <1>1, <1>2

\* The first element and the rest.
LEMMA SumFirst ==
    ASSUME NEW f, NEW S, IsFiniteSet(S)
    PROVE  /\ SumFunctionOnSet(f, {}) = 0
           /\ S # {} => SumFunctionOnSet(f, S) = f[First(S)] + SumFunctionOnSet(f, S \ {First(S)})
<1>1. PICK g : Sums(g, f, S) /\ \A T \in SUBSET S : SumFunctionOnSet(f, T) = g[T]
  BY SumTable
<1>2. \A s \in SUBSET S : g[s] = IF s = {} THEN 0 ELSE f[First(s)] + g[s \ {First(s)}]
  BY <1>1 DEF Sums
<1>3. SumFunctionOnSet(f, {}) = 0
  BY <1>1, <1>2
<1>4. S # {} => g[S] = f[First(S)] + g[S \ {First(S)}]
  BY <1>2
<1>5. SumFunctionOnSet(f, S) = g[S] /\ SumFunctionOnSet(f, S \ {First(S)}) = g[S \ {First(S)}]
  BY <1>1
<1> QED BY <1>3, <1>4, <1>5

\* A sum of naturals is one, and any element may be taken first.
LEMMA SumTake ==
    ASSUME NEW S, IsFiniteSet(S), NEW f, \A x \in S : f[x] \in Nat
    PROVE  /\ SumFunctionOnSet(f, S) \in Nat
           /\ \A x \in S : SumFunctionOnSet(f, S) = f[x] + SumFunctionOnSet(f, S \ {x})
<1> DEFINE Sum(s) == SumFunctionOnSet(f, s)
           P == {s \in SUBSET S : Sum(s) \in Nat /\ \A x \in s : Sum(s) = f[x] + Sum(s \ {x})}
<1>1. ASSUME NEW s \in SUBSET S,
             \A r \in SUBSET S : Cardinality(r) < Cardinality(s) => r \in P
      PROVE  s \in P
  <2>1. IsFiniteSet(s)
    BY FS_Subset
  <2> DEFINE c == First(s)
  <2>2. CASE s = {}
    <3>1. Sum({}) = 0
      BY <2>1, SumFirst
    <3> HIDE DEF Sum
    <3> QED BY <2>2, <3>1
  <2>3. CASE s # {}
    <3>1. c \in s /\ Sum(s) = f[c] + Sum(s \ {c})
      BY <2>1, <2>3, FirstIn, SumFirst
    <3> HIDE DEF c
    <3>2. \A x \in s : s \ {x} \in SUBSET S /\ Cardinality(s \ {x}) < Cardinality(s)
      BY Smaller
    <3>3. \A x \in s : s \ {x} \in P
      <4> HIDE DEF P
      <4> QED BY <1>1, <3>2
    <3>4. Sum(s) \in Nat
      <4> HIDE DEF Sum
      <4> QED BY <3>1, <3>3
    <3>5. ASSUME NEW x \in s PROVE Sum(s) = f[x] + Sum(s \ {x})
      <4>1. CASE x = c
        BY <3>1, <4>1
      <4>2. CASE x # c
        <5>1. /\ Sum(s \ {c}) = f[x] + Sum((s \ {c}) \ {x})
              /\ Sum(s \ {x}) = f[c] + Sum((s \ {x}) \ {c})
          <6>1. s \ {c} \in P /\ x \in s \ {c} /\ s \ {x} \in P /\ c \in s \ {x}
            BY <3>1, <3>3, <4>2
          <6> HIDE DEF Sum
          <6> QED BY <6>1
        <5>2. (s \ {c}) \ {x} = (s \ {x}) \ {c}
          OBVIOUS
        <5>3. (s \ {c}) \ {x} \in P
          <6>1. (s \ {c}) \ {x} \in SUBSET S
            OBVIOUS
          <6>2. x \in s \ {c} /\ s \ {c} \in SUBSET S
            BY <4>2
          <6>3. Cardinality((s \ {c}) \ {x}) < Cardinality(s \ {c})
            BY <6>2, Smaller
          <6>4. Cardinality(s \ {c}) < Cardinality(s)
            BY <3>1, <3>2
          <6>5. /\ Cardinality(s) \in Nat /\ Cardinality(s \ {c}) \in Nat
                /\ Cardinality((s \ {c}) \ {x}) \in Nat
            BY FS_Subset, FS_CardinalityType
          <6>6. Cardinality((s \ {c}) \ {x}) < Cardinality(s)
            BY <6>3, <6>4, <6>5
          <6> HIDE DEF P
          <6> QED BY <1>1, <6>1, <6>6
        <5> DEFINE rest == Sum((s \ {c}) \ {x})
        <5>4. rest \in Nat /\ f[x] \in Nat /\ f[c] \in Nat
          BY <3>1, <5>3
        <5>5. Sum(s) = f[c] + (f[x] + rest) /\ Sum(s \ {x}) = f[c] + rest
          BY <3>1, <5>1, <5>2
        <5> HIDE DEF rest, Sum
        <5> QED BY <5>4, <5>5
      <4> QED BY <4>1, <4>2
    <3> HIDE DEF Sum
    <3> QED BY <3>4, <3>5
  <2> QED BY <2>2, <2>3
<1>2. P \in SUBSET SUBSET S
  OBVIOUS
<1>3. S \in P
  <2> HIDE DEF P
  <2> QED BY <1>1, <1>2, BySize
<1> QED BY <1>3

\* A sum depends on what the function is on the set.
LEMMA SumAgree ==
    ASSUME NEW S, IsFiniteSet(S), NEW f, NEW h, \A x \in S : f[x] = h[x]
    PROVE  SumFunctionOnSet(f, S) = SumFunctionOnSet(h, S)
<1> DEFINE P == {s \in SUBSET S : SumFunctionOnSet(f, s) = SumFunctionOnSet(h, s)}
<1>1. ASSUME NEW s \in SUBSET S,
             \A r \in SUBSET S : Cardinality(r) < Cardinality(s) => r \in P
      PROVE  s \in P
  <2>1. IsFiniteSet(s)
    BY FS_Subset
  <2>2. CASE s = {}
    BY <2>1, <2>2, SumFirst
  <2>3. CASE s # {}
    <3> DEFINE c == First(s)
    <3>1. /\ c \in s
          /\ SumFunctionOnSet(f, s) = f[c] + SumFunctionOnSet(f, s \ {c})
          /\ SumFunctionOnSet(h, s) = h[c] + SumFunctionOnSet(h, s \ {c})
      BY <2>1, <2>3, FirstIn, SumFirst
    <3> HIDE DEF c
    <3>2. s \ {c} \in SUBSET S /\ Cardinality(s \ {c}) < Cardinality(s)
      BY <3>1, Smaller
    <3>3. s \ {c} \in P
      <4> HIDE DEF P
      <4> QED BY <1>1, <3>2
    <3> QED BY <3>1, <3>3
  <2> QED BY <2>2, <2>3
<1>2. P \in SUBSET SUBSET S
  OBVIOUS
<1>3. S \in P
  <2> HIDE DEF P
  <2> QED BY <1>1, <1>2, BySize
<1> QED BY <1>3

\* Two sums that differ in one element at most have the same rest.
Terms(f, S) == IsFiniteSet(S) /\ \A x \in S : f[x] \in Nat
AgreeBut(f, S, g, T, t) == S \ {t} = T \ {t} /\ \A x \in S \ {t} : f[x] = g[x]
SameRest(f, S, g, T, t) ==
    \E r \in Nat : /\ SumFunctionOnSet(f, S) = r + IF t \in S THEN f[t] ELSE 0
                   /\ SumFunctionOnSet(g, T) = r + IF t \in T THEN g[t] ELSE 0

\* So what they differ by is what they have at that element.
LEMMA SumRest ==
    ASSUME NEW f, NEW S, NEW g, NEW T, NEW t, Terms(f, S), Terms(g, T), AgreeBut(f, S, g, T, t)
    PROVE  SameRest(f, S, g, T, t)
<1> USE DEF Terms, AgreeBut
<1> DEFINE r == SumFunctionOnSet(f, S \ {t})
<1>1. IsFiniteSet(S \ {t})
  BY FS_Subset
<1>2. r \in Nat
  BY <1>1, SumTake
<1>3. r = SumFunctionOnSet(g, S \ {t})
  BY <1>1, SumAgree
<1>4. t \in S => SumFunctionOnSet(f, S) = f[t] + r /\ f[t] \in Nat
  BY SumTake
<1>5. t \in T => SumFunctionOnSet(g, T) = g[t] + SumFunctionOnSet(g, T \ {t}) /\ g[t] \in Nat
  BY SumTake
<1>6. t \notin S => S = S \ {t}
  OBVIOUS
<1>7. t \notin T => T = S \ {t}
  OBVIOUS
<1> HIDE DEF r
<1>8. SumFunctionOnSet(f, S) = r + IF t \in S THEN f[t] ELSE 0
  <2>1. CASE t \in S
    BY <1>2, <1>4, <2>1
  <2>2. CASE t \notin S
    <3>1. SumFunctionOnSet(f, S) = r
      BY <1>6, <2>2 DEF r
    <3> QED BY <1>2, <2>2, <3>1
  <2> QED BY <2>1, <2>2
<1>9. SumFunctionOnSet(g, T) = r + IF t \in T THEN g[t] ELSE 0
  BY <1>2, <1>3, <1>5, <1>7
<1> QED BY <1>2, <1>8, <1>9 DEF SameRest

-----------------------------------------------------------------------------
(* The view counter under the tick loop.                                   *)

\* What is in a variable is what its reader takes it for.
InHand ==
    /\ \A v \in Views : bump[v] = "add" => found[v] \in Views
    /\ \A k \in Tickers : at[k] \in {"read", "delete"} => topic[k] \in Topics
    /\ \A k \in Tickers : at[k] = "read" => bucket[k] \in Views

\* A bucket is of the topic of its view, which has been counted; so is one that a
\* tick is about to read.
InPlace ==
    /\ \A t \in Keys : TopicOf[buckets[t]] = t /\ bump[buckets[t]] = "done"
    /\ \A k \in Tickers : at[k] = "read" =>
          TopicOf[bucket[k]] = topic[k] /\ bump[bucket[k]] = "done"

\* Ticks that have never overlapped take turns.
Turns ==
    ~overlap => \A j, k \in Tickers : Running(j) /\ Running(k) => j = k

\* A watcher that will mark the database has found its tick without an answer.
MarksHaveCause == \A k \in Tickers : watch[k] = "mark" => overdue

TickInv == LoopTypeOK /\ InHand /\ InPlace /\ Turns /\ MarksHaveCause /\ DownHasCause

\* At the start nothing is counted and nobody watches.
LEMMA TickInvInit == LoopInit => TickInv
<1> SUFFICES ASSUME LoopInit PROVE TickInv
  OBVIOUS
<1> USE DEF LoopInit, ViewInit
<1>1. LoopTypeOK
  <2>1. at \in [Tickers -> {"idle", "check", "set", "run", "range", "read", "delete",
                            "insert", "stop", "over"}]
    OBVIOUS
  <2> QED BY <2>1, Zenon DEF LoopTypeOK, ViewTypeOK
<1>2. InHand /\ Turns
  BY DEF InHand, Turns, Running
<1>3. InPlace
  BY DEF InPlace, Keys
<1>4. MarksHaveCause /\ DownHasCause
  BY DEF MarksHaveCause, DownHasCause
<1> QED BY <1>1, <1>2, <1>3, <1>4 DEF TickInv

\* Each step keeps TickInv, first the look-up of a bucket.
LEMMA BumpFindInv ==
    ASSUME TickInv, NEW v \in Views, BumpFind(v), UNCHANGED watchVars
    PROVE  TickInv'
<1> USE TopicOfAssumption, NoneAssumption DEF TickInv
<1>0. LoopTypeOK /\ InHand /\ InPlace /\ Turns
  OBVIOUS
<1>1. LoopTypeOK'
  BY <1>0 DEF BumpFind, bumpVars, loopVars, watchVars, LoopTypeOK, ViewTypeOK, InHand, Keys
<1>2. InHand'
  BY <1>0 DEF BumpFind, bumpVars, loopVars, InHand, LoopTypeOK, ViewTypeOK, Keys
<1>3. InPlace'
  BY <1>0 DEF BumpFind, bumpVars, loopVars, InPlace, LoopTypeOK, ViewTypeOK, InHand, Keys
<1>4. Turns'
  BY <1>0 DEF BumpFind, bumpVars, loopVars, Turns, Running, LoopTypeOK, ViewTypeOK
<1>5. MarksHaveCause' /\ DownHasCause'
  BY DEF MarksHaveCause, DownHasCause, watchVars
<1> QED BY <1>1, <1>2, <1>3, <1>4, <1>5

\* The bucket a view is added to has been found.
LEMMA BumpAddInv ==
    ASSUME TickInv, NEW v \in Views, BumpAdd(v), UNCHANGED watchVars
    PROVE  TickInv'
<1> USE TopicOfAssumption, NoneAssumption DEF TickInv
<1>0. LoopTypeOK /\ InHand /\ InPlace /\ Turns
  OBVIOUS
<1>1. LoopTypeOK'
  BY <1>0 DEF BumpAdd, bumpVars, loopVars, watchVars, LoopTypeOK, ViewTypeOK, InHand, Keys
<1>2. InHand'
  BY <1>0 DEF BumpAdd, bumpVars, loopVars, InHand, LoopTypeOK, ViewTypeOK, Keys
<1>3. InPlace'
  BY <1>0 DEF BumpAdd, bumpVars, loopVars, InPlace, LoopTypeOK, ViewTypeOK, InHand, Keys
<1>4. Turns'
  BY <1>0 DEF BumpAdd, bumpVars, loopVars, Turns, Running, LoopTypeOK, ViewTypeOK
<1>5. MarksHaveCause' /\ DownHasCause'
  BY DEF MarksHaveCause, DownHasCause, watchVars
<1> QED BY <1>1, <1>2, <1>3, <1>4, <1>5

\* A bucket that is stored is of its view's topic, and counted.
LEMMA BumpStoreInv ==
    ASSUME TickInv, NEW v \in Views, BumpStore(v), UNCHANGED watchVars
    PROVE  TickInv'
<1> USE TopicOfAssumption, NoneAssumption DEF TickInv
<1>0. LoopTypeOK /\ InHand /\ InPlace /\ Turns
  OBVIOUS
<1>1. LoopTypeOK'
  BY <1>0 DEF BumpStore, bumpVars, loopVars, watchVars, LoopTypeOK, ViewTypeOK, InHand, Keys
<1>2. InHand'
  BY <1>0 DEF BumpStore, bumpVars, loopVars, InHand, LoopTypeOK, ViewTypeOK, Keys
<1>3. InPlace'
  BY <1>0 DEF BumpStore, bumpVars, loopVars, InPlace, LoopTypeOK, ViewTypeOK, InHand, Keys
<1>4. Turns'
  BY <1>0 DEF BumpStore, bumpVars, loopVars, Turns, Running, LoopTypeOK, ViewTypeOK
<1>5. MarksHaveCause' /\ DownHasCause'
  BY DEF MarksHaveCause, DownHasCause, watchVars
<1> QED BY <1>1, <1>2, <1>3, <1>4, <1>5

\* A tick that begins while another runs is an overlap.
LEMMA TickBeginInv ==
    ASSUME TickInv, NEW k \in Tickers, TickBegin(k), UNCHANGED watchVars
    PROVE  TickInv'
<1> USE TopicOfAssumption, NoneAssumption DEF TickInv
<1>0. LoopTypeOK /\ InHand /\ InPlace /\ Turns
  OBVIOUS
<1>1. LoopTypeOK'
  BY <1>0 DEF TickBegin, bumpVars, loopVars, watchVars, LoopTypeOK, ViewTypeOK, InHand, Keys
<1>2. InHand'
  BY <1>0 DEF TickBegin, bumpVars, loopVars, InHand, LoopTypeOK, ViewTypeOK, Keys
<1>3. InPlace'
  BY <1>0 DEF TickBegin, bumpVars, loopVars, InPlace, LoopTypeOK, ViewTypeOK, InHand, Keys
<1>4. Turns'
  BY <1>0 DEF TickBegin, bumpVars, loopVars, Turns, Running, LoopTypeOK, ViewTypeOK
<1>5. MarksHaveCause' /\ DownHasCause'
  BY DEF MarksHaveCause, DownHasCause, watchVars
<1> QED BY <1>1, <1>2, <1>3, <1>4, <1>5

\* A visit has a topic of the map in hand.
LEMMA TickVisitInv ==
    ASSUME TickInv, NEW k \in Tickers, NEW t \in Topics, TickVisit(k, t), UNCHANGED watchVars
    PROVE  TickInv'
<1> USE TopicOfAssumption, NoneAssumption DEF TickInv
<1>0. LoopTypeOK /\ InHand /\ InPlace /\ Turns
  OBVIOUS
<1>1. LoopTypeOK'
  BY <1>0 DEF TickVisit, bumpVars, loopVars, watchVars, LoopTypeOK, ViewTypeOK, InHand, Keys
<1>2. InHand'
  BY <1>0 DEF TickVisit, bumpVars, loopVars, InHand, LoopTypeOK, ViewTypeOK, Keys
<1>3. InPlace'
  BY <1>0 DEF TickVisit, bumpVars, loopVars, InPlace, LoopTypeOK, ViewTypeOK, InHand, Keys
<1>4. Turns'
  BY <1>0 DEF TickVisit, bumpVars, loopVars, Turns, Running, LoopTypeOK, ViewTypeOK
<1>5. MarksHaveCause' /\ DownHasCause'
  BY DEF MarksHaveCause, DownHasCause, watchVars
<1> QED BY <1>1, <1>2, <1>3, <1>4, <1>5

\* A count is read.
LEMMA TickReadInv ==
    ASSUME TickInv, NEW k \in Tickers, TickRead(k), UNCHANGED watchVars
    PROVE  TickInv'
<1> USE TopicOfAssumption, NoneAssumption DEF TickInv
<1>0. LoopTypeOK /\ InHand /\ InPlace /\ Turns
  OBVIOUS
<1>1. LoopTypeOK'
  BY <1>0 DEF TickRead, bumpVars, loopVars, watchVars, LoopTypeOK, ViewTypeOK, InHand, Keys
<1>2. InHand'
  BY <1>0 DEF TickRead, bumpVars, loopVars, InHand, LoopTypeOK, ViewTypeOK, Keys
<1>3. InPlace'
  BY <1>0 DEF TickRead, bumpVars, loopVars, InPlace, LoopTypeOK, ViewTypeOK, InHand, Keys
<1>4. Turns'
  BY <1>0 DEF TickRead, bumpVars, loopVars, Turns, Running, LoopTypeOK, ViewTypeOK
<1>5. MarksHaveCause' /\ DownHasCause'
  BY DEF MarksHaveCause, DownHasCause, watchVars
<1> QED BY <1>1, <1>2, <1>3, <1>4, <1>5

\* A topic leaves the map.
LEMMA TickDeleteInv ==
    ASSUME TickInv, NEW k \in Tickers, TickDelete(k), UNCHANGED watchVars
    PROVE  TickInv'
<1> USE TopicOfAssumption, NoneAssumption DEF TickInv
<1>0. LoopTypeOK /\ InHand /\ InPlace /\ Turns
  OBVIOUS
<1>1. LoopTypeOK'
  BY <1>0 DEF TickDelete, bumpVars, loopVars, watchVars, LoopTypeOK, ViewTypeOK, InHand, Keys
<1>2. InHand'
  BY <1>0 DEF TickDelete, bumpVars, loopVars, InHand, LoopTypeOK, ViewTypeOK, Keys
<1>3. InPlace'
  BY <1>0 DEF TickDelete, bumpVars, loopVars, InPlace, LoopTypeOK, ViewTypeOK, InHand, Keys
<1>4. Turns'
  BY <1>0 DEF TickDelete, bumpVars, loopVars, Turns, Running, LoopTypeOK, ViewTypeOK
<1>5. MarksHaveCause' /\ DownHasCause'
  BY DEF MarksHaveCause, DownHasCause, watchVars
<1> QED BY <1>1, <1>2, <1>3, <1>4, <1>5

\* A count reaches the database.
LEMMA TickInsertInv ==
    ASSUME TickInv, NEW k \in Tickers, TickInsert(k), UNCHANGED watchVars
    PROVE  TickInv'
<1> USE TopicOfAssumption, NoneAssumption DEF TickInv
<1>0. LoopTypeOK /\ InHand /\ InPlace /\ Turns
  OBVIOUS
<1>1. LoopTypeOK'
  BY <1>0 DEF TickInsert, Leave, bumpVars, loopVars, watchVars, LoopTypeOK, ViewTypeOK, InHand,
     Keys
<1>2. InHand'
  BY <1>0 DEF TickInsert, Leave, bumpVars, loopVars, InHand, LoopTypeOK, ViewTypeOK, Keys
<1>3. InPlace'
  BY <1>0 DEF TickInsert, Leave, bumpVars, loopVars, InPlace, LoopTypeOK, ViewTypeOK, InHand,
     Keys
<1>4. Turns'
  BY <1>0 DEF TickInsert, Leave, bumpVars, loopVars, Turns, Running, LoopTypeOK, ViewTypeOK
<1>5. MarksHaveCause' /\ DownHasCause'
  BY DEF MarksHaveCause, DownHasCause, watchVars
<1> QED BY <1>1, <1>2, <1>3, <1>4, <1>5

\* An insert fails.
LEMMA TickInsertFailsInv ==
    ASSUME TickInv, NEW k \in Tickers, TickInsertFails(k), UNCHANGED watchVars
    PROVE  TickInv'
<1> USE TopicOfAssumption, NoneAssumption DEF TickInv
<1>0. LoopTypeOK /\ InHand /\ InPlace /\ Turns
  OBVIOUS
<1>1. LoopTypeOK'
  BY <1>0 DEF TickInsertFails, Leave, bumpVars, loopVars, watchVars, LoopTypeOK, ViewTypeOK,
     InHand,
     Keys
<1>2. InHand'
  BY <1>0 DEF TickInsertFails, Leave, bumpVars, loopVars, InHand, LoopTypeOK, ViewTypeOK, Keys
<1>3. InPlace'
  BY <1>0 DEF TickInsertFails, Leave, bumpVars, loopVars, InPlace, LoopTypeOK, ViewTypeOK,
     InHand, Keys
<1>4. Turns'
  BY <1>0 DEF TickInsertFails, Leave, bumpVars, loopVars, Turns, Running, LoopTypeOK, ViewTypeOK
<1>5. MarksHaveCause' /\ DownHasCause'
  BY DEF MarksHaveCause, DownHasCause, watchVars
<1> QED BY <1>1, <1>2, <1>3, <1>4, <1>5

\* The loop over the topics ends.
LEMMA TickEndInv ==
    ASSUME TickInv, NEW k \in Tickers, TickEnd(k), UNCHANGED watchVars
    PROVE  TickInv'
<1> USE TopicOfAssumption, NoneAssumption DEF TickInv
<1>0. LoopTypeOK /\ InHand /\ InPlace /\ Turns
  OBVIOUS
<1>1. LoopTypeOK'
  BY <1>0 DEF TickEnd, bumpVars, loopVars, watchVars, LoopTypeOK, ViewTypeOK, InHand, Keys
<1>2. InHand'
  BY <1>0 DEF TickEnd, bumpVars, loopVars, InHand, LoopTypeOK, ViewTypeOK, Keys
<1>3. InPlace'
  BY <1>0 DEF TickEnd, bumpVars, loopVars, InPlace, LoopTypeOK, ViewTypeOK, InHand, Keys
<1>4. Turns'
  BY <1>0 DEF TickEnd, bumpVars, loopVars, Turns, Running, LoopTypeOK, ViewTypeOK
<1>5. MarksHaveCause' /\ DownHasCause'
  BY DEF MarksHaveCause, DownHasCause, watchVars
<1> QED BY <1>1, <1>2, <1>3, <1>4, <1>5

\* A tick starts, and its watcher.
LEMMA StartInv ==
    ASSUME TickInv, NEW k \in Tickers, Start(k)
    PROVE  TickInv'
<1> USE DEF TickInv
<1>0. LoopTypeOK /\ InHand /\ InPlace /\ Turns /\ MarksHaveCause
  OBVIOUS
<1>1. LoopTypeOK'
  BY <1>0 DEF Start, Goto, viewVars, bumpVars, loopVars, watchVars, LoopTypeOK, ViewTypeOK
<1>2. InHand'
  BY <1>0 DEF Start, Goto, viewVars, bumpVars, loopVars, watchVars, InHand, LoopTypeOK,
     ViewTypeOK
<1>3. InPlace'
  BY <1>0 DEF Start, Goto, viewVars, bumpVars, loopVars, watchVars, InPlace, LoopTypeOK,
     ViewTypeOK, Keys
<1>4. Turns'
  BY <1>0 DEF Start, Goto, viewVars, bumpVars, loopVars, watchVars, Turns, Running, LoopTypeOK,
     ViewTypeOK
<1>5. MarksHaveCause' /\ DownHasCause'
  BY <1>0 DEF Start, Goto, viewVars, bumpVars, loopVars, watchVars, MarksHaveCause,
     DownHasCause,
     LoopTypeOK
<1> QED BY <1>1, <1>2, <1>3, <1>4, <1>5

\* A ping has an answer: what is overdue then is a watcher that will mark.
LEMMA PingInv ==
    ASSUME TickInv, NEW k \in Tickers, Ping(k)
    PROVE  TickInv'
<1> USE DEF TickInv
<1>0. LoopTypeOK /\ InHand /\ InPlace /\ Turns /\ MarksHaveCause
  OBVIOUS
<1>1. LoopTypeOK'
  BY <1>0 DEF Ping, Goto, viewVars, bumpVars, loopVars, watchVars, LoopTypeOK, ViewTypeOK
<1>2. InHand'
  BY <1>0 DEF Ping, Goto, viewVars, bumpVars, loopVars, watchVars, InHand, LoopTypeOK,
     ViewTypeOK
<1>3. InPlace'
  BY <1>0 DEF Ping, Goto, viewVars, bumpVars, loopVars, watchVars, InPlace, LoopTypeOK,
     ViewTypeOK, Keys
<1>4. Turns'
  BY <1>0 DEF Ping, Goto, viewVars, bumpVars, loopVars, watchVars, Turns, Running, LoopTypeOK,
     ViewTypeOK
<1>5. MarksHaveCause' /\ DownHasCause'
  BY <1>0 DEF Ping, Goto, viewVars, bumpVars, loopVars, watchVars, MarksHaveCause, DownHasCause,
     LoopTypeOK
<1> QED BY <1>1, <1>2, <1>3, <1>4, <1>5

\* The watch is told of the answer.
LEMMA SetInv ==
    ASSUME TickInv, NEW k \in Tickers, Set(k)
    PROVE  TickInv'
<1> USE DEF TickInv
<1>0. LoopTypeOK /\ InHand /\ InPlace /\ Turns /\ MarksHaveCause
  OBVIOUS
<1>1. LoopTypeOK'
  BY <1>0 DEF Set, Goto, viewVars, bumpVars, loopVars, watchVars, LoopTypeOK, ViewTypeOK
<1>2. InHand'
  BY <1>0 DEF Set, Goto, viewVars, bumpVars, loopVars, watchVars, InHand, LoopTypeOK, ViewTypeOK
<1>3. InPlace'
  BY <1>0 DEF Set, Goto, viewVars, bumpVars, loopVars, watchVars, InPlace, LoopTypeOK,
     ViewTypeOK, Keys
<1>4. Turns'
  BY <1>0 DEF Set, Goto, viewVars, bumpVars, loopVars, watchVars, Turns, Running, LoopTypeOK,
     ViewTypeOK
<1>5. MarksHaveCause' /\ DownHasCause'
  BY <1>0 DEF Set, Goto, viewVars, bumpVars, loopVars, watchVars, MarksHaveCause, DownHasCause,
     LoopTypeOK
<1> QED BY <1>1, <1>2, <1>3, <1>4, <1>5

\* A task fails.
LEMMA RunFailsInv ==
    ASSUME TickInv, NEW k \in Tickers, RunFails(k)
    PROVE  TickInv'
<1> USE DEF TickInv
<1>0. LoopTypeOK /\ InHand /\ InPlace /\ Turns /\ MarksHaveCause
  OBVIOUS
<1>1. LoopTypeOK'
  BY <1>0 DEF RunFails, Goto, viewVars, bumpVars, loopVars, watchVars, LoopTypeOK, ViewTypeOK
<1>2. InHand'
  BY <1>0 DEF RunFails, Goto, viewVars, bumpVars, loopVars, watchVars, InHand, LoopTypeOK,
     ViewTypeOK
<1>3. InPlace'
  BY <1>0 DEF RunFails, Goto, viewVars, bumpVars, loopVars, watchVars, InPlace, LoopTypeOK,
     ViewTypeOK,
     Keys
<1>4. Turns'
  BY <1>0 DEF RunFails, Goto, viewVars, bumpVars, loopVars, watchVars, Turns, Running,
     LoopTypeOK,
     ViewTypeOK
<1>5. MarksHaveCause' /\ DownHasCause'
  BY <1>0 DEF RunFails, Goto, viewVars, bumpVars, loopVars, watchVars, MarksHaveCause,
     DownHasCause, LoopTypeOK
<1> QED BY <1>1, <1>2, <1>3, <1>4, <1>5

\* A tick ends, or panics.
LEMMA StopInv ==
    ASSUME TickInv, NEW k \in Tickers, Stop(k)
    PROVE  TickInv'
<1> USE DEF TickInv
<1>0. LoopTypeOK /\ InHand /\ InPlace /\ Turns /\ MarksHaveCause
  OBVIOUS
<1>1. LoopTypeOK'
  BY <1>0 DEF Stop, Goto, viewVars, bumpVars, loopVars, watchVars, LoopTypeOK, ViewTypeOK
<1>2. InHand'
  BY <1>0 DEF Stop, Goto, viewVars, bumpVars, loopVars, watchVars, InHand, LoopTypeOK,
     ViewTypeOK
<1>3. InPlace'
  BY <1>0 DEF Stop, Goto, viewVars, bumpVars, loopVars, watchVars, InPlace, LoopTypeOK,
     ViewTypeOK, Keys
<1>4. Turns'
  BY <1>0 DEF Stop, Goto, viewVars, bumpVars, loopVars, watchVars, Turns, Running, LoopTypeOK,
     ViewTypeOK
<1>5. MarksHaveCause' /\ DownHasCause'
  BY <1>0 DEF Stop, Goto, viewVars, bumpVars, loopVars, watchVars, MarksHaveCause, DownHasCause,
     LoopTypeOK
<1> QED BY <1>1, <1>2, <1>3, <1>4, <1>5

\* A watcher finds its tick without an answer.
LEMMA LookInv ==
    ASSUME TickInv, NEW k \in Tickers, Look(k)
    PROVE  TickInv'
<1> USE DEF TickInv
<1>0. LoopTypeOK /\ InHand /\ InPlace /\ Turns /\ MarksHaveCause
  OBVIOUS
<1>1. LoopTypeOK'
  BY <1>0 DEF Look, viewVars, bumpVars, loopVars, watchVars, LoopTypeOK, ViewTypeOK
<1>2. InHand'
  BY <1>0 DEF Look, viewVars, bumpVars, loopVars, watchVars, InHand, LoopTypeOK, ViewTypeOK
<1>3. InPlace'
  BY <1>0 DEF Look, viewVars, bumpVars, loopVars, watchVars, InPlace, LoopTypeOK, ViewTypeOK,
     Keys
<1>4. Turns'
  BY <1>0 DEF Look, viewVars, bumpVars, loopVars, watchVars, Turns, Running, LoopTypeOK,
     ViewTypeOK
<1>5. MarksHaveCause' /\ DownHasCause'
  BY <1>0 DEF Look, viewVars, bumpVars, loopVars, watchVars, MarksHaveCause, DownHasCause,
     LoopTypeOK
<1> QED BY <1>1, <1>2, <1>3, <1>4, <1>5

\* The watcher marks the database for the cause it had.
LEMMA MarkInv ==
    ASSUME TickInv, NEW k \in Tickers, Mark(k)
    PROVE  TickInv'
<1> USE DEF TickInv
<1>0. LoopTypeOK /\ InHand /\ InPlace /\ Turns /\ MarksHaveCause
  OBVIOUS
<1>1. LoopTypeOK'
  BY <1>0 DEF Mark, viewVars, bumpVars, loopVars, watchVars, LoopTypeOK, ViewTypeOK
<1>2. InHand'
  BY <1>0 DEF Mark, viewVars, bumpVars, loopVars, watchVars, InHand, LoopTypeOK, ViewTypeOK
<1>3. InPlace'
  BY <1>0 DEF Mark, viewVars, bumpVars, loopVars, watchVars, InPlace, LoopTypeOK, ViewTypeOK,
     Keys
<1>4. Turns'
  BY <1>0 DEF Mark, viewVars, bumpVars, loopVars, watchVars, Turns, Running, LoopTypeOK,
     ViewTypeOK
<1>5. MarksHaveCause' /\ DownHasCause'
  BY <1>0 DEF Mark, viewVars, bumpVars, loopVars, watchVars, MarksHaveCause, DownHasCause,
     LoopTypeOK
<1> QED BY <1>1, <1>2, <1>3, <1>4, <1>5

\* The watcher gives up.
LEMMA DeadlineInv ==
    ASSUME TickInv, NEW k \in Tickers, Deadline(k)
    PROVE  TickInv'
<1> USE DEF TickInv
<1>0. LoopTypeOK /\ InHand /\ InPlace /\ Turns /\ MarksHaveCause
  OBVIOUS
<1>1. LoopTypeOK'
  BY <1>0 DEF Deadline, viewVars, bumpVars, loopVars, watchVars, LoopTypeOK, ViewTypeOK
<1>2. InHand'
  BY <1>0 DEF Deadline, viewVars, bumpVars, loopVars, watchVars, InHand, LoopTypeOK, ViewTypeOK
<1>3. InPlace'
  BY <1>0 DEF Deadline, viewVars, bumpVars, loopVars, watchVars, InPlace, LoopTypeOK,
     ViewTypeOK, Keys
<1>4. Turns'
  BY <1>0 DEF Deadline, viewVars, bumpVars, loopVars, watchVars, Turns, Running, LoopTypeOK,
     ViewTypeOK
<1>5. MarksHaveCause' /\ DownHasCause'
  BY <1>0 DEF Deadline, viewVars, bumpVars, loopVars, watchVars, MarksHaveCause, DownHasCause,
     LoopTypeOK
<1> QED BY <1>1, <1>2, <1>3, <1>4, <1>5

\* TickInv is inductive.
LEMMA TickInvStep == TickInv /\ [LoopNext]_allVars => TickInv'
<1> SUFFICES ASSUME TickInv, [LoopNext]_allVars PROVE TickInv'
  OBVIOUS
<1>1. ASSUME NEW k \in Tickers, LoopStep(k) PROVE TickInv'
  BY <1>1, StartInv, PingInv, SetInv, RunFailsInv, StopInv, TickBeginInv, TickVisitInv, TickReadInv,
     TickDeleteInv, TickInsertInv, TickInsertFailsInv, TickEndInv DEF LoopStep, ViewTick
<1>2. ASSUME NEW k \in Tickers, Watch(k) PROVE TickInv'
  BY <1>2, LookInv, MarkInv, DeadlineInv DEF Watch
<1>3. ASSUME NEW v \in Views, Bump(v), UNCHANGED watchVars PROVE TickInv'
  BY <1>3, BumpFindInv, BumpAddInv, BumpStoreInv DEF Bump
<1>4. CASE UNCHANGED allVars
  <2> USE <1>4 DEF TickInv, allVars, viewVars, bumpVars, loopVars, watchVars
  <2>1. LoopTypeOK'
    BY DEF LoopTypeOK, ViewTypeOK
  <2>2. InHand' /\ Turns'
    BY DEF InHand, Turns, Running
  <2>3. InPlace'
    BY DEF InPlace, Keys
  <2>4. MarksHaveCause' /\ DownHasCause'
    BY DEF MarksHaveCause, DownHasCause
  <2> QED BY <2>1, <2>2, <2>3, <2>4
<1> QED BY <1>1, <1>2, <1>3, <1>4 DEF LoopNext

\* So it always holds.
LEMMA TickInvAlways == LoopSpec => []TickInv
BY TickInvInit, TickInvStep, PTL DEF LoopSpec

\* The tick loop, its watchers and the view counter keep their types.
THEOREM TickLoopTypes == LoopSpec => []LoopTypeOK
<1>1. TickInv => LoopTypeOK
  BY DEF TickInv
<1> QED BY <1>1, TickInvAlways, PTL

\* The database never counts as down without a cause: a failed ping, or a watcher that
\* found its tick without an answer (TickWatch in src/common/tickloop.go).
THEOREM DownAlwaysHasCause == LoopSpec => []DownHasCause
<1>1. TickInv => DownHasCause
  BY DEF TickInv
<1> QED BY <1>1, TickInvAlways, PTL

-----------------------------------------------------------------------------
(* The view counter is a Ledger.                                           *)

\* The topics whose buckets no tick is about to delete, and the views in these.
Open == {t \in Keys : ~Doomed(t)}
Counts == [t \in Keys |-> counter[buckets[t]]]
InMap == SumFunctionOnSet(Counts, Open)
Share(t) == IF t \in Open THEN counter[buckets[t]] ELSE 0

\* Pending adds up naturals.
Measured ==
    /\ IsFiniteSet(Open) /\ \A t \in Open : Counts[t] \in Nat
    /\ InMap \in Nat
    /\ \A k \in Tickers : Held(k) \in Nat
    /\ Pending = InMap + Held("loop") + Held("shutdown")
    /\ Pending \in Nat

\* Pending is a sum of naturals in every state of the invariant.
LEMMA PendingParts == TickInv => Measured
<1> SUFFICES ASSUME TickInv PROVE Measured
  OBVIOUS
<1> USE DEF TickInv
<1>1. IsFiniteSet(Open)
  <2>1. Open \subseteq Topics
    BY DEF Open, Keys
  <2> QED BY <2>1, TopicsAssumption, FS_Subset
<1>2. \A t \in Open : Counts[t] \in Nat
  BY NoneAssumption DEF Open, Counts, Keys, LoopTypeOK, ViewTypeOK
<1>3. InMap \in Nat
  BY <1>1, <1>2, SumTake DEF InMap
<1>4. ASSUME NEW k \in Tickers PROVE Held(k) \in Nat
  <2>1. CASE at[k] = "read"
    BY <2>1 DEF Held, LoopTypeOK, ViewTypeOK, InHand
  <2>2. CASE at[k] \in {"delete", "insert"}
    BY <2>2 DEF Held, LoopTypeOK, ViewTypeOK
  <2>3. CASE at[k] \notin {"read", "delete", "insert"}
    BY <2>3 DEF Held
  <2> QED BY <2>1, <2>2, <2>3
<1>5. Pending = InMap + Held("loop") + Held("shutdown")
  BY DEF Pending, InMap, Counts, Open
<1>6. Pending \in Nat
  BY <1>3, <1>4, <1>5 DEF Tickers
<1> QED BY <1>1, <1>2, <1>3, <1>4, <1>5, <1>6 DEF Measured

\* A step that concerns one topic leaves the rest of the sum alone.
LEMMA MapRest ==
    ASSUME TickInv, TickInv', NEW t, Open \ {t} = Open' \ {t},
           \A x \in Open \ {t} : counter[buckets[x]] = counter'[buckets'[x]]
    PROVE  \E r \in Nat : InMap = r + Share(t) /\ InMap' = r + Share(t)'
<1>1. /\ IsFiniteSet(Open) /\ \A x \in Open : Counts[x] \in Nat
      /\ IsFiniteSet(Open') /\ \A x \in Open' : Counts'[x] \in Nat
  <2>1. Measured /\ Measured'
    BY PendingParts, PTL
  <2> QED BY <2>1 DEF Measured
<1>2. /\ \A x \in Open : Counts[x] = counter[buckets[x]]
      /\ \A x \in Open' : Counts'[x] = counter'[buckets'[x]]
  BY DEF Open, Counts
<1>3. \A x \in Open \ {t} : Counts[x] = Counts'[x]
  <2> HIDE DEF Open, Counts
  <2> QED BY <1>2
<1>4. PICK r \in Nat :
          /\ SumFunctionOnSet(Counts, Open) = r + IF t \in Open THEN Counts[t] ELSE 0
          /\ SumFunctionOnSet(Counts', Open') = r + IF t \in Open' THEN Counts'[t] ELSE 0
  <2> DEFINE S == Open
             T == Open'
             f == Counts
             g == Counts'
  <2>1. Terms(f, S) /\ Terms(g, T) /\ AgreeBut(f, S, g, T, t)
    BY <1>1, <1>3 DEF Terms, AgreeBut
  <2> HIDE DEF S, T, f, g
  <2>2. SameRest(f, S, g, T, t)
    BY <2>1, SumRest
  <2> QED BY <2>2 DEF S, T, f, g, SameRest
<1>5. InMap = SumFunctionOnSet(Counts, Open) /\ InMap' = SumFunctionOnSet(Counts', Open')
  BY DEF InMap
<1>6. (IF t \in Open THEN Counts[t] ELSE 0) = Share(t)
  BY <1>2 DEF Share
<1>7. (IF t \in Open' THEN Counts'[t] ELSE 0) = Share(t)'
  BY <1>2 DEF Share
<1> QED BY <1>4, <1>5, <1>6, <1>7

\* How a step may change what is counted, what is stored and what is on its way.
Moves ==
    \/ UNCHANGED <<bumped, db>> /\ Pending' = Pending
    \/ bumped' = bumped + 1 /\ db' = db /\ Pending' <= Pending + 1
    \/ bumped' = bumped /\ db' > db /\ Pending' = Pending - (db' - db)
    \/ UNCHANGED <<bumped, db>> /\ Pending' < Pending

\* The other ticker.
LEMMA Other ==
    ASSUME TickInv, TickInv', NEW k \in Tickers
    PROVE  \E j \in Tickers \ {k} :
               /\ Tickers = {j, k}
               /\ Pending = InMap + Held(j) + Held(k)
               /\ Pending' = InMap' + Held(j)' + Held(k)'
<1>1. Measured /\ Measured'
  BY PendingParts, PTL
<1>2. CASE k = "loop"
  <2>1. "shutdown" \in Tickers \ {k} /\ Tickers = {"shutdown", k}
    BY <1>2 DEF Tickers
  <2>2. /\ Pending = InMap + Held("shutdown") + Held(k)
        /\ Pending' = InMap' + Held("shutdown")' + Held(k)'
    <3>1. /\ Held("loop") \in Nat /\ Held("shutdown") \in Nat /\ InMap \in Nat
          /\ Held("loop")' \in Nat /\ Held("shutdown")' \in Nat /\ InMap' \in Nat
      BY <1>1 DEF Measured, Tickers
    <3> QED BY <1>1, <1>2, <3>1 DEF Measured
  <2> QED BY <2>1, <2>2
<1>3. CASE k = "shutdown"
  <2>1. "loop" \in Tickers \ {k} /\ Tickers = {"loop", k}
    BY <1>3 DEF Tickers
  <2>2. /\ Pending = InMap + Held("loop") + Held(k)
        /\ Pending' = InMap' + Held("loop")' + Held(k)'
    <3>1. /\ Held("loop") \in Nat /\ Held("shutdown") \in Nat /\ InMap \in Nat
          /\ Held("loop")' \in Nat /\ Held("shutdown")' \in Nat /\ InMap' \in Nat
      BY <1>1 DEF Measured, Tickers
    <3> QED BY <1>1, <1>3, <3>1 DEF Measured
  <2> QED BY <2>1, <2>2
<1> QED BY <1>2, <1>3 DEF Tickers

\* A step that leaves the buckets, the counts and the visits alone moves nothing.
Visiting(k) == at[k] \in {"read", "delete", "insert"}

\* Such a step moves nothing.
LEMMA QuietMoves ==
    ASSUME TickInv, TickInv', UNCHANGED <<buckets, counter, topic, bucket, count, bumped, db>>,
           \A k \in Tickers : at'[k] = at[k] \/ (~Visiting(k) /\ ~Visiting(k)')
    PROVE  Moves
<1>1. ASSUME NEW k \in Tickers PROVE Held(k)' = Held(k)
  BY <1>1 DEF Held, Visiting
<1>2. Open' = Open
  BY DEF Open, Keys, Doomed, Visiting
<1>3. \A x \in Open \ {None} : counter[buckets[x]] = counter'[buckets'[x]]
  OBVIOUS
<1>4. PICK r \in Nat : InMap = r + Share(None) /\ InMap' = r + Share(None)'
  BY <1>2, <1>3, MapRest
<1>5. Share(None)' = Share(None)
  BY <1>2 DEF Share
<1>6. Pending' = Pending
  <2>1. Measured /\ Measured'
    BY PendingParts, PTL
  <2>2. InMap' = InMap
    BY <1>4, <1>5
  <2> QED BY <1>1, <2>1, <2>2 DEF Measured, Tickers
<1> QED BY <1>6 DEF Moves

\* The step that counts a view adds one to what is on its way, or less: its bucket is in
\* the map for one topic only, and not for one whose bucket a tick is about to read.
LEMMA BumpAddMoves ==
    ASSUME TickInv, TickInv', ~overlap, NEW v \in Views, BumpAdd(v)
    PROVE  Moves
<1>0. PICK b \in Views : b = found[v]
  BY DEF BumpAdd, TickInv, InHand
<1>t. PICK t \in Topics : t = TopicOf[b]
  BY TopicOfAssumption
<1>1. /\ bump[v] = "add"
      /\ counter' = [counter EXCEPT ![b] = @ + 1] /\ counter \in [Views -> Nat]
      /\ bumped' = bumped + 1 /\ UNCHANGED <<buckets, at, topic, bucket, count, db>>
  BY <1>0 DEF BumpAdd, TickInv, loopVars, LoopTypeOK, ViewTypeOK
<1>2. Open' = Open
  BY <1>1 DEF Open, Keys, Doomed
<1>3. counter'[b] = counter[b] + 1 /\ \A w \in Views \ {b} : counter'[w] = counter[w]
  BY <1>1
<1>4. \A x \in Open : buckets[x] \in Views /\ TopicOf[buckets[x]] = x
  BY DEF TickInv, InPlace, Open, Keys, LoopTypeOK, ViewTypeOK
<1>5. \A x \in Open \ {t} : counter[buckets[x]] = counter'[buckets'[x]]
  <2>1. \A x \in Open \ {t} : buckets[x] \in Views \ {b}
    BY <1>t, <1>4
  <2> QED BY <1>1, <1>3, <2>1
<1>6. PICK r \in Nat : InMap = r + Share(t) /\ InMap' = r + Share(t)'
  BY <1>2, <1>5, MapRest
<1>7. Measured /\ Measured'
  BY PendingParts, PTL
<1>8. Share(t) \in Nat /\ Share(t)' \in {Share(t), Share(t) + 1}
      /\ (t \notin Open => Share(t)' = Share(t))
  <2>1. CASE t \in Open
    <3>1. buckets[t] \in Views
      BY <1>4, <2>1
    <3>2. Share(t) = counter[buckets[t]] /\ Share(t)' = counter'[buckets[t]]
      BY <1>1, <1>2, <2>1 DEF Share
    <3> QED BY <1>1, <1>3, <2>1, <3>1, <3>2
  <2>2. CASE t \notin Open
    BY <1>2, <2>2 DEF Share
  <2> QED BY <2>1, <2>2
<1>9. ASSUME NEW k \in Tickers
      PROVE  /\ Held(k)' \in {Held(k), Held(k) + 1}
             /\ Held(k)' # Held(k) => at[k] = "read" /\ topic[k] = t
  <2>1. CASE at[k] = "read"
    <3>1. bucket[k] \in Views /\ TopicOf[bucket[k]] = topic[k]
      BY <2>1 DEF TickInv, InHand, InPlace
    <3>2. Held(k) = counter[bucket[k]] /\ Held(k)' = counter'[bucket[k]]
      BY <1>1, <2>1 DEF Held
    <3> QED BY <1>t, <1>3, <2>1, <3>1, <3>2
  <2>2. CASE at[k] # "read"
    BY <1>1, <2>2 DEF Held
  <2> QED BY <2>1, <2>2
<1>10. Pending' <= Pending + 1
  <2>1. CASE \E k \in Tickers : Held(k)' # Held(k)
    <3>1. PICK k \in Tickers : Held(k)' # Held(k)
      BY <2>1
    <3>2. at[k] = "read" /\ topic[k] = t
      BY <1>9, <3>1
    <3>3. t \notin Open
      BY <3>2 DEF Open, Doomed
    <3>4. PICK j \in Tickers \ {k} :
              /\ Tickers = {j, k}
              /\ Pending = InMap + Held(j) + Held(k)
              /\ Pending' = InMap' + Held(j)' + Held(k)'
      BY Other
    <3>5. at[j] # "read"
      BY <3>2 DEF TickInv, Turns, Running
    <3>6. Held(j)' = Held(j)
      BY <1>9, <3>5
    <3>7. InMap' = InMap
      BY <1>6, <1>8, <3>3
    <3>8. Held(k)' \in {Held(k), Held(k) + 1} /\ Held(k) \in Nat /\ Held(j) \in Nat /\ InMap \in Nat
      BY <1>7, <1>9 DEF Measured
    <3> QED BY <3>4, <3>6, <3>7, <3>8
  <2>2. CASE \A k \in Tickers : Held(k)' = Held(k)
    <3>1. Held("loop")' = Held("loop") /\ Held("shutdown")' = Held("shutdown")
      BY <2>2 DEF Tickers
    <3>2. InMap' \in {InMap, InMap + 1} /\ InMap \in Nat
      BY <1>6, <1>7, <1>8 DEF Measured
    <3>3. /\ Pending = InMap + Held("loop") + Held("shutdown")
          /\ Pending' = InMap' + Held("loop")' + Held("shutdown")'
          /\ Held("loop") \in Nat /\ Held("shutdown") \in Nat
      BY <1>7 DEF Measured, Tickers
    <3> QED BY <3>1, <3>2, <3>3
  <2> QED BY <2>1, <2>2
<1> QED BY <1>1, <1>10 DEF Moves

\* A new bucket holds one view, and takes the place of another or of none.
LEMMA BumpStoreMoves ==
    ASSUME TickInv, TickInv', NEW v \in Views, BumpStore(v)
    PROVE  Moves
<1>t. PICK t \in Topics : t = TopicOf[v]
  BY TopicOfAssumption
<1>1. /\ bump[v] = "store" /\ buckets' = [buckets EXCEPT ![t] = v]
      /\ counter' = [counter EXCEPT ![v] = 1] /\ counter \in [Views -> Nat]
      /\ buckets \in [Topics -> Views \cup {None}]
      /\ bumped' = bumped + 1 /\ UNCHANGED <<at, topic, bucket, count, db>>
  BY <1>t DEF BumpStore, TickInv, loopVars, LoopTypeOK, ViewTypeOK
<1>2. Open \ {t} = Open' \ {t}
  BY <1>1 DEF Open, Keys, Doomed
<1>3. ASSUME NEW x \in Open \ {t} PROVE counter[buckets[x]] = counter'[buckets'[x]]
  <2>1. x \in Topics /\ buckets[x] \in Views /\ bump[buckets[x]] = "done"
    BY NoneAssumption DEF Open, Keys, TickInv, InPlace, LoopTypeOK, ViewTypeOK
  <2>2. buckets'[x] = buckets[x] /\ buckets[x] # v
    BY <1>1, <2>1
  <2> QED BY <1>1, <2>1, <2>2
<1>4. PICK r \in Nat : InMap = r + Share(t) /\ InMap' = r + Share(t)'
  BY <1>2, <1>3, MapRest
<1>5. Share(t) \in Nat
  BY <1>1, NoneAssumption DEF Share, Open, Keys
<1>6. Share(t)' \in {0, 1}
  <2>1. counter'[buckets'[t]] = 1
    BY <1>1
  <2> QED BY <2>1 DEF Share
<1>7. ASSUME NEW k \in Tickers PROVE Held(k)' = Held(k)
  <2>1. CASE at[k] = "read"
    <3>1. bucket[k] \in Views /\ bump[bucket[k]] = "done"
      BY <2>1 DEF TickInv, InHand, InPlace
    <3>2. counter'[bucket[k]] = counter[bucket[k]]
      BY <1>1, <3>1
    <3> QED BY <1>1, <2>1, <3>2 DEF Held
  <2>2. CASE at[k] # "read"
    BY <1>1, <2>2 DEF Held
  <2> QED BY <2>1, <2>2
<1>8. Pending' <= Pending + 1
  <2>1. Measured /\ Measured'
    BY PendingParts, PTL
  <2>2. /\ Pending = InMap + Held("loop") + Held("shutdown")
        /\ Pending' = InMap' + Held("loop")' + Held("shutdown")'
        /\ Held("loop") \in Nat /\ Held("shutdown") \in Nat
        /\ Held("loop")' = Held("loop") /\ Held("shutdown")' = Held("shutdown")
    BY <1>7, <2>1 DEF Measured, Tickers
  <2> QED BY <1>4, <1>5, <1>6, <2>2
<1> QED BY <1>1, <1>8 DEF Moves

\* A tick alone takes a topic's views over from the map when it visits it.
LEMMA TickVisitMoves ==
    ASSUME TickInv, TickInv', ~overlap, NEW k \in Tickers, NEW t \in Topics, TickVisit(k, t)
    PROVE  Moves
<1>1. /\ at[k] = "range" /\ t \in Keys /\ at' = [at EXCEPT ![k] = "read"]
      /\ topic' = [topic EXCEPT ![k] = t] /\ bucket' = [bucket EXCEPT ![k] = buckets[t]]
      /\ at \in [Tickers -> {"idle", "check", "set", "run", "range", "read", "delete",
                             "insert", "stop", "over"}]
      /\ topic \in [Tickers -> Topics \cup {None}]
      /\ bucket \in [Tickers -> Views \cup {None}]
      /\ UNCHANGED <<buckets, counter, bumped, count, db>>
  BY DEF TickVisit, bumpVars, TickInv, LoopTypeOK, ViewTypeOK
<1>2. PICK j \in Tickers \ {k} :
          /\ Tickers = {j, k}
          /\ Pending = InMap + Held(j) + Held(k)
          /\ Pending' = InMap' + Held(j)' + Held(k)'
  BY Other
<1>3. at[j] \notin {"range", "read", "delete", "insert"} /\ at'[j] = at[j]
  BY <1>1 DEF TickInv, Turns, Running
<1>4. Held(j) = 0 /\ Held(j)' = 0 /\ Held(k) = 0 /\ Held(k)' = counter[buckets[t]]
  BY <1>1, <1>3 DEF Held
<1>5. t \in Open /\ Open' = Open \ {t}
  <2>1. \A x : ~Doomed(x)
    BY <1>1, <1>2, <1>3 DEF Doomed
  <2>2. \A x : Doomed(x)' <=> x = t
    BY <1>1, <1>2, <1>3 DEF Doomed
  <2>3. Keys' = Keys
    BY <1>1 DEF Keys
  <2> QED BY <1>1, <2>1, <2>2, <2>3 DEF Open
<1>6. PICK r \in Nat : InMap = r + Share(t) /\ InMap' = r + Share(t)'
  BY <1>1, <1>5, MapRest
<1>7. Share(t) = counter[buckets[t]] /\ Share(t)' = 0
  BY <1>5 DEF Share
<1>8. Share(t) \in Nat
  BY <1>1, NoneAssumption DEF Share, Open, Keys, TickInv, LoopTypeOK, ViewTypeOK
<1>9. Pending' = Pending
  BY <1>2, <1>4, <1>6, <1>7, <1>8
<1> QED BY <1>1, <1>9 DEF Moves

\* What is read is held on; the deletion of a topic that no sum had in it changes none.
LEMMA TickReadMoves ==
    ASSUME TickInv, TickInv', NEW k \in Tickers, TickRead(k) \/ TickDelete(k)
    PROVE  Moves
<1>1. /\ at \in [Tickers -> {"idle", "check", "set", "run", "range", "read", "delete",
                             "insert", "stop", "over"}]
      /\ count \in [Tickers -> Nat] /\ topic \in [Tickers -> Topics \cup {None}]
      /\ buckets \in [Topics -> Views \cup {None}]
      /\ UNCHANGED <<counter, topic, bucket, bumped, db>>
  BY DEF TickRead, TickDelete, bumpVars, loopVars, TickInv, LoopTypeOK, ViewTypeOK
<1>2. ASSUME NEW j \in Tickers PROVE Held(j)' = Held(j)
  <2>1. CASE j = k
    BY <1>1, <2>1 DEF TickRead, TickDelete, Held
  <2>2. CASE j # k
    BY <1>1, <2>2 DEF TickRead, TickDelete, Held
  <2> QED BY <2>1, <2>2
<1>3. Open' = Open /\ \A x \in Open : buckets'[x] = buckets[x]
  <2>1. CASE TickRead(k)
    <3>1. buckets' = buckets /\ \A x : Doomed(x)' <=> Doomed(x)
      BY <1>1, <2>1 DEF TickRead, Doomed
    <3> QED BY <3>1 DEF Open, Keys
  <2>2. CASE TickDelete(k)
    <3>1. /\ at[k] = "delete" /\ at' = [at EXCEPT ![k] = "insert"]
          /\ topic[k] \in Topics /\ buckets' = [buckets EXCEPT ![topic[k]] = None]
      BY <2>2 DEF TickDelete, TickInv, InHand
    <3>2. Doomed(topic[k]) /\ \A x : x # topic[k] => (Doomed(x)' <=> Doomed(x))
      BY <1>1, <3>1 DEF Doomed
    <3>3. Keys' = Keys \ {topic[k]} /\ \A x \in Topics \ {topic[k]} : buckets'[x] = buckets[x]
      BY <1>1, <3>1 DEF Keys
    <3> QED BY <3>1, <3>2, <3>3 DEF Open, Keys
  <2> QED BY <2>1, <2>2
<1>4. PICK r \in Nat : InMap = r + Share(None) /\ InMap' = r + Share(None)'
  <2>1. \A x \in Open \ {None} : counter[buckets[x]] = counter'[buckets'[x]]
    BY <1>1, <1>3
  <2> QED BY <1>3, <2>1, MapRest
<1>5. Share(None)' = Share(None)
  BY <1>1, <1>3 DEF Share
<1>6. Pending' = Pending
  <2>1. Measured /\ Measured'
    BY PendingParts, PTL
  <2>2. InMap' = InMap
    BY <1>4, <1>5
  <2> QED BY <1>2, <2>1, <2>2 DEF Measured, Tickers
<1> QED BY <1>1, <1>6 DEF Moves

\* A count leaves the tick for the database, or is lost.
LEMMA TickInsertMoves ==
    ASSUME TickInv, TickInv', NEW k \in Tickers, TickInsert(k) \/ TickInsertFails(k)
    PROVE  Moves
<1>1. /\ at[k] = "insert" /\ at'[k] \in {"range", "stop"}
      /\ \A j \in Tickers \ {k} : /\ at'[j] = at[j] /\ topic'[j] = topic[j]
                                  /\ bucket'[j] = bucket[j] /\ count'[j] = count[j]
      /\ count \in [Tickers -> Nat] /\ db \in Nat
      /\ UNCHANGED <<buckets, counter, bumped>>
      /\ db' = db + count[k] \/ (db' = db /\ count[k] # 0)
  BY DEF TickInsert, TickInsertFails, Leave, bumpVars, TickInv, LoopTypeOK, ViewTypeOK
<1>2. PICK j \in Tickers \ {k} :
          /\ Tickers = {j, k}
          /\ Pending = InMap + Held(j) + Held(k)
          /\ Pending' = InMap' + Held(j)' + Held(k)'
  BY Other
<1>3. Held(k) = count[k] /\ Held(k)' = 0 /\ Held(j)' = Held(j) /\ count[k] \in Nat
  BY <1>1 DEF Held
<1>4. Open' = Open
  <2>1. \A x : Doomed(x)' <=> Doomed(x)
    BY <1>1 DEF Doomed
  <2> QED BY <1>1, <2>1 DEF Open, Keys
<1>5. PICK r \in Nat : InMap = r + Share(None) /\ InMap' = r + Share(None)'
  <2>1. \A x \in Open \ {None} : counter[buckets[x]] = counter'[buckets'[x]]
    BY <1>1
  <2> QED BY <1>4, <2>1, MapRest
<1>6. Share(None)' = Share(None)
  BY <1>1, <1>4 DEF Share
<1>7. Measured
  BY PendingParts
<1>8. Pending' = Pending - count[k] /\ Pending \in Nat
  <2>1. InMap \in Nat /\ Held(j) \in Nat /\ Pending \in Nat
    BY <1>7 DEF Measured
  <2> QED BY <1>2, <1>3, <1>5, <1>6, <2>1
<1> QED BY <1>1, <1>3, <1>8 DEF Moves

\* Every step moves views as Moves says, as long as ticks do not overlap.
LEMMA TickMoves ==
    ASSUME TickInv, TickInv', ~overlap, ~overlap', [LoopNext]_allVars
    PROVE  Moves
<1>1. ASSUME NEW k \in Tickers, LoopStep(k) \/ Watch(k) PROVE Moves
  <2>1. at \in [Tickers -> {"idle", "check", "set", "run", "range", "read", "delete",
                            "insert", "stop", "over"}]
    BY DEF TickInv, LoopTypeOK, ViewTypeOK
  <2>2. ASSUME UNCHANGED <<buckets, counter, topic, bucket, count, bumped, db>>,
               at' = at \/ (~Visiting(k) /\ \E l : /\ at' = [at EXCEPT ![k] = l]
                                                   /\ l \notin {"read", "delete", "insert"})
        PROVE  Moves
    <3>1. \A j \in Tickers : at'[j] = at[j] \/ (~Visiting(j) /\ ~Visiting(j)')
      BY <2>1, <2>2 DEF Visiting
    <3> QED BY <2>2, <3>1, QuietMoves
  <2>3. ASSUME NEW l, Goto(k, l), ~Visiting(k), l \notin {"read", "delete", "insert"}
        PROVE  Moves
    BY <2>2, <2>3 DEF Goto, bumpVars, loopVars
  <2>4. CASE Start(k) \/ Ping(k) \/ Set(k) \/ RunFails(k) \/ Stop(k)
    <3>1. CASE Start(k)
      BY <2>3, <3>1 DEF Start, Visiting
    <3>2. CASE Ping(k)
      BY <2>3, <3>2 DEF Ping, Visiting
    <3>3. CASE Set(k) \/ RunFails(k)
      BY <2>3, <3>3 DEF Set, RunFails, Visiting
    <3>4. CASE Stop(k)
      BY <2>2, <2>3, <3>4 DEF Stop, viewVars, bumpVars, loopVars, Visiting
    <3> QED BY <2>4, <3>1, <3>2, <3>3, <3>4
  <2>5. CASE Watch(k)
    BY <2>2, <2>5 DEF Watch, Look, Mark, Deadline, viewVars, bumpVars, loopVars
  <2>6. CASE TickBegin(k) \/ TickEnd(k)
    BY <2>2, <2>6 DEF TickBegin, TickEnd, bumpVars, Visiting
  <2>7. CASE \E t \in Topics : TickVisit(k, t)
    BY <2>7, TickVisitMoves
  <2>8. CASE TickRead(k) \/ TickDelete(k)
    BY <2>8, TickReadMoves
  <2>9. CASE TickInsert(k) \/ TickInsertFails(k)
    BY <2>9, TickInsertMoves
  <2> QED BY <1>1, <2>4, <2>5, <2>6, <2>7, <2>8, <2>9 DEF LoopStep, ViewTick
<1>2. ASSUME NEW v \in Views, BumpFind(v) PROVE Moves
  <2>1. \A k \in Tickers : at'[k] = at[k]
    BY <1>2 DEF BumpFind
  <2> QED BY <1>2, <2>1, QuietMoves DEF BumpFind, loopVars
<1>3. ASSUME NEW v \in Views, Bump(v) PROVE Moves
  BY <1>2, <1>3, BumpAddMoves, BumpStoreMoves DEF Bump
<1>4. CASE UNCHANGED allVars
  BY <1>4, QuietMoves DEF allVars, viewVars, bumpVars, loopVars
<1> QED BY <1>1, <1>3, <1>4 DEF LoopNext

\* What a step moves is what a step of the Ledger may.
LEMMA TickStepsTheLedger ==
    ASSUME TickInv, TickInv', [LoopNext]_allVars
    PROVE  [Account!Next]_(Account!ledger)
<1>0. bumped \in Nat /\ db \in Nat /\ bumped' \in Nat /\ db' \in Nat
  BY DEF TickInv, LoopTypeOK, ViewTypeOK
<1>1. overlap \in BOOLEAN /\ overlap' \in BOOLEAN
  BY DEF TickInv, LoopTypeOK, ViewTypeOK
<1>2. CASE overlap'
  BY <1>2 DEF Account!Next
<1>3. CASE ~overlap'
  <2>1. ~overlap
    BY <1>3 DEF LoopNext, LoopStep, Watch, ViewTick, Bump, BumpFind, BumpAdd, BumpStore,
       TickBegin,
       TickVisit, TickRead, TickDelete, TickInsert, TickInsertFails, TickEnd, Start, Ping, Set,
       RunFails, Stop, Look, Mark, Deadline, Goto, allVars, viewVars
  <2>2. Moves
    BY <1>3, <2>1, TickMoves
  <2>3. Pending \in Nat /\ Pending' \in Nat
    <3>1. Measured /\ Measured'
      BY PendingParts, PTL
    <3> QED BY <3>1 DEF Measured
  <2>4. PICK p \in Nat, b \in Nat, d \in Nat, q \in Nat, c \in Nat, e \in Nat :
             p = Pending /\ b = bumped /\ d = db /\ q = Pending' /\ c = bumped' /\ e = db'
    BY <1>0, <2>3
  <2>5. e + (c - e - q) <= c
    OBVIOUS
  <2>6. \/ c = b /\ e = d /\ c - e - q = b - d - p
        \/ c = b + 1 /\ c - e - q >= b - d - p /\ e = d
        \/ e > d /\ c = b /\ c - e - q = b - d - p
        \/ c - e - q > b - d - p /\ c = b /\ e = d
    <3>1. \/ c = b /\ e = d /\ q = p
          \/ c = b + 1 /\ e = d /\ q <= p + 1
          \/ c = b /\ e > d /\ q = p - (e - d)
          \/ c = b /\ e = d /\ q < p
      BY <2>2, <2>4 DEF Moves
    <3> QED BY <3>1
  <2>7. overlap' = overlap
    BY <1>1, <1>3, <2>1
  <2> QED BY <1>3, <2>1, <2>4, <2>5, <2>6, <2>7 DEF Account!Next, Account!Covered, Account!Count,
             Account!Store, Account!Lose, Account!ledger
<1> QED BY <1>2, <1>3

\* The counter of views is a Ledger for any number of views and topics: until ticks
\* overlap, a view is stored once or lost for good, and none is made up.
THEOREM ViewsImplementLedger == LoopSpec => ViewsAreAccounted
<1>1. LoopInit => Account!Init
  <2> SUFFICES ASSUME LoopInit PROVE Account!Init
    OBVIOUS
  <2>1. Open = {} /\ \A k \in Tickers : Held(k) = 0
    BY DEF LoopInit, ViewInit, Open, Keys, Held
  <2>2. Measured
    BY TickInvInit, PendingParts
  <2>3. Pending = 0
    <3>1. InMap = 0
      <4>1. InMap = SumFunctionOnSet(Counts, {})
        BY <2>1 DEF InMap
      <4>2. IsFiniteSet({})
        BY FS_EmptySet
      <4> QED BY <4>1, <4>2, SumFirst
    <3> QED BY <2>1, <2>2, <3>1 DEF Measured, Tickers
  <2>4. overlap \in BOOLEAN
    BY DEF LoopInit, ViewInit
  <2>5. bumped = 0 /\ db = 0
    BY DEF LoopInit, ViewInit
  <2> QED BY <2>3, <2>4, <2>5 DEF Account!Init
<1>2. TickInv /\ TickInv' /\ [LoopNext]_allVars => [Account!Next]_(Account!ledger)
  BY TickStepsTheLedger
<1> QED BY <1>1, <1>2, TickInvAlways, PTL DEF LoopSpec, ViewsAreAccounted, Account!Spec

-----------------------------------------------------------------------------
(* The user cache.                                                         *)

USE ThreadsAssumption, UsersAssumption, CapacityAssumption, SlotsAssumption, ResetsAssumption
    DEF Reset

\* Every list DeallocOverflow fills, once trimmed, is a partial list of IDs.
LEMMA TrimmedType ==
    ASSUME NEW n \in 0 .. (EvictSlots + PrioritySlots), NEW S \in SUBSET Users,
           NEW list \in Filled(n, S)
    PROVE  Trimmed(list) \in EvictLists
<1>1. list \in [1 .. n -> Users \cup {NoUser}]
  BY DEF Filled
<1>2. 1 .. n \subseteq 1 .. (EvictSlots + PrioritySlots)
  OBVIOUS
<1> DEFINE zeros == {i \in DOMAIN list : list[i] = NoUser}
           kept == {k \in DOMAIN list : \E z \in zeros : k < z}
<1>3. CASE zeros = {}
  BY <1>1, <1>2, <1>3 DEF Trimmed, EvictLists
<1>4. CASE zeros # {}
  <2>1. kept \in SUBSET (1 .. (EvictSlots + PrioritySlots))
    BY <1>1, <1>2
  <2>2. [i \in kept |-> list[i]] \in [kept -> Users \cup {NoUser}]
    BY <1>1
  <2>3. Trimmed(list) = [i \in kept |-> list[i]]
    BY <1>4 DEF Trimmed
  <2> QED BY <2>1, <2>2, <2>3 DEF EvictLists
<1> QED BY <1>3, <1>4

LEMMA NoListType == NoList \in EvictLists
<1>1. NoList \in [{} -> Users \cup {NoUser}]
  BY DEF NoList
<1>2. {} \in SUBSET (1 .. (EvictSlots + PrioritySlots))
  OBVIOUS
<1> QED BY <1>1, <1>2 DEF EvictLists

LEMMA TypeInit == Init => TypeOK
<1> SUFFICES ASSUME Init PROVE TypeOK
  OBVIOUS
<1>1. pc \in [Threads -> {"idle", "inc", "dec"}]
  BY DEF Init
<1>2. evList \in EvictLists
  BY NoListType DEF Init
<1>3. couldNotDealloc \in BOOLEAN
  BY DEF Init
<1>4. /\ length \in Int /\ evOwed \in Nat /\ resets \in Nat
      /\ items \subseteq Users
  BY DEF Init
<1>5. capacity \in Capacities /\ class \in [Users -> Classes]
  BY DEF Init
<1>6. evPc \in {"wait", "cold", "warm", "remove", "adjust"}
  BY DEF Init
<1> QED BY <1>1, <1>2, <1>3, <1>4, <1>5, <1>6 DEF TypeOK

LEMMA FiniteItems == TypeOK => IsFiniteSet(items) /\ Cardinality(items) \in Nat
BY FS_Subset, FS_CardinalityType DEF TypeOK

LEMMA TypeStep == TypeOK /\ [Next]_vars => TypeOK'
<1> SUFFICES ASSUME TypeOK, [Next]_vars PROVE TypeOK'
  OBVIOUS
<1> USE DEF TypeOK
<1>1. ASSUME NEW t \in Threads, NEW u \in Users, SetInsert(t, u) PROVE TypeOK'
  BY <1>1 DEF SetInsert, evVars
<1>2. ASSUME NEW t \in Threads, NEW u \in Users, RemoveDelete(t, u) PROVE TypeOK'
  BY <1>2 DEF RemoveDelete, evVars
<1>3. ASSUME NEW t \in Threads, NEW u \in Users, Add(t, u) PROVE TypeOK'
  <2>1. Cardinality(items \cup {u}) \in Nat
    BY FiniteItems, FS_AddElement, FS_CardinalityType
  <2> QED BY <1>3, <2>1 DEF Add, evVars
<1>4. ASSUME NEW t \in Threads, Settle(t) PROVE TypeOK'
  BY <1>4 DEF Settle, Owed, evVars
<1>5. ASSUME NEW t \in Threads, Flush(t) PROVE TypeOK'
  BY <1>5 DEF Flush, evVars
<1>6. ASSUME NEW t \in Threads, NEW c \in Capacities, SetCapacity(t, c) PROVE TypeOK'
  BY <1>6 DEF SetCapacity, evVars
<1>7. ASSUME NEW u \in Users, NEW c \in Classes, Activity(u, c) PROVE TypeOK'
  BY <1>7 DEF Activity, cacheVars, evVars
<1>8. CASE Tick
  BY <1>8 DEF Tick, cacheVars
<1>9. CASE PickCold
  <2>1. Cold \in SUBSET Users
    BY DEF Cold
  <2>2. \A list \in Filled(EvictSlots, Cold) : Trimmed(list) \in EvictLists
    BY <2>1, TrimmedType
  <2> QED BY <1>9, <2>2 DEF PickCold, cacheVars
<1>10. CASE PickWarm
  <2>1. Warm \in SUBSET Users
    BY DEF Warm
  <2>2. \A list \in Filled(PrioritySlots, Warm) : Trimmed(list) \in EvictLists
    BY <2>1, TrimmedType
  <2> QED BY <1>10, <2>2 DEF PickWarm, cacheVars
<1>11. CASE BulkRemove
  <2>1. Cardinality(items \cap Chosen) \in Nat
    BY FiniteItems, FS_Subset, FS_CardinalityType
  <2> QED BY <1>11, <2>1 DEF BulkRemove
<1>12. CASE BulkAdjust
  <2>1. length - evOwed \in Int
    OBVIOUS
  <2> QED BY <1>12, <2>1, NoListType DEF BulkAdjust
<1>13. CASE UNCHANGED vars
  BY <1>13 DEF vars, cacheVars, evVars
<1> QED
  BY <1>1, <1>2, <1>3, <1>4, <1>5, <1>6, <1>7, <1>8, <1>9, <1>10, <1>11, <1>12, <1>13
  DEF Next, Request, Evict

\* The state of MemoryUserCache and of the resource goroutine stays well typed.
THEOREM TypeCorrect == Spec => []TypeOK
BY TypeInit, TypeStep, PTL DEF Spec

-----------------------------------------------------------------------------
\* BulkRemove overwrites evOwed, so nothing may be owed when it starts.
OwedWhileAdjusting == evPc # "adjust" => evOwed = 0

\* LengthAccounts and OverrunBounded are inductive together with the types and
\* OwedWhileAdjusting: the accounting turns the check of length in SetInsert
\* into a bound on the map.
IInv == TypeOK /\ OwedWhileAdjusting /\ LengthAccounts /\ OverrunBounded

LEMMA FiniteDebts ==
    /\ IsFiniteSet(Incs) /\ Cardinality(Incs) \in Nat
    /\ IsFiniteSet(Decs) /\ Cardinality(Decs) \in Nat
<1>1. Incs \in SUBSET Threads /\ Decs \in SUBSET Threads
  BY DEF Incs, Decs
<1> QED BY <1>1, FS_Subset, FS_CardinalityType

\* A thread that owes nothing leaves room for at most |Threads| - 1 increments.
LEMMA IdleLeavesRoom ==
    ASSUME NEW t \in Threads, pc[t] = "idle"
    PROVE  Cardinality(Incs) <= Cardinality(Threads) - 1
<1>1. Incs \in SUBSET (Threads \ {t})
  BY DEF Incs
<1>2. IsFiniteSet(Threads \ {t}) /\ Cardinality(Threads \ {t}) = Cardinality(Threads) - 1
  BY FS_RemoveElement
<1> QED BY <1>1, <1>2, FS_Subset

LEMMA ThreadsPositive == Cardinality(Threads) \in Nat /\ Cardinality(Threads) >= 1
BY FS_CardinalityType, FS_EmptySet

LEMMA InvInit == Init => IInv
<1> SUFFICES ASSUME Init PROVE IInv
  OBVIOUS
<1>1. Incs = {} /\ Decs = {}
  BY DEF Init, Incs, Decs
<1>2. LengthAccounts
  BY <1>1, FS_EmptySet DEF Init, LengthAccounts
<1>3. OverrunBounded
  BY ThreadsPositive, FS_EmptySet DEF Init, OverrunBounded
<1>4. OwedWhileAdjusting
  BY DEF Init, OwedWhileAdjusting
<1> QED BY <1>2, <1>3, <1>4, TypeInit DEF IInv

LEMMA OwedStep == OwedWhileAdjusting /\ [Next]_vars => OwedWhileAdjusting'
<1> SUFFICES ASSUME OwedWhileAdjusting, [Next]_vars PROVE OwedWhileAdjusting'
  OBVIOUS
<1> USE DEF OwedWhileAdjusting
<1>1. ASSUME NEW t \in Threads, Request(t) PROVE OwedWhileAdjusting'
  BY <1>1 DEF Request, SetInsert, RemoveDelete, Add, Settle, Flush, SetCapacity, evVars
<1>2. ASSUME NEW u \in Users, NEW c \in Classes, Activity(u, c) PROVE OwedWhileAdjusting'
  BY <1>2 DEF Activity, evVars
<1>3. CASE Evict
  BY <1>3 DEF Evict, Tick, PickCold, PickWarm, BulkRemove, BulkAdjust
<1>4. CASE UNCHANGED vars
  BY <1>4 DEF vars, evVars
<1> QED BY <1>1, <1>2, <1>3, <1>4 DEF Next

\* Steps that touch neither the map nor what is owed keep both.
LEMMA AccountsUntouched ==
    ASSUME IInv, UNCHANGED <<items, length, pc, evOwed, resets>>
    PROVE  LengthAccounts' /\ OverrunBounded'
<1>1. Incs' = Incs /\ Decs' = Decs
  BY DEF Incs, Decs
<1> QED BY <1>1 DEF IInv, LengthAccounts, OverrunBounded

\* A step never takes resets back, and none that leaves it alone is a reset from
\* under a goroutine that owes.
LEMMA ResetsGrow == TypeOK /\ [Next]_vars /\ resets' = 0 => resets = 0
BY DEF TypeOK, Next, Request, SetInsert, RemoveDelete, Add, Settle, Flush, SetCapacity,
       Activity, Evict, Tick, PickCold, PickWarm, BulkRemove, BulkAdjust, vars

LEMMA InvStep ==
    ASSUME IInv, [Next]_vars
    PROVE  LengthAccounts' /\ OverrunBounded'
<1> SUFFICES ASSUME resets' = 0 PROVE LengthAccounts' /\ OverrunBounded'
  BY DEF LengthAccounts, OverrunBounded
<1>r. resets = 0
  BY ResetsGrow DEF IInv
<1> USE <1>r DEF IInv
<1>t. TypeOK' /\ Cardinality(items) \in Nat /\ IsFiniteSet(items)
      /\ length \in Int /\ evOwed \in Nat /\ capacity \in Nat /\ capacity <= MaxCapacity
  BY TypeStep, FiniteItems DEF TypeOK
<1>p. pc \in [Threads -> {"idle", "inc", "dec"}]
  BY DEF TypeOK
<1>1. ASSUME NEW t \in Threads, NEW u \in Users, SetInsert(t, u)
      PROVE LengthAccounts' /\ OverrunBounded'
  <2>1. Incs' = Incs \cup {t} /\ t \notin Incs /\ Decs' = Decs
    BY <1>1, <1>p DEF SetInsert, Incs, Decs
  <2>2. Cardinality(Incs') = Cardinality(Incs) + 1
    BY <2>1, FiniteDebts, FS_AddElement
  <2>3. Cardinality(items') = Cardinality(items) + 1
    BY <1>1, <1>t, FS_AddElement DEF SetInsert
  <2>4. length' = length /\ evOwed' = evOwed /\ length < capacity
    BY <1>1 DEF SetInsert, evVars
  <2>5. Cardinality(Incs) <= Cardinality(Threads) - 1
    BY <1>1, IdleLeavesRoom DEF SetInsert
  <2>6. LengthAccounts'
    BY <1>t, <2>1, <2>2, <2>3, <2>4, FiniteDebts DEF LengthAccounts
  <2>7. OverrunBounded'
    BY <1>t, <2>3, <2>4, <2>5, FiniteDebts, ThreadsPositive DEF LengthAccounts, OverrunBounded
  <2> QED BY <2>6, <2>7
<1>2. ASSUME NEW t \in Threads, NEW u \in Users, RemoveDelete(t, u)
      PROVE LengthAccounts' /\ OverrunBounded'
  <2>1. Decs' = Decs \cup {t} /\ t \notin Decs /\ Incs' = Incs
    BY <1>2, <1>p DEF RemoveDelete, Incs, Decs
  <2>2. Cardinality(Decs') = Cardinality(Decs) + 1
    BY <2>1, FiniteDebts, FS_AddElement
  <2>3. Cardinality(items') = Cardinality(items) - 1
    BY <1>2, <1>t, FS_RemoveElement DEF RemoveDelete
  <2>4. length' = length /\ evOwed' = evOwed
    BY <1>2 DEF RemoveDelete, evVars
  <2>5. Cardinality(items') \in Nat
    BY <1>2, <1>t, FS_RemoveElement, FS_CardinalityType DEF RemoveDelete
  <2> QED BY <1>t, <2>1, <2>2, <2>3, <2>4, <2>5, FiniteDebts, ThreadsPositive
          DEF LengthAccounts, OverrunBounded
<1>3. ASSUME NEW t \in Threads, NEW u \in Users, Add(t, u)
      PROVE LengthAccounts' /\ OverrunBounded'
  <2>1. Incs = {} /\ Decs = {} /\ evOwed = 0 /\ length < capacity
    BY <1>3 DEF Add, Quiet
  <2>2. Incs' = Incs /\ Decs' = Decs /\ evOwed' = evOwed
    BY <1>3 DEF Add, evVars, Incs, Decs
  <2>3. Cardinality(items') \in Nat /\ Cardinality(items') <= Cardinality(items) + 1
    <3>1. items' = items \cup {u} /\ IsFiniteSet(items')
      BY <1>3, <1>t, FS_AddElement DEF Add
    <3>2. Cardinality(items') = IF u \in items THEN Cardinality(items) ELSE Cardinality(items) + 1
      BY <1>t, <3>1, FS_AddElement
    <3> QED BY <1>t, <3>1, <3>2, FS_CardinalityType
  <2>4. length' = Cardinality(items')
    BY <1>3 DEF Add
  <2>5. Cardinality({}) = 0
    BY FS_EmptySet
  <2> QED BY <1>t, <2>1, <2>2, <2>3, <2>4, <2>5, ThreadsPositive
          DEF LengthAccounts, OverrunBounded
<1>4. ASSUME NEW t \in Threads, Settle(t)
      PROVE LengthAccounts' /\ OverrunBounded'
  <2>1. items' = items /\ evOwed' = evOwed
    BY <1>4 DEF Settle, evVars
  <2>2. CASE pc[t] = "inc"
    <3>1. Incs' = Incs \ {t} /\ t \in Incs /\ Decs' = Decs
      BY <1>4, <1>p, <2>2 DEF Settle, Incs, Decs
    <3>2. Cardinality(Incs') = Cardinality(Incs) - 1
      BY <3>1, FiniteDebts, FS_RemoveElement
    <3>3. length' = length + 1
      BY <1>4, <2>2 DEF Settle, Owed
    <3> QED BY <1>t, <2>1, <3>1, <3>2, <3>3, FiniteDebts DEF LengthAccounts, OverrunBounded
  <2>3. CASE pc[t] = "dec"
    <3>1. Decs' = Decs \ {t} /\ t \in Decs /\ Incs' = Incs
      BY <1>4, <1>p, <2>3 DEF Settle, Incs, Decs
    <3>2. Cardinality(Decs') = Cardinality(Decs) - 1
      BY <3>1, FiniteDebts, FS_RemoveElement
    <3>3. length' = length - 1
      BY <1>4, <2>3, <1>t DEF Settle, Owed
    <3> QED BY <1>t, <2>1, <3>1, <3>2, <3>3, FiniteDebts DEF LengthAccounts, OverrunBounded
  <2> QED BY <1>4, <1>p, <2>2, <2>3 DEF Settle
<1>5. ASSUME NEW t \in Threads, Flush(t)
      PROVE LengthAccounts' /\ OverrunBounded'
  <2>1. Incs' = {} /\ Decs' = {} /\ evOwed' = 0 /\ items' = {} /\ length' = 0
    BY <1>5 DEF Flush, Quiet, evVars, Incs, Decs
  <2> QED BY <2>1, FS_EmptySet, ThreadsPositive DEF LengthAccounts, OverrunBounded
<1>6. ASSUME NEW t \in Threads, NEW c \in Capacities, SetCapacity(t, c)
      PROVE LengthAccounts' /\ OverrunBounded'
  BY <1>6, AccountsUntouched DEF SetCapacity, evVars
<1>7. ASSUME NEW u \in Users, NEW c \in Classes, Activity(u, c)
      PROVE LengthAccounts' /\ OverrunBounded'
  BY <1>7, AccountsUntouched DEF Activity, cacheVars, evVars
<1>8. CASE Tick \/ PickCold \/ PickWarm \/ UNCHANGED vars
  BY <1>8, AccountsUntouched DEF Tick, PickCold, PickWarm, vars, cacheVars, evVars
<1>9. CASE BulkRemove
  <2> DEFINE gone == items \cap Chosen
  <2>1. gone \in SUBSET items /\ items' = items \ gone
    BY <1>9 DEF BulkRemove
  <2>2. Cardinality(items') = Cardinality(items) - Cardinality(gone)
    BY <1>t, <1>9, FS_Difference DEF BulkRemove
  <2>3. Cardinality(gone) \in Nat /\ Cardinality(items') \in Nat
    BY <1>t, <2>1, FS_Subset, FS_CardinalityType
  <2>4. evOwed' = Cardinality(gone) /\ length' = length /\ evOwed = 0
    BY <1>9 DEF BulkRemove, OwedWhileAdjusting
  <2>5. Incs' = Incs /\ Decs' = Decs
    BY <1>9 DEF BulkRemove, Incs, Decs
  <2> QED BY <1>t, <2>2, <2>3, <2>4, <2>5, FiniteDebts, ThreadsPositive
          DEF LengthAccounts, OverrunBounded
<1>10. CASE BulkAdjust
  <2>1. Incs' = Incs /\ Decs' = Decs
    BY <1>10 DEF BulkAdjust, Incs, Decs
  <2> QED BY <1>10, <1>t, <2>1, FiniteDebts DEF BulkAdjust, LengthAccounts, OverrunBounded
<1> QED
  BY <1>1, <1>2, <1>3, <1>4, <1>5, <1>6, <1>7, <1>8, <1>9, <1>10 DEF Next, Request, Evict

LEMMA InvAlways == Spec => []IInv
<1>1. IInv /\ [Next]_vars => IInv'
  BY TypeStep, OwedStep, InvStep DEF IInv
<1> QED BY <1>1, InvInit, PTL DEF Spec

\* Whatever the interleaving of requests and evictions, length differs from the
\* size of the map by what is still owed and by nothing else, so no adjustment
\* of Set, Remove or BulkRemove is ever lost or applied twice (unless an Add or a
\* Flush comes between, which happens in tests only).
THEOREM LengthAccountsAlways == Spec => []LengthAccounts
<1>1. IInv => LengthAccounts
  BY DEF IInv
<1> QED BY <1>1, InvAlways, PTL

\* The map never holds more than the largest capacity plus one entry for every
\* request thread but one.
THEOREM OverrunBoundedAlways == Spec => []OverrunBounded
<1>1. IInv => OverrunBounded
  BY DEF IInv
<1> QED BY <1>1, InvAlways, PTL

-----------------------------------------------------------------------------
\* The list of a pass is not empty when it has been trimmed.
OnePassInv ==
    /\ couldNotDealloc = FALSE
    /\ evPc # "warm"
    /\ evPc \in {"remove", "adjust"} => DOMAIN evList # {}

\* The trimming keeps what precedes the last zero, which is the last slot if any: so it
\* keeps the first of two.
LEMMA TrimmedIsNotEmpty ==
    ASSUME EvictSlots > 1, NEW S \in SUBSET Users, NEW list \in Filled(EvictSlots, S)
    PROVE  DOMAIN Trimmed(list) # {}
<1> DEFINE n == EvictSlots
           k == IF Cardinality(S) < n THEN Cardinality(S) ELSE n
           zeros == {i \in DOMAIN list : list[i] = NoUser}
<1>1. n \in Nat /\ 1 \in 1 .. n /\ n \in 1 .. n
  OBVIOUS
<1>2. k \in Nat
  BY FS_Subset, FS_CardinalityType
<1>3. DOMAIN list = 1 .. n /\ \A i \in 1 .. n : list[i] # NoUser <=> i <= k
  BY DEF Filled
<1>4. CASE zeros = {}
  BY <1>1, <1>3, <1>4 DEF Trimmed
<1>5. CASE zeros # {}
  <2>1. PICK i \in 1 .. n : ~(i <= k)
    BY <1>3, <1>5
  <2>2. ~(n <= k)
    BY <1>1, <1>2, <2>1
  <2>3. n \in zeros
    BY <1>1, <1>3, <2>2
  <2>4. DOMAIN Trimmed(list) = {j \in DOMAIN list : \E z \in zeros : j < z}
    BY <1>5 DEF Trimmed
  <2>5. 1 \in DOMAIN Trimmed(list)
    BY <1>1, <1>3, <2>3, <2>4
  <2> QED BY <2>5
<1> QED BY <1>4, <1>5

LEMMA OnePassStep ==
    ASSUME EvictSlots > 1, TypeOK, OnePassInv, [Next]_vars
    PROVE  OnePassInv'
<1> USE DEF OnePassInv
<1>1. ASSUME NEW t \in Threads, Request(t) PROVE OnePassInv'
  BY <1>1 DEF Request, SetInsert, RemoveDelete, Add, Settle, Flush, SetCapacity, evVars
<1>2. ASSUME NEW u \in Users, NEW c \in Classes, Activity(u, c) PROVE OnePassInv'
  BY <1>2 DEF Activity, evVars
<1>3. CASE Tick
  BY <1>3 DEF Tick
<1>4. CASE PickCold
  <2>1. PICK list \in Filled(EvictSlots, Cold) : evList' = Trimmed(list)
    BY <1>4 DEF PickCold
  <2>2. Cold \in SUBSET Users
    BY DEF Cold, TypeOK
  <2>3. DOMAIN evList' # {}
    BY <2>1, <2>2, TrimmedIsNotEmpty
  <2> QED BY <1>4, <2>3 DEF PickCold
<1>5. CASE PickWarm
  BY <1>5 DEF PickWarm
<1>6. CASE BulkRemove
  BY <1>6 DEF BulkRemove
<1>7. CASE BulkAdjust
  BY <1>7 DEF BulkAdjust
<1>8. CASE UNCHANGED vars
  BY <1>8 DEF vars, evVars
<1> QED BY <1>1, <1>2, <1>3, <1>4, <1>5, <1>6, <1>7, <1>8 DEF Next, Evict

\* With a list of two slots or more, and the code's has ten, DeallocOverflow never reports
\* that it evicted nobody: the resource goroutine never asks it to evict by priority, and
\* the second pass, "with a bit more aggressiveness", is never run.
THEOREM NoSecondPass ==
    EvictSlots > 1 => (Spec => [](couldNotDealloc = FALSE /\ evPc # "warm"))
<1> SUFFICES ASSUME EvictSlots > 1
             PROVE  Spec => [](couldNotDealloc = FALSE /\ evPc # "warm")
  OBVIOUS
<1>1. Init => OnePassInv
  BY DEF Init, OnePassInv
<1>2. TypeOK /\ OnePassInv /\ [Next]_vars => OnePassInv'
  BY OnePassStep
<1>3. OnePassInv => couldNotDealloc = FALSE /\ evPc # "warm"
  BY DEF OnePassInv
<1> QED BY <1>1, <1>2, <1>3, TypeCorrect, PTL DEF Spec
=============================================================================
