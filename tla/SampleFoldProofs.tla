-------------------------- MODULE SampleFoldProofs --------------------------
(***************************************************************************)
(* TLAPS proofs about SampleFold: the detailed rows hold the peaks of the  *)
(* samples, and the summaries the sums, peaks and counts of the detailed   *)
(* rows, for any number of samples, processes and devices.                 *)
(***************************************************************************)
EXTENDS SampleFold, FiniteSetTheorems, WellFoundedInduction, TLAPS

PeakOf(a, k) ==
    /\ IsPeak(a.ts, {s.ts : s \in OfKey(k)})
    /\ IsPeak(a.mem, {s.mem : s \in OfKey(k)})
    /\ IsPeak(a.util, {s.util : s \in OfKey(k)})

\* The loop invariants: perDev holds the peaks of the samples folded so far, and
\* has a key for each of them that has a process; detail copies perDev.
FoldInv ==
    /\ pc \in {"fold", "group", "summary"}
    /\ seen \subseteq Samples
    /\ DOMAIN perDev = {<<s.pid, s.dev>> : s \in seen} \ ({0} \X Devs)
    /\ \A k \in DOMAIN perDev : PeakOf(perDev[k], k)
    /\ DOMAIN detail \subseteq DOMAIN perDev
    /\ \A k \in DOMAIN detail : detail[k] = perDev[k]
    /\ pc = "fold" => DOMAIN detail = {}
    /\ pc = "group" => DOMAIN perDev = DOMAIN detail \cup keysLeft
    /\ pc = "summary" => DOMAIN perDev = DOMAIN detail

LEMMA HigherIsPeak ==
  ASSUME NEW S \in SUBSET Nat, NEW v \in Nat, NEW w, IsPeak(w, S)
  PROVE  IsPeak(Higher(w, v), S \cup {v})
  BY DEF IsPeak, Higher

LEMMA SampleFields ==
  ASSUME NEW s \in Samples
  PROVE  s.pid \in Nat /\ s.dev \in Nat /\ s.ts \in Nat /\ s.mem \in Nat /\ s.util \in Nat
  BY SampleFoldAssumption DEF Samples

(***************************************************************************)
(* One more sample: its key holds the peaks again, the others hold theirs. *)
(***************************************************************************)
LEMMA FoldStep ==
  ASSUME FoldInv, NEW s \in Samples, Fold(s)
  PROVE  FoldInv'
<1> DEFINE key == <<s.pid, s.dev>>
<1> USE DEF Fold
<1>s. /\ seen' = seen \cup {s} /\ seen' \subseteq Samples
      /\ DOMAIN detail = {}
      /\ key \in Pids \X Devs
  BY DEF FoldInv, Samples
<1>1. CASE Skipped(s)
  <2>1. s.pid = 0 /\ perDev' = perDev
    BY <1>1 DEF Skipped
  <2>2. {<<t.pid, t.dev>> : t \in seen'} \ ({0} \X Devs) = {<<t.pid, t.dev>> : t \in seen} \ ({0} \X Devs)
    BY <1>s, <2>1
  <2>3. \A k \in DOMAIN perDev : OfKey(k)' = OfKey(k)
    BY <1>s, <2>1 DEF OfKey, FoldInv
  <2>4. \A k \in DOMAIN perDev : PeakOf(perDev[k], k)'
    BY <2>1, <2>3 DEF PeakOf, FoldInv
  <2> QED
    BY <1>s, <2>1, <2>2, <2>4 DEF FoldInv
<1>2. CASE ~Skipped(s)
  <2>1. s.pid # 0 /\ perDev' = With(perDev, key, Folded(s))
    BY <1>2 DEF Skipped
  <2>2. DOMAIN perDev' = DOMAIN perDev \cup {key}
    BY <2>1 DEF With
  <2>3. key \notin {0} \X Devs
    BY <2>1
  <2>4. DOMAIN perDev' = {<<t.pid, t.dev>> : t \in seen'} \ ({0} \X Devs)
    BY <1>s, <2>2, <2>3 DEF FoldInv
  <2>5. \A k \in DOMAIN perDev \ {key} : perDev'[k] = perDev[k] /\ OfKey(k)' = OfKey(k)
    BY <1>s, <2>1 DEF With, OfKey
  <2>6. perDev'[key] = Folded(s) /\ OfKey(key)' = OfKey(key) \cup {s}
    BY <1>s, <2>1 DEF With, OfKey
  <2>7. /\ {t.ts : t \in OfKey(key)'} = {t.ts : t \in OfKey(key)} \cup {s.ts}
        /\ {t.mem : t \in OfKey(key)'} = {t.mem : t \in OfKey(key)} \cup {s.mem}
        /\ {t.util : t \in OfKey(key)'} = {t.util : t \in OfKey(key)} \cup {s.util}
    BY <2>6
  <2>8. PeakOf(perDev[key], key)'
    <3>1. CASE key \in DOMAIN perDev
      <4>1. PeakOf(perDev[key], key)
        BY <3>1 DEF FoldInv
      <4>2. /\ {t.ts : t \in OfKey(key)} \in SUBSET Nat
            /\ {t.mem : t \in OfKey(key)} \in SUBSET Nat
            /\ {t.util : t \in OfKey(key)} \in SUBSET Nat
        BY SampleFields DEF OfKey, FoldInv
      <4>3. /\ perDev'[key].ts = Higher(perDev[key].ts, s.ts)
            /\ perDev'[key].mem = Higher(perDev[key].mem, s.mem)
            /\ perDev'[key].util = Higher(perDev[key].util, s.util)
        BY <2>6, <3>1 DEF Folded
      <4> DEFINE T == {t.ts : t \in OfKey(key)}
                 M == {t.mem : t \in OfKey(key)}
                 U == {t.util : t \in OfKey(key)}
      <4>4. /\ T \in SUBSET Nat /\ IsPeak(perDev[key].ts, T)
            /\ M \in SUBSET Nat /\ IsPeak(perDev[key].mem, M)
            /\ U \in SUBSET Nat /\ IsPeak(perDev[key].util, U)
        BY <4>1, <4>2 DEF PeakOf
      <4> HIDE DEF T, M, U
      <4>5. /\ IsPeak(Higher(perDev[key].ts, s.ts), T \cup {s.ts})
            /\ IsPeak(Higher(perDev[key].mem, s.mem), M \cup {s.mem})
            /\ IsPeak(Higher(perDev[key].util, s.util), U \cup {s.util})
        BY <4>4, SampleFields, HigherIsPeak
      <4>6. /\ {t.ts : t \in OfKey(key)'} = T \cup {s.ts}
            /\ {t.mem : t \in OfKey(key)'} = M \cup {s.mem}
            /\ {t.util : t \in OfKey(key)'} = U \cup {s.util}
        BY <2>7 DEF T, M, U
      <4> QED
        BY <4>3, <4>5, <4>6 DEF PeakOf
    <3>2. CASE key \notin DOMAIN perDev
      <4>1. OfKey(key) = {}
        BY <2>3, <3>2, <1>s DEF OfKey, FoldInv
      <4>2. /\ perDev'[key].ts = s.ts /\ perDev'[key].mem = s.mem
            /\ perDev'[key].util = s.util
        BY <2>6, <3>2, SampleFields DEF Folded, Higher
      <4>3. /\ {t.ts : t \in OfKey(key)'} = {s.ts}
            /\ {t.mem : t \in OfKey(key)'} = {s.mem}
            /\ {t.util : t \in OfKey(key)'} = {s.util}
        BY <2>6, <4>1
      <4> QED
        BY <4>2, <4>3, SampleFields DEF PeakOf, IsPeak
    <3> QED
      BY <3>1, <3>2
  <2>9. \A k \in DOMAIN perDev' : PeakOf(perDev[k], k)'
    BY <2>2, <2>5, <2>8 DEF PeakOf, FoldInv
  <2> QED
    BY <1>s, <2>4, <2>9 DEF FoldInv
<1> QED
  BY <1>1, <1>2

LEMMA FoldInvStep == FoldInv /\ [Next]_vars => FoldInv'
<1> SUFFICES ASSUME FoldInv, [Next]_vars PROVE FoldInv'
  OBVIOUS
<1>1. ASSUME NEW s \in Samples, Fold(s) PROVE FoldInv'
  BY <1>1, FoldStep
<1>2. CASE FoldEnds
  BY <1>2 DEF FoldEnds, FoldInv, PeakOf, OfKey
<1>3. ASSUME NEW k \in keysLeft, Group(k) PROVE FoldInv'
  <2>1. /\ pc = "group" /\ detail' = With(detail, k, perDev[k])
        /\ keysLeft' = keysLeft \ {k} /\ UNCHANGED <<pc, seen, perDev>>
    BY <1>3 DEF Group
  <2>2. /\ DOMAIN detail' = DOMAIN detail \cup {k}
        /\ \A j \in DOMAIN detail' : detail'[j] = perDev[j]
    BY <2>1 DEF With, FoldInv
  <2> QED
    BY <2>1, <2>2 DEF FoldInv, PeakOf, OfKey
<1>4. CASE GroupEnds
  BY <1>4 DEF GroupEnds, FoldInv, PeakOf, OfKey
<1>5. ASSUME NEW p \in DOMAIN agg, Summarise(p) PROVE FoldInv'
  BY <1>5 DEF Summarise, FoldInv, PeakOf, OfKey
<1>6. CASE NextRound
  BY <1>6 DEF NextRound, FoldInv, Nothing
<1>7. CASE UNCHANGED vars
  BY <1>7 DEF vars, FoldInv, PeakOf, OfKey
<1> QED
  BY <1>1, <1>2, <1>3, <1>4, <1>5, <1>6, <1>7 DEF Next

LEMMA FoldInvInit == Init => FoldInv
  BY DEF Init, FoldInv, Nothing

(***************************************************************************)
(* Every detailed row holds the peaks of the samples of its process and    *)
(* device (poller.go:134).                                                 *)
(***************************************************************************)
THEOREM DetailHoldsPeaks == Spec => []DetailIsPeak
<1>1. FoldInv => DetailIsPeak
  BY DEF FoldInv, PeakOf, DetailIsPeak
<1> QED
  BY <1>1, FoldInvInit, FoldInvStep, PTL DEF Spec

(***************************************************************************)
(* The detailed rows are those of the sampled processes, pid 0 excepted    *)
(* (poller.go:159).                                                        *)
(***************************************************************************)
THEOREM DetailsAreTheSampled == Spec => []DetailOfEachSampled
<1>1. FoldInv => DetailOfEachSampled
  BY DEF FoldInv, DetailOfEachSampled
<1> QED
  BY <1>1, FoldInvInit, FoldInvStep, PTL DEF Spec

-----------------------------------------------------------------------------
(***************************************************************************)
(* The sum over a finite set.  MemOf takes the elements in the order of    *)
(* CHOOSE; what is shown here is that the order does not matter.           *)
(***************************************************************************)

\* The two forms of induction: the least number and a smallest set that has a
\* property.
LEMMA LeastNat == \A S \in SUBSET Nat : S # {} => \E m \in S : \A x \in S : ~(x < m)
<1> SUFFICES ASSUME NEW S \in SUBSET Nat, S # {} PROVE \E m \in S : \A x \in S : ~(x < m)
  OBVIOUS
<1> DEFINE R == OpToRel(<, Nat)
<1>1. IsWellFoundedOn(R, Nat)
  BY NatLessThanWellFounded
<1>2. \A x, y \in Nat : x < y => <<x, y>> \in R
  BY DEF OpToRel
<1> HIDE DEF R
<1>3. PICK m \in S : \A x \in S : ~(<<x, m>> \in R)
  BY <1>1, WFMin
<1> QED
  BY <1>2, <1>3

LEMMA SmallestSet ==
  ASSUME NEW S, IsFiniteSet(S), NEW Q \in SUBSET (SUBSET S), Q # {}
  PROVE  \E s \in Q : \A x \in s : s \ {x} \notin Q
<1> DEFINE R == StrictSubsetOrdering(S)
<1>1. IsWellFoundedOn(R, SUBSET S)
  BY FS_StrictSubsetOrderingWellFounded, FS_FiniteSubsetsOfFinite
<1>2. \A s \in SUBSET S : \A x \in s : <<s \ {x}, s>> \in R
  BY DEF StrictSubsetOrdering
<1> HIDE DEF R
<1>3. PICK s \in Q : \A t \in Q : ~(<<t, s>> \in R)
  BY <1>1, WFMin
<1> QED
  BY <1>2, <1>3

Any(s) == CHOOSE x \in s : TRUE

\* g adds up the memory of rowOf over each subset of S.
OneMore(g, rowOf, s) == IF s = {} THEN 0 ELSE rowOf[Any(s)].mem + g[s \ {Any(s)}]
AddsUp(g, rowOf, S)  == g = [s \in SUBSET S |-> OneMore(g, rowOf, s)]

LEMMA AnyIn == \A s : s # {} => Any(s) \in s
  BY DEF Any

LEMMA SumExists ==
  ASSUME NEW S, IsFiniteSet(S), NEW rowOf
  PROVE  \E g : AddsUp(g, rowOf, S)
<1> DEFINE Upto(n, g) == \A s \in SUBSET S : Cardinality(s) <= n => g[s] = OneMore(g, rowOf, s)
           Longer(g) == [s \in SUBSET S |-> OneMore(g, rowOf, s)]
           Bad == {n \in Nat : ~\E g : Upto(n, g)}
<1>1. \A s \in SUBSET S : /\ IsFiniteSet(s) /\ Cardinality(s) \in Nat
                          /\ Cardinality(s) <= Cardinality(S) /\ Cardinality(S) \in Nat
                          /\ Cardinality(s) = 0 <=> s = {}
  BY FS_Subset, FS_CardinalityType, FS_EmptySet
<1>2. ASSUME NEW s \in SUBSET S, s # {}
      PROVE  s \ {Any(s)} \in SUBSET S /\ Cardinality(s \ {Any(s)}) = Cardinality(s) - 1
  BY <1>1, <1>2, AnyIn, FS_RemoveElement
<1>3. ASSUME NEW n \in Nat, NEW g, Upto(n, g) PROVE Upto(n + 1, Longer(g))
  <2> SUFFICES ASSUME NEW s \in SUBSET S, Cardinality(s) <= n + 1
               PROVE  Longer(g)[s] = OneMore(Longer(g), rowOf, s)
    OBVIOUS
  <2>1. CASE s = {}
    BY <2>1 DEF OneMore
  <2>2. CASE s # {}
    <3> DEFINE t == s \ {Any(s)}
    <3>1. t \in SUBSET S /\ Cardinality(t) <= n
      BY <1>1, <1>2, <2>2
    <3>2. g[t] = OneMore(g, rowOf, t)
      BY <1>3, <3>1
    <3>3. Longer(g)[t] = g[t]
      BY <3>1, <3>2
    <3> QED
      BY <2>2, <3>3 DEF OneMore
  <2> QED
    BY <2>1, <2>2
<1>4. 0 \notin Bad
  <2> DEFINE zero == [s \in SUBSET S |-> 0]
  <2>1. Upto(0, zero)
    <3> SUFFICES ASSUME NEW s \in SUBSET S, Cardinality(s) <= 0 PROVE zero[s] = OneMore(zero, rowOf, s)
      OBVIOUS
    <3>1. s = {}
      BY <1>1
    <3> QED
      BY <3>1 DEF OneMore
  <2> HIDE DEF zero, Upto
  <2> QED
    BY <2>1
<1> HIDE DEF Upto
<1>5. Bad = {}
  <2> SUFFICES ASSUME Bad # {} PROVE FALSE
    OBVIOUS
  <2>1. PICK m \in Bad : \A x \in Bad : ~(x < m)
    BY LeastNat
  <2>2. m \in Nat /\ m # 0 /\ m - 1 \in Nat /\ m - 1 < m /\ (m - 1) + 1 = m
    BY <1>4
  <2>3. PICK g : Upto(m - 1, g)
    BY <2>1, <2>2
  <2>4. Upto(m, Longer(g))
    BY <1>3, <2>2, <2>3
  <2> QED
    BY <2>4
<1>6. PICK g : Upto(Cardinality(S), g)
  BY <1>1, <1>5
<1>7. \A s \in SUBSET S : g[s] = OneMore(g, rowOf, s)
  BY <1>1, <1>6 DEF Upto
<1>8. \A s \in SUBSET S : OneMore(Longer(g), rowOf, s) = OneMore(g, rowOf, s)
  <2> SUFFICES ASSUME NEW s \in SUBSET S, s # {}
               PROVE  Longer(g)[s \ {Any(s)}] = g[s \ {Any(s)}]
    BY DEF OneMore
  <2> QED
    BY <1>2, <1>7
<1>9. AddsUp(Longer(g), rowOf, S)
  BY <1>8 DEF AddsUp
<1> QED
  BY <1>9

LEMMA MemOfIs ==
  ASSUME NEW S, IsFiniteSet(S), NEW rowOf
  PROVE  \E g : AddsUp(g, rowOf, S) /\ MemOf(rowOf, S) = g[S]
<1> DEFINE iter == CHOOSE g : g = [s \in SUBSET S |->
                                     IF s = {} THEN 0 ELSE rowOf[Any(s)].mem + g[s \ {Any(s)}]]
<1>1. PICK h : AddsUp(h, rowOf, S)
  BY SumExists
<1>2. h = [s \in SUBSET S |-> IF s = {} THEN 0 ELSE rowOf[Any(s)].mem + h[s \ {Any(s)}]]
  BY <1>1 DEF AddsUp, OneMore
<1>3. iter = [s \in SUBSET S |-> IF s = {} THEN 0 ELSE rowOf[Any(s)].mem + iter[s \ {Any(s)}]]
  BY <1>2
<1>4. MemOf(rowOf, S) = iter[S]
  BY DEF MemOf, MapThenSumSet, MapThenFoldSet, Any
<1>5. AddsUp(iter, rowOf, S)
  BY <1>3 DEF AddsUp, OneMore
<1> QED
  BY <1>4, <1>5

LEMMA SumUnfolds ==
  ASSUME NEW S, NEW rowOf, NEW g, AddsUp(g, rowOf, S), NEW s \in SUBSET S, s # {}
  PROVE  /\ Any(s) \in s /\ s \ {Any(s)} \in SUBSET S
         /\ g[s] = rowOf[Any(s)].mem + g[s \ {Any(s)}]
  BY AnyIn DEF AddsUp, OneMore

LEMMA SumIsNat ==
  ASSUME NEW S, IsFiniteSet(S), NEW rowOf, \A k \in S : rowOf[k].mem \in Nat,
         NEW g, AddsUp(g, rowOf, S)
  PROVE  \A s \in SUBSET S : g[s] \in Nat
<1> DEFINE Bad == {s \in SUBSET S : g[s] \notin Nat}
<1>1. SUFFICES ASSUME Bad # {} PROVE FALSE
  OBVIOUS
<1>2. PICK s \in Bad : \A x \in s : s \ {x} \notin Bad
  BY <1>1, SmallestSet
<1>3. CASE s = {}
  BY <1>3 DEF AddsUp, OneMore
<1>4. CASE s # {}
  <2>1. g[s] = rowOf[Any(s)].mem + g[s \ {Any(s)}] /\ Any(s) \in s /\ s \ {Any(s)} \in SUBSET S
    BY <1>4, SumUnfolds
  <2>2. g[s \ {Any(s)}] \in Nat /\ rowOf[Any(s)].mem \in Nat
    BY <1>2, <2>1
  <2> QED
    BY <2>1, <2>2
<1> QED
  BY <1>3, <1>4

\* Any element may be taken first.
LEMMA SumSplits ==
  ASSUME NEW S, IsFiniteSet(S), NEW rowOf, \A k \in S : rowOf[k].mem \in Nat,
         NEW g, AddsUp(g, rowOf, S), NEW r \in SUBSET S, NEW j \in r
  PROVE  g[r] = rowOf[j].mem + g[r \ {j}]
<1> DEFINE Bad == {s \in SUBSET S : \E k \in s : g[s] # rowOf[k].mem + g[s \ {k}]}
<1>1. SUFFICES ASSUME Bad # {} PROVE FALSE
  OBVIOUS
<1>2. PICK s \in Bad : \A x \in s : s \ {x} \notin Bad
  BY <1>1, SmallestSet
<1>3. PICK k \in s : g[s] # rowOf[k].mem + g[s \ {k}]
  OBVIOUS
<1>4. \A y \in s : \A i \in s \ {y} : g[s \ {y}] = rowOf[i].mem + g[(s \ {y}) \ {i}]
  BY <1>2
<1>5. s \in SUBSET S /\ s # {}
  BY <1>3
<1> HIDE DEF Bad
<1>6. PICK x \in s : g[s] = rowOf[x].mem + g[s \ {x}]
  <2>1. Any(s) \in s
    BY <1>5, AnyIn
  <2>2. g[s] = rowOf[Any(s)].mem + g[s \ {Any(s)}]
    BY <1>5 DEF AddsUp, OneMore
  <2> QED
    BY <2>1, <2>2
<1>7. x # k
  BY <1>3, <1>6
<1> DEFINE rest == (s \ {x}) \ {k}
<1>8. g[s \ {x}] = rowOf[k].mem + g[rest]
  BY <1>4, <1>7
<1>9. g[s \ {k}] = rowOf[x].mem + g[rest]
  <2>1. rest = (s \ {k}) \ {x} /\ x \in s \ {k}
    BY <1>7
  <2> HIDE DEF rest
  <2> QED
    BY <1>4, <2>1
<1>10. rest \in SUBSET S
  BY <1>5
<1> HIDE DEF rest
<1>11. rowOf[k].mem \in Nat /\ rowOf[x].mem \in Nat /\ g[rest] \in Nat
  BY <1>5, <1>10, SumIsNat
<1> QED
  BY <1>3, <1>6, <1>8, <1>9, <1>11

\* Only the rows summed up matter.
LEMMA SumAgrees ==
  ASSUME NEW T, NEW S \in SUBSET T, IsFiniteSet(S),
         NEW rowOf, NEW other, \A k \in S : rowOf[k].mem = other[k].mem,
         NEW g, AddsUp(g, rowOf, S), NEW h, AddsUp(h, other, T)
  PROVE  \A s \in SUBSET S : g[s] = h[s]
<1> DEFINE Bad == {s \in SUBSET S : g[s] # h[s]}
<1>1. SUFFICES ASSUME Bad # {} PROVE FALSE
  OBVIOUS
<1>2. PICK s \in Bad : \A x \in s : s \ {x} \notin Bad
  BY <1>1, SmallestSet
<1>3. CASE s = {}
  BY <1>3 DEF AddsUp, OneMore
<1>4. CASE s # {}
  <2>1. /\ g[s] = rowOf[Any(s)].mem + g[s \ {Any(s)}]
        /\ Any(s) \in s /\ s \ {Any(s)} \in SUBSET S
    BY <1>4, SumUnfolds
  <2>2. s \in SUBSET T
    OBVIOUS
  <2>5. h[s] = other[Any(s)].mem + h[s \ {Any(s)}]
    BY <1>4, <2>2, SumUnfolds
  <2>3. rowOf[Any(s)].mem = other[Any(s)].mem
    BY <2>1
  <2>4. g[s \ {Any(s)}] = h[s \ {Any(s)}]
    BY <1>2, <2>1
  <2> QED
    BY <2>1, <2>3, <2>4, <2>5
<1> QED
  BY <1>3, <1>4

LEMMA MemOfNone == \A rowOf : MemOf(rowOf, {}) = 0
  BY MemOfIs, FS_EmptySet DEF AddsUp, OneMore

LEMMA MemOfSame ==
  ASSUME NEW S, IsFiniteSet(S), NEW rowOf, NEW other, \A k \in S : rowOf[k].mem = other[k].mem
  PROVE  MemOf(rowOf, S) = MemOf(other, S)
<1>1. PICK g : AddsUp(g, rowOf, S) /\ MemOf(rowOf, S) = g[S]
  BY MemOfIs
<1>2. PICK h : AddsUp(h, other, S) /\ MemOf(other, S) = h[S]
  BY MemOfIs
<1>3. g[S] = h[S]
  BY <1>1, <1>2, SumAgrees
<1> QED
  BY <1>1, <1>2, <1>3

LEMMA MemOfOneMore ==
  ASSUME NEW T, IsFiniteSet(T), NEW k \in T, NEW rowOf, \A j \in T : rowOf[j].mem \in Nat
  PROVE  /\ MemOf(rowOf, T) = MemOf(rowOf, T \ {k}) + rowOf[k].mem
         /\ MemOf(rowOf, T \ {k}) \in Nat
<1> DEFINE S == T \ {k}
<1>1. IsFiniteSet(S) /\ S \in SUBSET T /\ T \in SUBSET T
  BY FS_RemoveElement
<1>2. PICK g : AddsUp(g, rowOf, S) /\ MemOf(rowOf, S) = g[S]
  BY <1>1, MemOfIs
<1>3. PICK h : AddsUp(h, rowOf, T) /\ MemOf(rowOf, T) = h[T]
  BY MemOfIs
<1>4. h[T] = rowOf[k].mem + h[S]
  BY <1>1, <1>3, SumSplits
<1> HIDE DEF S
<1>5. g[S] = h[S]
  BY <1>1, <1>2, <1>3, SumAgrees
<1>6. h[S] \in Nat /\ rowOf[k].mem \in Nat
  BY <1>1, <1>3, SumIsNat
<1>7. MemOf(rowOf, T) = MemOf(rowOf, S) + rowOf[k].mem /\ MemOf(rowOf, S) \in Nat
  BY <1>2, <1>3, <1>4, <1>5, <1>6
<1> QED
  BY <1>7 DEF S

-----------------------------------------------------------------------------
(* The summaries.                                                          *)

RowsOf(p) == {k \in DOMAIN detail : k[1] = p}

\* Builder b holds what the rows of some keys amount to.
BuiltFrom(b, rowOf, keys) ==
    /\ b.total = MemOf(rowOf, keys)
    /\ IsPeak(b.util, {rowOf[k].util : k \in keys})
    /\ IsPeak(b.ts, {rowOf[k].ts : k \in keys})
    /\ b.devSet = {k[2] % Byte : k \in keys}
    /\ b.first \in b.devSet

\* The types, and which loop may have left what.
StateTypes ==
    /\ count \in 0 .. MaxSamples
    /\ DOMAIN perDev \subseteq Keys /\ IsFiniteSet(DOMAIN perDev)
    /\ \A k \in DOMAIN perDev : perDev[k] \in Aggregates
    /\ pc # "group" => keysLeft = {}
    /\ keysLeft \subseteq DOMAIN perDev \ DOMAIN detail

\* agg has one builder for each pid with rows; summary copies the builders.
Groups ==
    /\ DOMAIN agg = {k[1] : k \in DOMAIN detail}
    /\ \A p \in DOMAIN agg : BuiltFrom(agg[p], detail, RowsOf(p))
    /\ DOMAIN summary \subseteq DOMAIN agg
    /\ \A p \in DOMAIN summary : summary[p] = Summarised(agg[p])
    /\ pc # "summary" => DOMAIN summary = {}

SumInv == FoldInv /\ StateTypes /\ Groups

LEMMA SumInvInit == Init => SumInv
<1> SUFFICES ASSUME Init PROVE SumInv
  OBVIOUS
<1>1. 0 \in 0 .. MaxSamples
  BY SampleFoldAssumption
<1>2. DOMAIN perDev = {} /\ DOMAIN agg = {} /\ DOMAIN detail = {} /\ DOMAIN summary = {} /\ keysLeft = {}
  BY DEF Init, Nothing
<1> QED
  BY <1>1, <1>2, FoldInvInit, FS_EmptySet DEF Init, SumInv, StateTypes, Groups

LEMMA FoldedType ==
  ASSUME StateTypes, NEW s \in Samples
  PROVE  Folded(s) \in Aggregates
<1> DEFINE k == <<s.pid, s.dev>>
<1>1. s.ts \in Stamps /\ s.mem \in Values /\ s.util \in Values
  BY DEF Samples
<1>2. Stamps \in SUBSET Nat /\ Values \in SUBSET Nat
  BY SampleFoldAssumption
<1>3. \A a, b : Higher(a, b) \in {a, b}
  BY DEF Higher
<1>4. CASE k \in DOMAIN perDev
  <2>1. perDev[k] \in Aggregates
    BY <1>4 DEF StateTypes
  <2>2. Folded(s) = [ts   |-> Higher(perDev[k].ts, s.ts), mem |-> Higher(perDev[k].mem, s.mem),
                     util |-> Higher(perDev[k].util, s.util)]
    BY <1>4 DEF Folded
  <2> QED
    BY <1>1, <1>3, <2>1, <2>2 DEF Aggregates
<1>5. CASE k \notin DOMAIN perDev
  <2>1. Folded(s) = [ts |-> Higher(s.ts, s.ts), mem |-> Higher(s.mem, s.mem), util |-> Higher(0, s.util)]
    BY <1>5 DEF Folded
  <2> QED
    BY <1>1, <1>3, <2>1 DEF Aggregates
<1> QED
  BY <1>4, <1>5

LEMMA StateTypesStep ==
  ASSUME SumInv, [Next]_vars
  PROVE  StateTypes'
<1>0. StateTypes /\ FoldInv
  BY DEF SumInv
<1>1. ASSUME NEW s \in Samples, Fold(s) PROVE StateTypes'
  <2> DEFINE k == <<s.pid, s.dev>>
  <2>1. /\ pc = "fold" /\ pc' = pc /\ count' \in 0 .. MaxSamples
        /\ keysLeft' = keysLeft /\ keysLeft = {}
    BY <1>0, <1>1, SampleFoldAssumption DEF Fold, StateTypes
  <2>2. CASE Skipped(s)
    BY <1>0, <1>1, <2>1, <2>2 DEF Fold, StateTypes
  <2>3. CASE ~Skipped(s)
    <3>1. k \in Keys
      BY <2>3 DEF Keys, Skipped, Samples
    <3>2. perDev' = With(perDev, k, Folded(s))
      BY <1>1, <2>3 DEF Fold
    <3>3. DOMAIN perDev' = DOMAIN perDev \cup {k} /\ \A j \in DOMAIN perDev' : perDev'[j] \in Aggregates
      BY <1>0, <3>2, FoldedType DEF With, StateTypes
    <3>4. IsFiniteSet(DOMAIN perDev')
      BY <1>0, <3>3, FS_AddElement DEF StateTypes
    <3> QED
      BY <1>0, <2>1, <3>1, <3>3, <3>4 DEF StateTypes
  <2> QED
    BY <2>2, <2>3
<1>2. CASE FoldEnds
  BY <1>0, <1>2 DEF FoldEnds, StateTypes, FoldInv
<1>3. ASSUME NEW k \in keysLeft, Group(k) PROVE StateTypes'
  BY <1>0, <1>3 DEF Group, With, StateTypes
<1>4. CASE GroupEnds
  BY <1>0, <1>4 DEF GroupEnds, StateTypes
<1>5. ASSUME NEW p \in DOMAIN agg, Summarise(p) PROVE StateTypes'
  BY <1>0, <1>5 DEF Summarise, StateTypes
<1>6. CASE NextRound
  <2>1. count' \in 0 .. MaxSamples
    BY <1>6, SampleFoldAssumption DEF NextRound
  <2>2. DOMAIN perDev' = {} /\ DOMAIN detail' = {} /\ keysLeft' = {}
    BY <1>0, <1>6 DEF NextRound, Nothing, StateTypes
  <2> QED
    BY <2>1, <2>2, FS_EmptySet DEF StateTypes
<1>7. CASE UNCHANGED vars
  BY <1>0, <1>7 DEF vars, StateTypes
<1> QED
  BY <1>1, <1>2, <1>3, <1>4, <1>5, <1>6, <1>7 DEF Next

LEMMA RowNumbers ==
  ASSUME StateTypes, NEW k \in DOMAIN perDev
  PROVE  perDev[k].ts \in Nat /\ perDev[k].mem \in Nat /\ perDev[k].util \in Nat
<1>1. PICK a \in Aggregates : a = perDev[k]
  BY DEF StateTypes
<1>2. Stamps \subseteq Nat /\ Values \cup {0} \subseteq Nat
  BY SampleFoldAssumption
<1>3. Aggregates \subseteq [ts : Nat, mem : Nat, util : Nat]
  BY <1>2 DEF Aggregates
<1>4. a \in [ts : Nat, mem : Nat, util : Nat]
  BY <1>3, Zenon
<1>5. a.ts \in Nat /\ a.mem \in Nat /\ a.util \in Nat
  BY <1>4
<1> QED
  BY <1>1, <1>5, Zenon

\* What was built of the rows of p, with one more of them added.
LEMMA BuilderGrows ==
  ASSUME SumInv, NEW k \in keysLeft, NEW d,
         d = With(detail, k, perDev[k]), NEW p, p = k[1],
         NEW rows, rows = RowsOf(p)
  PROVE  BuiltFrom(Grouped(k), d, rows \cup {k})
<1> DEFINE all == rows \cup {k}
           a == perDev[k]
           b == Grouped(k)
<1>0. StateTypes /\ FoldInv /\ Groups
  BY DEF SumInv
<1>1. k \in DOMAIN perDev /\ k \notin DOMAIN detail
  BY <1>0 DEF StateTypes
<1>2. rows \subseteq DOMAIN detail /\ k \notin rows /\ rows \subseteq DOMAIN perDev
  BY <1>0, <1>1 DEF RowsOf, FoldInv
<1>3. IsFiniteSet(rows)
  BY <1>0, <1>2, FS_Subset DEF StateTypes
<1>4. d[k] = a /\ \A j \in rows : d[j] = detail[j] /\ detail[j] = perDev[j]
  BY <1>0, <1>1, <1>2 DEF With, FoldInv
<1>5. \A j \in all : d[j].mem \in Nat /\ d[j].util \in Nat /\ d[j].ts \in Nat
  BY <1>0, <1>1, <1>2, <1>4, RowNumbers
<1>6. MemOf(d, all) = MemOf(detail, rows) + a.mem /\ MemOf(detail, rows) \in Nat
  <2>1. IsFiniteSet(all) /\ k \in all /\ all \ {k} = rows
    BY <1>2, <1>3, FS_AddElement
  <2>2. MemOf(detail, rows) = MemOf(d, rows)
    <3>1. \A j \in rows : detail[j].mem = d[j].mem
      BY <1>4
    <3> QED
      BY <1>3, <3>1, MemOfSame
  <2> HIDE DEF all
  <2>3. MemOf(d, all) = MemOf(d, all \ {k}) + d[k].mem /\ MemOf(d, all \ {k}) \in Nat
    BY <1>5, <2>1, MemOfOneMore
  <2> QED
    BY <1>4, <2>1, <2>2, <2>3
<1> DEFINE U == {detail[j].util : j \in rows}
           T == {detail[j].ts : j \in rows}
           D == {j[2] % Byte : j \in rows}
<1>7. /\ {d[j].util : j \in all} = U \cup {a.util} /\ U \in SUBSET Nat
      /\ {d[j].ts : j \in all} = T \cup {a.ts} /\ T \in SUBSET Nat
      /\ {j[2] % Byte : j \in all} = D \cup {k[2] % Byte}
      /\ a.util \in Nat /\ a.ts \in Nat /\ a.mem \in Nat
  BY <1>4, <1>5
<1>8. CASE p \in DOMAIN agg
  <2>1. /\ agg[p].total = MemOf(detail, rows)
        /\ IsPeak(agg[p].util, U) /\ IsPeak(agg[p].ts, T)
        /\ agg[p].devSet = D /\ agg[p].first \in D
    BY <1>0, <1>8 DEF Groups, BuiltFrom
  <2>2. /\ b.total = agg[p].total + a.mem
        /\ b.util = Higher(agg[p].util, a.util) /\ b.ts = Higher(agg[p].ts, a.ts)
        /\ b.devSet = agg[p].devSet \cup {k[2] % Byte} /\ b.first = agg[p].first
    BY <1>8 DEF Grouped
  <2> HIDE DEF U, T, D, a, b, all
  <2>3. IsPeak(b.util, U \cup {a.util}) /\ IsPeak(b.ts, T \cup {a.ts})
    BY <1>7, <2>1, <2>2, HigherIsPeak
  <2>4. /\ b.total = MemOf(d, all)
        /\ b.devSet = D \cup {k[2] % Byte} /\ b.first \in b.devSet
    BY <1>6, <2>1, <2>2
  <2>5. BuiltFrom(b, d, all)
    BY <1>7, <2>3, <2>4 DEF BuiltFrom
  <2> QED
    BY <2>5 DEF all, b
<1>9. CASE p \notin DOMAIN agg
  <2>1. rows = {}
    BY <1>0, <1>9 DEF Groups, RowsOf
  <2>2. /\ b.total = 0 + a.mem
        /\ b.util = Higher(0, a.util) /\ b.ts = Higher(a.ts, a.ts)
        /\ b.devSet = {} \cup {k[2] % Byte} /\ b.first = k[2] % Byte
    BY <1>9 DEF Grouped
  <2>3. MemOf(d, all) = a.mem
    BY <1>6, <1>7, <2>1, MemOfNone
  <2>4. U = {} /\ T = {} /\ D = {}
    BY <2>1
  <2> HIDE DEF U, T, D, a, b, all
  <2>5. IsPeak(b.util, {a.util}) /\ IsPeak(b.ts, {a.ts}) /\ b.total = MemOf(d, all)
    BY <1>7, <2>2, <2>3 DEF IsPeak, Higher
  <2>6. BuiltFrom(b, d, all)
    BY <1>7, <2>2, <2>4, <2>5 DEF BuiltFrom
  <2> QED
    BY <2>6 DEF all, b
<1> QED
  BY <1>8, <1>9

LEMMA GroupKeepsGroups ==
  ASSUME SumInv, NEW k \in keysLeft, Group(k)
  PROVE  Groups'
<1> DEFINE p == k[1]
<1>0. StateTypes /\ FoldInv /\ Groups
  BY DEF SumInv
<1>1. /\ pc = "group" /\ pc' = pc /\ summary' = summary /\ DOMAIN summary = {}
      /\ detail' = With(detail, k, perDev[k]) /\ agg' = With(agg, p, Grouped(k))
  BY <1>0 DEF Group, Groups
<1>2. /\ DOMAIN detail' = DOMAIN detail \cup {k} /\ DOMAIN agg' = DOMAIN agg \cup {p}
      /\ agg'[p] = Grouped(k)
      /\ \A q \in DOMAIN agg \ {p} : agg'[q] = agg[q]
      /\ \A j \in DOMAIN detail \ {k} : detail'[j] = detail[j]
  BY <1>1 DEF With
<1>3. DOMAIN agg' = {j[1] : j \in DOMAIN detail'}
  BY <1>0, <1>2 DEF Groups
<1>4. BuiltFrom(agg[p], detail, RowsOf(p))'
  <2>1. PICK rows : rows = RowsOf(p)
    OBVIOUS
  <2>2. RowsOf(p)' = rows \cup {k}
    BY <1>2, <2>1 DEF RowsOf
  <2>3. PICK d : d = detail'
    OBVIOUS
  <2>4. BuiltFrom(Grouped(k), d, rows \cup {k})
    BY <1>1, <2>1, <2>3, BuilderGrows
  <2> QED
    BY <1>2, <2>2, <2>3, <2>4 DEF BuiltFrom
<1>5. ASSUME NEW q \in DOMAIN agg \ {p} PROVE BuiltFrom(agg[q], detail, RowsOf(q))'
  <2>1. PICK rows : rows = RowsOf(q)
    OBVIOUS
  <2>2. RowsOf(q)' = rows /\ rows \subseteq DOMAIN detail \ {k} /\ rows \subseteq DOMAIN perDev
    BY <1>0, <1>2, <2>1 DEF RowsOf, FoldInv
  <2>3. \A j \in rows : detail'[j] = detail[j]
    BY <1>2, <2>2
  <2>4. IsFiniteSet(rows)
    BY <1>0, <2>2, FS_Subset DEF StateTypes
  <2>5. MemOf(detail', rows) = MemOf(detail, rows)
    BY <2>3, <2>4, MemOfSame
  <2>6. /\ {detail'[j].util : j \in rows} = {detail[j].util : j \in rows}
        /\ {detail'[j].ts : j \in rows} = {detail[j].ts : j \in rows}
    BY <2>3
  <2>7. BuiltFrom(agg[q], detail, rows)
    BY <1>0, <2>1 DEF Groups
  <2> QED
    BY <1>2, <2>2, <2>5, <2>6, <2>7 DEF BuiltFrom
<1>6. \A q \in DOMAIN agg' : BuiltFrom(agg[q], detail, RowsOf(q))'
  BY <1>2, <1>4, <1>5
<1> QED
  BY <1>1, <1>3, <1>6 DEF Groups

LEMMA SumInvStep == SumInv /\ [Next]_vars => SumInv'
<1> SUFFICES ASSUME SumInv, [Next]_vars PROVE SumInv'
  OBVIOUS
<1>0. StateTypes /\ FoldInv /\ Groups /\ StateTypes' /\ FoldInv'
  BY StateTypesStep, FoldInvStep DEF SumInv
<1>1. ASSUME UNCHANGED <<detail, agg, summary>>, pc' = "summary" \/ pc # "summary"
      PROVE  Groups'
  BY <1>0, <1>1 DEF Groups, RowsOf
<1>2. ASSUME NEW k \in keysLeft, Group(k) PROVE Groups'
  BY <1>2, GroupKeepsGroups
<1>3. ASSUME NEW p \in DOMAIN agg, Summarise(p) PROVE Groups'
  <2>1. /\ pc = "summary" /\ UNCHANGED <<pc, agg, detail>>
        /\ summary' = With(summary, p, Summarised(agg[p]))
    BY <1>3 DEF Summarise
  <2>2. DOMAIN summary' \subseteq DOMAIN agg /\ \A q \in DOMAIN summary' : summary'[q] = Summarised(agg[q])
    BY <1>0, <2>1 DEF Groups, With
  <2>3. \A q \in DOMAIN agg : Summarised(agg[q])' = Summarised(agg[q])
    BY <2>1 DEF Summarised
  <2>4. \A q \in DOMAIN agg : BuiltFrom(agg[q], detail, RowsOf(q))'
    BY <1>0, <2>1 DEF Groups, RowsOf
  <2> QED
    BY <1>0, <2>1, <2>2, <2>3, <2>4 DEF Groups
<1>4. Groups'
  <2>1. ASSUME NEW s \in Samples, Fold(s) PROVE Groups'
    BY <1>1, <2>1 DEF Fold
  <2>2. CASE FoldEnds
    BY <1>1, <2>2 DEF FoldEnds
  <2>3. CASE GroupEnds
    BY <1>1, <2>3 DEF GroupEnds
  <2>4. CASE UNCHANGED vars
    BY <1>1, <2>4 DEF vars
  <2>5. CASE NextRound
    <3>1. DOMAIN agg' = {} /\ DOMAIN detail' = {} /\ DOMAIN summary' = {}
      BY <2>5 DEF NextRound, Nothing
    <3> QED
      BY <3>1 DEF Groups
  <2> QED
    BY <1>2, <1>3, <2>1, <2>2, <2>3, <2>4, <2>5 DEF Next
<1> QED
  BY <1>0, <1>4 DEF SumInv

LEMMA SumInvHolds == Spec => []SumInv
  BY SumInvInit, SumInvStep, PTL DEF Spec

(***************************************************************************)
(* The uint8 conversions.                                                  *)
(***************************************************************************)
LEMMA ModSmall == \A a, b \in Nat : a < b => a % b = a
  OBVIOUS

\* Distinct devices stay distinct, and their number stays what it is.
LEMMA DevicesCounted ==
  ASSUME Devs \subseteq 0 .. Byte - 2, NEW rows, IsFiniteSet(rows), rows \subseteq Keys,
         NEW p, \A k \in rows : k[1] = p, rows # {}
  PROVE  /\ {k[2] % Byte : k \in rows} = {k[2] : k \in rows}
         /\ Cardinality({k[2] : k \in rows}) = Cardinality(rows)
         /\ Cardinality(rows) \in 1 .. Byte - 1
<1> DEFINE D == {k[2] : k \in rows}
           f == [k \in rows |-> k[2]]
<1>0. Byte \in Nat /\ Byte > 0
  BY SampleFoldAssumption
<1>1. ASSUME NEW k \in rows PROVE k[2] \in 0 .. Byte - 2 /\ k = <<p, k[2]>>
  <2>1. k \in (Pids \ {0}) \X Devs
    BY DEF Keys
  <2>2. k[2] \in Devs /\ k = <<k[1], k[2]>> /\ k[1] = p
    BY <2>1
  <2> QED
    BY <2>2
<1>2. \A k \in rows : k[2] % Byte = k[2]
  BY <1>0, <1>1, ModSmall
<1>3. {k[2] % Byte : k \in rows} = D
  BY <1>2
<1>4. f \in Bijection(rows, D)
  <2>1. f \in Injection(rows, D)
    BY <1>1 DEF Injection, IsInjective
  <2>2. f \in Surjection(rows, D)
    BY DEF Surjection
  <2> QED
    BY <2>1, <2>2 DEF Bijection
<1>5. Cardinality(D) = Cardinality(rows)
  <2>1. ExistsBijection(rows, D)
    BY <1>4 DEF ExistsBijection
  <2> HIDE DEF D, f
  <2> QED
    BY <2>1, FS_Bijection
<1>6. D \in SUBSET (0 .. Byte - 2)
  BY <1>1
<1>7. IsFiniteSet(0 .. Byte - 2) /\ Cardinality(0 .. Byte - 2) <= Byte - 1
  <2>1. 0 \in Int /\ Byte - 2 \in Int
    BY <1>0
  <2>2. /\ IsFiniteSet(0 .. Byte - 2)
        /\ Cardinality(0 .. Byte - 2) = IF 0 > Byte - 2 THEN 0 ELSE Byte - 2 - 0 + 1
    BY <2>1, FS_Interval
  <2> QED
    BY <1>0, <2>2
<1>8. Cardinality(D) <= Cardinality(0 .. Byte - 2)
  BY <1>6, <1>7, FS_Subset
<1>9. Cardinality(rows) \in Nat /\ Cardinality(rows) # 0 /\ Cardinality(0 .. Byte - 2) \in Nat
  BY <1>7, FS_CardinalityType, FS_EmptySet
<1>10. Cardinality(rows) \in 1 .. Byte - 1
  BY <1>0, <1>5, <1>7, <1>8, <1>9
<1> QED
  BY <1>3, <1>5, <1>10

LEMMA SumInvSummarises ==
  ASSUME Devs \subseteq 0 .. Byte - 2
  PROVE  SumInv => SummaryOfDetail
<1> SUFFICES ASSUME SumInv, NEW p \in DOMAIN summary
             PROVE  LET rows == {k \in DOMAIN detail : k[1] = p}
                        row  == summary[p]
                    IN  /\ row.total = MemOf(detail, rows)
                        /\ IsPeak(row.util, {detail[k].util : k \in rows})
                        /\ IsPeak(row.ts, {detail[k].ts : k \in rows})
                        /\ row.devCount = Cardinality(rows)
                        /\ IF \E d \in Devs : rows = {<<p, d>>}
                             THEN <<p, row.primary>> \in rows
                             ELSE row.primary = Multi
  BY DEF SummaryOfDetail
<1> DEFINE rows == RowsOf(p)
           b == agg[p]
           row == summary[p]
<1>0. StateTypes /\ FoldInv /\ Groups
  BY DEF SumInv
<1>1. p \in DOMAIN agg /\ row = Summarised(b) /\ BuiltFrom(b, detail, rows)
  BY <1>0 DEF Groups
<1>2. rows # {}
  BY <1>0, <1>1 DEF Groups, RowsOf
<1>3. rows \subseteq DOMAIN perDev /\ rows \subseteq Keys /\ \A k \in rows : k[1] = p
  BY <1>0 DEF FoldInv, StateTypes, RowsOf
<1>4. IsFiniteSet(rows)
  BY <1>0, <1>3, FS_Subset DEF StateTypes
<1> HIDE DEF rows, b
<1>5. /\ b.devSet = {k[2] : k \in rows} /\ b.first \in b.devSet
      /\ Cardinality(b.devSet) = Cardinality(rows)
      /\ Cardinality(rows) \in 1 .. Byte - 1
  BY <1>1, <1>2, <1>3, <1>4, DevicesCounted DEF BuiltFrom
<1>6. Byte \in Nat /\ Cardinality(rows) % Byte = Cardinality(rows) /\ Cardinality(rows) # 0
  BY <1>5, ModSmall, SampleFoldAssumption
<1>7. /\ row.total = b.total /\ row.util = b.util /\ row.ts = b.ts
      /\ row.devCount = Cardinality(rows)
      /\ row.primary = IF Cardinality(rows) > 1 THEN Multi ELSE b.first
  BY <1>1, <1>5, <1>6 DEF Summarised
<1>8. IF \E d \in Devs : rows = {<<p, d>>} THEN <<p, row.primary>> \in rows ELSE row.primary = Multi
  <2>1. CASE \E d \in Devs : rows = {<<p, d>>}
    <3>1. PICK d \in Devs : rows = {<<p, d>>}
      BY <2>1
    <3>2. Cardinality(rows) = 1
      BY <3>1, FS_Singleton
    <3>3. row.primary = b.first /\ b.first = d
      BY <1>5, <1>7, <3>1, <3>2
    <3> QED
      BY <2>1, <3>1, <3>3
  <2>2. CASE ~\E d \in Devs : rows = {<<p, d>>}
    <3>1. ASSUME NEW k, rows = {k} PROVE FALSE
      <4>1. k = <<p, k[2]>> /\ k[2] \in Devs
        BY <1>3, <3>1 DEF Keys
      <4> QED
        BY <2>2, <3>1, <4>1
    <3>2. Cardinality(rows) # 1
      BY <1>4, <3>1, FS_Singleton
    <3>3. Cardinality(rows) > 1
      BY <1>5, <3>2
    <3> QED
      BY <1>7, <2>2, <3>3
  <2> QED
    BY <2>1, <2>2
<1>9. /\ row.total = MemOf(detail, rows)
      /\ IsPeak(row.util, {detail[k].util : k \in rows})
      /\ IsPeak(row.ts, {detail[k].ts : k \in rows})
  BY <1>1, <1>7 DEF BuiltFrom
<1> QED
  BY <1>7, <1>8, <1>9 DEF rows, RowsOf

(***************************************************************************)
(* The types of a round's maps hold throughout, for any number of samples  *)
(* (poller.go:130-276).                                                    *)
(***************************************************************************)
THEOREM TypeCorrect == Spec => []TypeOK
<1>1. SumInv => TypeOK
  BY DEF SumInv, FoldInv, StateTypes, Groups, TypeOK
<1> QED
  BY <1>1, SumInvHolds, PTL

(***************************************************************************)
(* Each summary is what gpu_types.h:120 says of the detailed rows, in      *)
(* whatever order the Go maps are visited (poller.go:212-268): memory      *)
(* summed over the devices, utilization at its highest, the devices        *)
(* counted, the single device or the multi-device mark.  The device        *)
(* indices are those below the mark 0xFF, so that their uint8 conversions  *)
(* are exact; GPU_MAX_DEVICES is 16 (gpu_types.h:38).                      *)
(***************************************************************************)
THEOREM SummariesAddUp == ASSUME Devs \subseteq 0 .. Byte - 2 PROVE Spec => []SummaryOfDetail
<1>1. SumInv => SummaryOfDetail
  BY SumInvSummarises
<1> QED
  BY <1>1, SumInvHolds, PTL
=============================================================================
