--------------------------- MODULE LifecycleProofs ---------------------------
(***************************************************************************)
(* TLAPS proofs about Lifecycle: for any number of bridge processes, as    *)
(* long as those that live together keep their pins.                       *)
(***************************************************************************)
EXTENDS Lifecycle, FiniteSetTheorems, TLAPS

-----------------------------------------------------------------------------
(* The inductive invariant.                                                *)

\* Bridges that live together keep their pins; the others live alone.
Careful == \A o \in Policies : o.together => \A f \in o.flags : f[2]

Company == \A p \in Procs : Alive(p) =>
               IF policy.together THEN proc[p].keep
               ELSE \A q \in Procs \ {p} : ~Alive(q)

\* What Real's flag and NVML's count say of each other at every place in run.
Loaded(s) ==
    /\ s.ready => s.loads > 0
    /\ s.pc = "choose" => s.loads = 0 /\ ~s.closed /\ s.source = "none"
    /\ s.pc \in {"open", "pin", "init"} => s.loads <= 1
    /\ s.pc \in {"open", "pin", "init", "run"} /\ s.source = "real" => s.ready /\ ~s.closed

\* The maps a process has opened so far are the pinned ones, m.
Owns(s, m) ==
    /\ s.pc \in {"open", "pin"} =>
         \A i \in 1 .. 4 : i < s.step => s.fds[OpenOrder[i]] = m[OpenOrder[i]] /\ m[OpenOrder[i]] # 0
    /\ s.pc = "pin" => s.fds[OpenOrder[s.step]] # 0
    /\ s.pc \in {"init", "run"} => \A n \in Names : s.fds[n] = m[n] /\ m[n] # 0

\* The entries a process has removed so far are gone from m, or it will report the
\* failure.
Removed(s, m) ==
    /\ s.pc = "unpin" => ~s.keep
    /\ s.pc = "unpin" /\ ~s.unpinErr => \A i \in 1 .. 4 : i < s.step => m[UnpinOrder[i]] = 0
    /\ s.pc = "exited" /\ ~s.keep /\ ~s.unpinErr => \A n \in Names : m[n] = 0
    /\ s.pc \in {"choose", "init", "run", "close"} => s.step = 1

\* What a consumer attached to stays pinned until an entry is removed.
Attached == consumer # NoMaps /\ ~unpinned => consumer = pinned /\ \A n \in Names : pinned[n] # 0

SafeInv == /\ TypeOK
           /\ Company
           /\ \A p \in Procs : Loaded(proc[p])
           /\ \A p \in Procs : Owns(proc[p], pinned)
           /\ \A p \in Procs : Removed(proc[p], pinned)
           /\ Attached

-----------------------------------------------------------------------------
(* The names and the maps.                                                 *)

LEMMA Orders ==
  /\ \A i \in 1 .. 4 : OpenOrder[i] \in Names /\ UnpinOrder[i] \in Names
  /\ \A n \in Names : \E i \in 1 .. 4 : n = OpenOrder[i]
  /\ \A n \in Names : \E i \in 1 .. 4 : n = UnpinOrder[i]
  /\ \A i, j \in 1 .. 4 : OpenOrder[i] = OpenOrder[j] => i = j
<1>1. /\ OpenOrder[1] = "gpu_device" /\ OpenOrder[2] = "gpu_meta"
      /\ OpenOrder[3] = "gpu_per_pid" /\ OpenOrder[4] = "gpu_per_pid_per_device"
      /\ UnpinOrder[1] = "gpu_meta" /\ UnpinOrder[2] = "gpu_device"
      /\ UnpinOrder[3] = "gpu_per_pid" /\ UnpinOrder[4] = "gpu_per_pid_per_device"
      /\ Len(OpenOrder) = 4
  BY DEF OpenOrder, UnpinOrder
<1>2. \A i \in 1 .. 4 : i = 1 \/ i = 2 \/ i = 3 \/ i = 4
  OBVIOUS
<1>3. Names = {OpenOrder[i] : i \in 1 .. 4}
  BY <1>1 DEF Names
<1>4. 1 \in 1 .. 4 /\ 2 \in 1 .. 4 /\ 3 \in 1 .. 4 /\ 4 \in 1 .. 4
  OBVIOUS
<1>5. \A i, j \in 1 .. 4 : OpenOrder[i] = OpenOrder[j] => i = j
  <2> SUFFICES ASSUME NEW i \in 1 .. 4, NEW j \in 1 .. 4, OpenOrder[i] = OpenOrder[j]
               PROVE  i = j
    OBVIOUS
  <2> QED
    BY <1>1, <1>2
<1>6. \A i \in 1 .. 4 : \E j \in 1 .. 4 : UnpinOrder[i] = OpenOrder[j]
  BY <1>1, <1>2, <1>4
<1>7. \A i \in 1 .. 4 : \E j \in 1 .. 4 : OpenOrder[i] = UnpinOrder[j]
  BY <1>1, <1>2, <1>4
<1>8. \A i \in 1 .. 4 : OpenOrder[i] \in Names /\ UnpinOrder[i] \in Names
  BY <1>3, <1>6
<1>9. \A n \in Names : \E i \in 1 .. 4 : n = OpenOrder[i]
  BY <1>3
<1>10. \A n \in Names : \E i \in 1 .. 4 : n = UnpinOrder[i]
  BY <1>7, <1>9
<1> QED
  BY <1>5, <1>8, <1>9, <1>10

\* There is always a map not used yet, and it is not the absence of a map.
LEMMA FreshMap ==
  ASSUME TypeOK, NEW s \in ProcType
  PROVE  NewMap(s) \in MapIds /\ NewMap(s) # 0
<1> DEFINE n == Name(s)
           held == {proc[q].fds[n] : q \in Procs}
           taken == held \cup {consumer[n], pinned[n], 0}
           N == Cardinality(Procs)
<1>1. IsFiniteSet(Procs) /\ N \in Nat
  BY LifecycleAssumption, FS_CardinalityType
<1>2. IsFiniteSet(held) /\ Cardinality(held) <= N
  <2>1. [q \in Procs |-> proc[q].fds[n]] \in Surjection(Procs, held)
    BY DEF Surjection
  <2> QED
    BY <1>1, <2>1, FS_Surjection
<1>3. IsFiniteSet(taken) /\ Cardinality(taken) <= N + 3
  <2> DEFINE a == held \cup {consumer[n]}
             b == a \cup {pinned[n]}
             c == b \cup {0}
  <2>1. Cardinality(held) \in Nat
    BY <1>2, FS_CardinalityType
  <2> HIDE DEF held, N
  <2>2. IsFiniteSet(a) /\ Cardinality(a) \in Nat /\ Cardinality(a) <= N + 1
    <3>1. /\ IsFiniteSet(a)
          /\ Cardinality(a) = IF consumer[n] \in held THEN Cardinality(held) ELSE Cardinality(held) + 1
      BY <1>2, FS_AddElement
    <3> QED
      BY <1>1, <1>2, <2>1, <3>1
  <2>3. IsFiniteSet(b) /\ Cardinality(b) \in Nat /\ Cardinality(b) <= N + 2
    <3> HIDE DEF a
    <3>1. /\ IsFiniteSet(b)
          /\ Cardinality(b) = IF pinned[n] \in a THEN Cardinality(a) ELSE Cardinality(a) + 1
      BY <2>2, FS_AddElement
    <3> QED
      BY <1>1, <2>2, <3>1
  <2>4. IsFiniteSet(c) /\ Cardinality(c) <= N + 3
    <3> HIDE DEF b
    <3>1. /\ IsFiniteSet(c)
          /\ Cardinality(c) = IF 0 \in b THEN Cardinality(b) ELSE Cardinality(b) + 1
      BY <2>3, FS_AddElement
    <3> QED
      BY <1>1, <2>3, <3>1
  <2>5. taken = c
    OBVIOUS
  <2> QED
    BY <2>4, <2>5
<1>4. IsFiniteSet(MapIds) /\ Cardinality(MapIds) = N + 4
  BY <1>1, FS_Interval DEF MapIds
<1>5. \E m \in MapIds : m \notin taken
  <2> SUFFICES ASSUME MapIds \subseteq taken PROVE FALSE
    OBVIOUS
  <2>1. Cardinality(MapIds) <= Cardinality(taken)
    BY <1>3, FS_Subset
  <2>2. Cardinality(taken) \in Nat
    BY <1>3, FS_CardinalityType
  <2> HIDE DEF taken
  <2> QED
    BY <1>1, <1>3, <1>4, <2>1, <2>2
<1>6. NewMap(s) = CHOOSE m \in MapIds : m \notin taken
  BY DEF NewMap
<1>7. NewMap(s) \in MapIds /\ NewMap(s) \notin taken
  BY <1>5, <1>6
<1> QED
  BY <1>7

-----------------------------------------------------------------------------
(* The invariant is inductive.                                             *)

LEMMA DownType == Down \in ProcType
<1>1. 0 \in MapIds /\ NoMaps \in [Names -> MapIds]
  BY LifecycleAssumption, FS_CardinalityType DEF MapIds, NoMaps
<1>2. 1 \in 1 .. 4 /\ 0 \in 0 .. 2
  OBVIOUS
<1> QED
  BY <1>1, <1>2 DEF Down, ProcType

LEMMA InvInit == Init => SafeInv
<1> SUFFICES ASSUME Init PROVE SafeInv
  OBVIOUS
<1>1. NoMaps \in [Names -> MapIds]
  BY LifecycleAssumption, FS_CardinalityType DEF MapIds, NoMaps
<1>2. \A p \in Procs : proc[p] = Down
  BY DEF Init
<1>3. TypeOK
  BY <1>1, <1>2, DownType DEF Init, TypeOK
<1>4. Company
  BY <1>2 DEF Company, Alive, Down
<1>5. Loaded(Down) /\ Owns(Down, pinned) /\ Removed(Down, pinned)
  BY DEF Loaded, Owns, Removed, Down
<1>6. Attached
  BY DEF Init, Attached
<1> QED
  BY <1>2, <1>3, <1>4, <1>5, <1>6 DEF SafeInv

(***************************************************************************)
(* A step that only changes the state of one process preserves the         *)
(* invariant if the new state is right by itself.                          *)
(***************************************************************************)
LEMMA GoesStep ==
  ASSUME SafeInv, NEW p \in Procs, NEW s \in ProcType, Goes(p, s),
         Loaded(s), Owns(s, pinned), Removed(s, pinned),
         s.pc # "down" => IF policy.together THEN s.keep ELSE \A q \in Procs \ {p} : ~Alive(q)
  PROVE  SafeInv'
<1>1. UNCHANGED <<policy, pinned, consumer, unpinned>>
  BY DEF Goes
<1>2. \A q \in Procs : proc'[q] = IF q = p THEN s ELSE proc[q]
  BY DEF Goes, SafeInv, TypeOK
<1>3. TypeOK'
  <2>1. proc' \in [Procs -> ProcType]
    BY DEF Goes, SafeInv, TypeOK
  <2> QED
    BY <1>1, <2>1 DEF SafeInv, TypeOK
<1>4. Company'
  BY <1>1, <1>2 DEF SafeInv, Company, Alive
<1>5. \A q \in Procs : Loaded(proc'[q])
  BY <1>2 DEF SafeInv
<1>6. \A q \in Procs : Owns(proc'[q], pinned')
  BY <1>1, <1>2 DEF SafeInv
<1>7. \A q \in Procs : Removed(proc'[q], pinned')
  BY <1>1, <1>2 DEF SafeInv
<1>8. Attached'
  BY <1>1 DEF SafeInv, Attached
<1> QED
  BY <1>3, <1>4, <1>5, <1>6, <1>7, <1>8 DEF SafeInv

\* What the invariant says of one process, for the steps of that process.
LEMMA OfProcess ==
  ASSUME SafeInv, NEW p \in Procs
  PROVE  /\ proc[p] \in ProcType /\ Loaded(proc[p]) /\ Owns(proc[p], pinned) /\ Removed(proc[p], pinned)
         /\ Alive(p) => IF policy.together THEN proc[p].keep ELSE \A q \in Procs \ {p} : ~Alive(q)
  BY DEF SafeInv, TypeOK, Company

LEMMA StartStep == ASSUME Careful, SafeInv, NEW p \in Procs, Start(p) PROVE SafeInv'
<1>1. PICK f \in policy.flags : Goes(p, [Down EXCEPT !.pc = "choose", !.mode = f[1], !.keep = f[2]])
  BY DEF Start
<1> DEFINE s == [Down EXCEPT !.pc = "choose", !.mode = f[1], !.keep = f[2]]
<1>2. /\ policy \in Policies /\ f \in AllFlags
      /\ policy.together => f[2]
  BY LifecycleAssumption DEF SafeInv, TypeOK, Careful
<1>3. f[1] \in {"auto", "real", "mock"} /\ f[2] \in BOOLEAN
  BY <1>2 DEF AllFlags
<1>4. /\ s.pc = "choose" /\ s.keep = f[2] /\ s.source = "none" /\ s.loads = 0
      /\ s.ready = FALSE /\ s.closed = FALSE /\ s.step = 1
  BY DEF Down
<1>5. s \in ProcType
  BY <1>3, DownType DEF ProcType
<1>6. Loaded(s) /\ Owns(s, pinned) /\ Removed(s, pinned)
  BY <1>4 DEF Loaded, Owns, Removed
<1>7. IF policy.together THEN s.keep ELSE \A q \in Procs \ {p} : ~Alive(q)
  BY <1>2, <1>4 DEF Start
<1> HIDE DEF s
<1> QED
  BY <1>1, <1>5, <1>6, <1>7, GoesStep DEF s

\* What Init and Close of the source do not touch.
Kept(s, t) == /\ t.pc = s.pc /\ t.mode = s.mode /\ t.keep = s.keep /\ t.source = s.source
              /\ t.step = s.step /\ t.fds = s.fds /\ t.unpinErr = s.unpinErr
              /\ t.ctxDone = s.ctxDone

LEMMA RealInitResults ==
  ASSUME NEW s \in ProcType, NEW r \in RealInit(s), s.loads <= 1
  PROVE  /\ r.s \in ProcType
         /\ Kept(s, r.s) /\ r.s.closed = s.closed
         /\ r.ok => r.s.loads = s.loads + 1 /\ r.s.ready
         /\ ~r.ok => r.s.loads = s.loads /\ (r.s.ready => s.ready)
<1>1. CASE r = [ok |-> TRUE, s |-> [s EXCEPT !.loads = @ + 1, !.ready = TRUE]]
  <2>1. r.ok /\ r.s = [s EXCEPT !.loads = @ + 1, !.ready = TRUE]
    BY <1>1
  <2>2. s.loads + 1 \in 0 .. 2
    BY DEF ProcType
  <2>3. r.s \in ProcType
    BY <2>1, <2>2 DEF ProcType
  <2> QED
    BY <2>1, <2>3 DEF ProcType, Kept
<1>2. CASE r = [ok |-> FALSE, s |-> s]
  BY <1>2 DEF Kept
<1>3. CASE r = [ok |-> FALSE, s |-> [s EXCEPT !.ready = FALSE]]
  <2>1. ~r.ok /\ r.s = [s EXCEPT !.ready = FALSE]
    BY <1>3
  <2>2. r.s \in ProcType
    BY <2>1 DEF ProcType
  <2> QED
    BY <2>1, <2>2 DEF ProcType, Kept
<1> QED
  BY <1>1, <1>2, <1>3 DEF RealInit

LEMMA RealCloseResult ==
  ASSUME NEW s \in ProcType, s.ready => s.loads > 0
  PROVE  /\ RealClose(s) \in ProcType
         /\ Kept(s, RealClose(s))
         /\ RealClose(s).loads <= s.loads
         /\ ~RealClose(s).ready
<1> DEFINE n == IF s.ready /\ ~s.closed THEN s.loads - 1 ELSE s.loads
           t == [s EXCEPT !.closed = TRUE, !.ready = FALSE, !.loads = n]
<1>1. n \in 0 .. 2 /\ n <= s.loads
  BY DEF ProcType
<1>2. RealClose(s) = t
  BY DEF RealClose
<1> HIDE DEF n
<1>3. t \in ProcType
  BY <1>1 DEF ProcType
<1>4. Kept(s, t) /\ t.loads = n /\ t.ready = FALSE
  BY DEF ProcType, Kept
<1> QED
  BY <1>1, <1>2, <1>3, <1>4

LEMMA CloseSourceResult ==
  ASSUME NEW s \in ProcType, s.ready => s.loads > 0
  PROVE  /\ CloseSource(s) \in ProcType
         /\ Kept(s, CloseSource(s))
         /\ CloseSource(s).ready => CloseSource(s).loads > 0
  BY RealCloseResult DEF CloseSource, Kept

\* A process that goes on with nothing opened or removed yet, or has ended.
LEMMA PlainStep ==
  ASSUME SafeInv, NEW p \in Procs, NEW t \in ProcType, NEW s \in ProcType, Goes(p, s),
         Alive(p), Kept(proc[p], t), Loaded(s), s.keep = t.keep,
         \/ s.pc \in {"failed", "down"}
         \/ s.pc \in {"open", "close"} /\ s.step = 1
  PROVE  SafeInv'
<1>1. Owns(s, pinned) /\ Removed(s, pinned)
  BY DEF Owns, Removed, ProcType
<1>2. IF policy.together THEN s.keep ELSE \A q \in Procs \ {p} : ~Alive(q)
  BY OfProcess DEF Kept
<1> QED
  BY <1>1, <1>2, GoesStep

LEMMA ChooseSourceStep == ASSUME SafeInv, NEW p \in Procs, ChooseSource(p) PROVE SafeInv'
<1> DEFINE s == proc[p]
<1>1. /\ s \in ProcType /\ s.pc = "choose" /\ s.step = 1 /\ Alive(p)
      /\ s.loads = 0 /\ ~s.closed /\ ~s.ready
  <2>1. s \in ProcType /\ Loaded(s) /\ Removed(s, pinned) /\ s.pc = "choose"
    BY OfProcess DEF ChooseSource
  <2>2. s.step = 1 /\ Alive(p)
    BY <2>1 DEF Removed, Alive
  <2>3. s.loads = 0 /\ ~s.closed
    BY <2>1 DEF Loaded
  <2>4. ~s.ready
    BY <2>1, <2>3 DEF Loaded
  <2> QED
    BY <2>1, <2>2, <2>3, <2>4
<1> HIDE DEF s
<1>2. CASE s.mode = "mock" /\ Goes(p, [s EXCEPT !.source = "mock", !.pc = "open"])
  <2> DEFINE t == [s EXCEPT !.source = "mock", !.pc = "open"]
  <2>1. t \in ProcType
    BY <1>1 DEF ProcType
  <2>2. t.pc = "open" /\ t.source = "mock" /\ t.step = 1 /\ t.keep = s.keep
        /\ t.loads = 0 /\ t.ready = s.ready
    BY <1>1 DEF ProcType
  <2>3. Loaded(t)
    BY <1>1, <2>2 DEF Loaded
  <2> HIDE DEF t
  <2> QED
    BY <1>1, <1>2, <2>1, <2>2, <2>3, PlainStep DEF Kept, s, t
<1>3. ASSUME NEW r \in RealInit(s),
             Goes(p, IF r.ok THEN [Tried(r) EXCEPT !.source = "real", !.pc = "open"]
                     ELSE IF s.mode = "real" THEN [Tried(r) EXCEPT !.pc = "failed"]
                     ELSE [Tried(r) EXCEPT !.source = "mock", !.pc = "open"])
      PROVE  SafeInv'
  <2>1. /\ r.s \in ProcType /\ Kept(s, r.s) /\ r.s.closed = s.closed
        /\ r.ok => r.s.loads = 1 /\ r.s.ready
        /\ ~r.ok => r.s.loads = 0 /\ ~r.s.ready
    BY <1>1, <1>3, RealInitResults
  <2>2. /\ Tried(r) \in ProcType /\ Kept(s, Tried(r))
        /\ r.ok => Tried(r).loads = 1 /\ Tried(r).ready /\ ~Tried(r).closed
        /\ ~r.ok => Tried(r).loads = 0 /\ ~Tried(r).ready
    <3>1. CASE r.ok
      BY <1>1, <2>1, <3>1 DEF Tried
    <3>2. CASE ~r.ok
      <4>1. /\ RealClose(r.s) \in ProcType /\ Kept(r.s, RealClose(r.s))
            /\ RealClose(r.s).loads <= 0 /\ ~RealClose(r.s).ready
        BY <2>1, <3>2, RealCloseResult
      <4>2. RealClose(r.s).loads = 0
        BY <4>1 DEF ProcType
      <4> QED
        BY <2>1, <3>2, <4>1, <4>2 DEF Tried, Kept
    <3> QED
      BY <3>1, <3>2
  <2> DEFINE w == Tried(r)
  <2> HIDE DEF w
  <2>3. CASE r.ok
    <3> DEFINE t == [w EXCEPT !.source = "real", !.pc = "open"]
    <3>1. t \in ProcType
      BY <2>2 DEF ProcType, w
    <3>2. t.pc = "open" /\ t.source = "real" /\ t.step = w.step /\ t.keep = w.keep
          /\ t.loads = w.loads /\ t.ready = w.ready /\ t.closed = w.closed
      BY <2>2 DEF ProcType, w
    <3>3. Loaded(t)
      BY <2>2, <2>3, <3>2 DEF Loaded, w
    <3>4. Goes(p, t) /\ t.step = 1 /\ Kept(s, w)
      BY <1>1, <1>3, <2>2, <2>3, <3>2 DEF Kept, w
    <3> HIDE DEF t
    <3> QED
      BY <1>1, <2>2, <3>1, <3>2, <3>3, <3>4, PlainStep DEF s, w
  <2>4. CASE ~r.ok /\ s.mode = "real"
    <3> DEFINE t == [w EXCEPT !.pc = "failed"]
    <3>1. t \in ProcType
      BY <2>2 DEF ProcType, w
    <3>2. t.pc = "failed" /\ t.keep = w.keep /\ t.ready = w.ready
      BY <2>2 DEF ProcType, w
    <3>3. Loaded(t)
      BY <2>2, <2>4, <3>2 DEF Loaded, w
    <3>4. Goes(p, t) /\ Kept(s, w)
      BY <1>3, <2>2, <2>4 DEF w
    <3> HIDE DEF t
    <3> QED
      BY <1>1, <2>2, <3>1, <3>2, <3>3, <3>4, PlainStep DEF s, w
  <2>5. CASE ~r.ok /\ s.mode # "real"
    <3> DEFINE t == [w EXCEPT !.source = "mock", !.pc = "open"]
    <3>1. t \in ProcType
      BY <2>2 DEF ProcType, w
    <3>2. t.pc = "open" /\ t.source = "mock" /\ t.step = w.step /\ t.keep = w.keep
          /\ t.loads = w.loads /\ t.ready = w.ready
      BY <2>2 DEF ProcType, w
    <3>3. Loaded(t)
      BY <2>2, <2>5, <3>2 DEF Loaded, w
    <3>4. Goes(p, t) /\ t.step = 1 /\ Kept(s, w)
      BY <1>1, <1>3, <2>2, <2>5, <3>2 DEF Kept, w
    <3> HIDE DEF t
    <3> QED
      BY <1>1, <2>2, <3>1, <3>2, <3>3, <3>4, PlainStep DEF s, w
  <2> QED
    BY <2>3, <2>4, <2>5
<1> QED
  BY <1>2, <1>3 DEF ChooseSource, s

\* Open goes on to the next map, or is done after the fourth.
LEMMA OpenedRight ==
  ASSUME NEW m, NEW t \in ProcType, t.pc \in {"open", "pin"}, Loaded(t),
         \A i \in 1 .. 4 : i <= t.step => t.fds[OpenOrder[i]] = m[OpenOrder[i]] /\ m[OpenOrder[i]] # 0
  PROVE  /\ Opened(t) \in ProcType
         /\ Loaded(Opened(t)) /\ Owns(Opened(t), m) /\ Removed(Opened(t), m)
         /\ Opened(t).keep = t.keep /\ Opened(t).pc # "down"
<1>1. CASE t.step = 4
  <2> DEFINE u == [t EXCEPT !.step = 1, !.pc = "init"]
  <2>1. Opened(t) = u
    BY <1>1 DEF Opened
  <2>2. u \in ProcType /\ u.pc = "init" /\ u.step = 1 /\ u.fds = t.fds /\ u.keep = t.keep
        /\ u.loads = t.loads /\ u.ready = t.ready /\ u.closed = t.closed /\ u.source = t.source
    <3>1. 1 \in 1 .. 4
      OBVIOUS
    <3>2. u \in ProcType
      BY <3>1 DEF ProcType
    <3> QED
      BY <3>2 DEF ProcType
  <2> HIDE DEF u
  <2>3. Loaded(u)
    BY <2>2 DEF Loaded
  <2>4. \A n \in Names : u.fds[n] = m[n] /\ m[n] # 0
    BY <1>1, <2>2, Orders
  <2>5. Owns(u, m) /\ Removed(u, m)
    BY <2>2, <2>4 DEF Owns, Removed
  <2> QED
    BY <2>1, <2>2, <2>3, <2>5
<1>2. CASE t.step # 4
  <2> DEFINE u == [t EXCEPT !.step = @ + 1, !.pc = "open"]
  <2>1. Opened(t) = u
    BY <1>2 DEF Opened
  <2>2. t.step + 1 \in 1 .. 4
    BY <1>2 DEF ProcType
  <2>3. u \in ProcType /\ u.pc = "open" /\ u.step = t.step + 1 /\ u.fds = t.fds /\ u.keep = t.keep
        /\ u.loads = t.loads /\ u.ready = t.ready /\ u.closed = t.closed /\ u.source = t.source
    BY <2>2 DEF ProcType
  <2> HIDE DEF u
  <2>4. Loaded(u)
    BY <2>3 DEF Loaded
  <2>5. \A i \in 1 .. 4 : i < u.step => i <= t.step
    BY <2>3 DEF ProcType
  <2>6. Owns(u, m) /\ Removed(u, m)
    BY <2>3, <2>5 DEF Owns, Removed
  <2> QED
    BY <2>1, <2>3, <2>4, <2>6
<1> QED
  BY <1>1, <1>2

LEMMA OpenMapStep == ASSUME SafeInv, NEW p \in Procs, OpenMap(p) PROVE SafeInv'
<1> DEFINE s == proc[p]
           n == OpenOrder[s.step]
<1>1. /\ s \in ProcType /\ s.pc = "open" /\ Alive(p) /\ Loaded(s) /\ Owns(s, pinned)
      /\ IF policy.together THEN s.keep ELSE \A q \in Procs \ {p} : ~Alive(q)
  BY OfProcess DEF OpenMap, Alive
<1>2. s.step \in 1 .. 4 /\ n \in Names
  BY <1>1, Orders DEF ProcType
<1>3. pinned \in [Names -> MapIds]
  BY DEF SafeInv, TypeOK
<1> HIDE DEF s, n
<1>4. CASE pinned[n] # 0 /\ Goes(p, Opened([s EXCEPT !.fds[n] = pinned[n]]))
  <2> DEFINE t == [s EXCEPT !.fds[n] = pinned[n]]
  <2>1. [s.fds EXCEPT ![n] = pinned[n]] \in [Names -> MapIds]
    BY <1>1, <1>2, <1>3 DEF ProcType
  <2>2. t \in ProcType /\ t.pc = "open" /\ t.step = s.step /\ t.keep = s.keep
        /\ t.fds = [s.fds EXCEPT ![n] = pinned[n]]
        /\ t.loads = s.loads /\ t.ready = s.ready /\ t.closed = s.closed /\ t.source = s.source
    BY <1>1, <2>1 DEF ProcType
  <2> HIDE DEF t
  <2>3. Loaded(t)
    BY <1>1, <2>2 DEF Loaded
  <2>4. \A k \in Names : t.fds[k] = IF k = n THEN pinned[n] ELSE s.fds[k]
    BY <1>1, <2>2 DEF ProcType
  <2>5. ASSUME NEW i \in 1 .. 4, i <= t.step
        PROVE  t.fds[OpenOrder[i]] = pinned[OpenOrder[i]] /\ pinned[OpenOrder[i]] # 0
    <3>1. CASE i = s.step
      BY <1>2, <1>4, <2>4, <3>1, Orders DEF n
    <3>2. CASE i # s.step
      <4>1. i < s.step
        BY <1>2, <2>2, <2>5, <3>2
      <4>2. s.fds[OpenOrder[i]] = pinned[OpenOrder[i]] /\ pinned[OpenOrder[i]] # 0
        BY <1>1, <4>1 DEF Owns
      <4> QED
        BY <2>4, <4>2, Orders
    <3> QED
      BY <3>1, <3>2
  <2>6. /\ Opened(t) \in ProcType
        /\ Loaded(Opened(t)) /\ Owns(Opened(t), pinned) /\ Removed(Opened(t), pinned)
        /\ Opened(t).keep = s.keep
    <3>1. \A i \in 1 .. 4 : i <= t.step =>
            t.fds[OpenOrder[i]] = pinned[OpenOrder[i]] /\ pinned[OpenOrder[i]] # 0
      BY <2>5
    <3>2. t \in ProcType /\ t.pc \in {"open", "pin"} /\ Loaded(t) /\ t.keep = s.keep
      BY <2>2, <2>3
    <3> QED
      BY <3>1, <3>2, OpenedRight
  <2> QED
    BY <1>1, <1>4, <2>6, GoesStep DEF t
<1>5. CASE pinned[n] = 0 /\ Goes(p, [s EXCEPT !.fds[n] = NewMap(s), !.pc = "pin"])
  <2> DEFINE t == [s EXCEPT !.fds[n] = NewMap(s), !.pc = "pin"]
  <2>1. NewMap(s) \in MapIds /\ NewMap(s) # 0
    BY <1>1, FreshMap DEF SafeInv
  <2>2. [s.fds EXCEPT ![n] = NewMap(s)] \in [Names -> MapIds]
    BY <1>1, <1>2, <2>1 DEF ProcType
  <2>3. t \in ProcType /\ t.pc = "pin" /\ t.step = s.step /\ t.keep = s.keep
        /\ t.fds = [s.fds EXCEPT ![n] = NewMap(s)]
        /\ t.loads = s.loads /\ t.ready = s.ready /\ t.closed = s.closed /\ t.source = s.source
    BY <1>1, <2>2 DEF ProcType
  <2> HIDE DEF t
  <2>4. Loaded(t)
    BY <1>1, <2>3 DEF Loaded
  <2>5. \A k \in Names : t.fds[k] = IF k = n THEN NewMap(s) ELSE s.fds[k]
    BY <1>1, <2>3 DEF ProcType
  <2>6. ASSUME NEW i \in 1 .. 4, i < t.step
        PROVE  t.fds[OpenOrder[i]] = pinned[OpenOrder[i]] /\ pinned[OpenOrder[i]] # 0
    <3>1. OpenOrder[i] # n /\ OpenOrder[i] \in Names
      BY <1>2, <2>3, <2>6, Orders DEF n
    <3> QED
      BY <1>1, <2>3, <2>5, <2>6, <3>1 DEF Owns
  <2>7. t.fds[OpenOrder[t.step]] # 0
    BY <1>2, <2>1, <2>3, <2>5 DEF n
  <2>8. Owns(t, pinned) /\ Removed(t, pinned)
    BY <2>3, <2>6, <2>7 DEF Owns, Removed
  <2> QED
    BY <1>1, <1>5, <2>3, <2>4, <2>8, GoesStep DEF t
<1> QED
  BY <1>4, <1>5 DEF OpenMap, Name, s, n

LEMMA PinMapStep == ASSUME SafeInv, NEW p \in Procs, PinMap(p) PROVE SafeInv'
<1> DEFINE s == proc[p]
           n == OpenOrder[s.step]
           u == Opened(s)
<1>1. /\ s \in ProcType /\ s.pc = "pin" /\ Alive(p) /\ Loaded(s) /\ Owns(s, pinned)
      /\ IF policy.together THEN s.keep ELSE \A q \in Procs \ {p} : ~Alive(q)
  BY OfProcess DEF PinMap, Alive
<1>2. s.step \in 1 .. 4 /\ n \in Names /\ s.fds[n] \in MapIds
  BY <1>1, Orders DEF ProcType
<1>3. /\ pinned[n] = 0 /\ pinned' = [pinned EXCEPT ![n] = s.fds[n]]
      /\ proc' = [proc EXCEPT ![p] = u]
      /\ UNCHANGED <<policy, consumer, unpinned>>
  BY DEF PinMap, Name
<1>4. /\ proc \in [Procs -> ProcType] /\ pinned \in [Names -> MapIds]
  BY DEF SafeInv, TypeOK
<1> HIDE DEF n
<1>5. /\ pinned' \in [Names -> MapIds]
      /\ \A k \in Names : pinned'[k] = IF k = n THEN s.fds[n] ELSE pinned[k]
  BY <1>2, <1>3, <1>4
<1>6. s.fds[n] # 0
  BY <1>1 DEF Owns, n
<1>7. \A i \in 1 .. 4 : i <= s.step =>
        s.fds[OpenOrder[i]] = pinned'[OpenOrder[i]] /\ pinned'[OpenOrder[i]] # 0
  <2> SUFFICES ASSUME NEW i \in 1 .. 4, i <= s.step
               PROVE  s.fds[OpenOrder[i]] = pinned'[OpenOrder[i]] /\ pinned'[OpenOrder[i]] # 0
    OBVIOUS
  <2>1. CASE i = s.step
    BY <1>2, <1>5, <1>6, <2>1 DEF n
  <2>2. CASE i # s.step
    <3>1. i < s.step
      BY <1>2, <2>2
    <3>2. s.fds[OpenOrder[i]] = pinned[OpenOrder[i]] /\ pinned[OpenOrder[i]] # 0
      BY <1>1, <3>1 DEF Owns
    <3> QED
      BY <1>3, <1>5, <3>2, Orders
  <2> QED
    BY <2>1, <2>2
<1>8. u \in ProcType /\ Loaded(u) /\ Owns(u, pinned') /\ Removed(u, pinned') /\ u.keep = s.keep
  BY <1>1, <1>7, OpenedRight
<1> HIDE DEF u
<1>9. proc' \in [Procs -> ProcType] /\ \A q \in Procs : proc'[q] = IF q = p THEN u ELSE proc[q]
  BY <1>3, <1>4, <1>8
<1>10. TypeOK'
  BY <1>3, <1>5, <1>9 DEF SafeInv, TypeOK
<1>11. Company'
  BY <1>1, <1>3, <1>8, <1>9 DEF SafeInv, Company, Alive
<1>12. ASSUME NEW q \in Procs \ {p}
       PROVE  Loaded(proc[q]) /\ Owns(proc[q], pinned') /\ Removed(proc[q], pinned')
  <2>1. Loaded(proc[q]) /\ Owns(proc[q], pinned) /\ Removed(proc[q], pinned) /\ proc[q] \in ProcType
    BY OfProcess
  <2>2. \A k \in Names : pinned[k] # 0 => pinned'[k] = pinned[k]
    BY <1>3, <1>5
  <2>3. Owns(proc[q], pinned')
    BY <2>1, <2>2, Orders DEF Owns
  <2>4. Alive(q) => proc[q].keep
    BY <1>1, OfProcess
  <2>5. Removed(proc[q], pinned')
    BY <2>1, <2>4 DEF Removed, Alive
  <2> QED
    BY <2>1, <2>3, <2>5
<1>13. Attached'
  BY <1>2, <1>3 DEF SafeInv, Attached
<1> QED
  BY <1>8, <1>9, <1>10, <1>11, <1>12, <1>13 DEF SafeInv

LEMMA OpenFailsStep == ASSUME SafeInv, NEW p \in Procs, OpenFails(p) PROVE SafeInv'
<1> DEFINE s == proc[p]
           w == CloseSource(s)
           t == [w EXCEPT !.fds = NoMaps, !.pc = "failed"]
<1>1. s \in ProcType /\ Loaded(s) /\ Goes(p, t) /\ Alive(p)
  BY OfProcess DEF OpenFails, Alive
<1>2. w \in ProcType /\ Kept(s, w) /\ (w.ready => w.loads > 0)
  BY <1>1, CloseSourceResult DEF Loaded
<1> HIDE DEF s, w
<1>3. NoMaps \in [Names -> MapIds]
  BY DownType DEF Down, ProcType
<1>4. t \in ProcType /\ t.pc = "failed" /\ t.keep = w.keep /\ t.ready = w.ready /\ t.loads = w.loads
  BY <1>2, <1>3 DEF ProcType
<1> HIDE DEF t
<1>5. Loaded(t)
  BY <1>2, <1>4 DEF Loaded
<1> QED
  BY <1>1, <1>2, <1>4, <1>5, PlainStep DEF s

LEMMA RunInitStep == ASSUME SafeInv, NEW p \in Procs, RunInit(p) PROVE SafeInv'
<1> DEFINE s == proc[p]
<1>1. /\ s \in ProcType /\ s.pc = "init" /\ Alive(p) /\ s.step = 1
      /\ Loaded(s) /\ Owns(s, pinned) /\ Removed(s, pinned)
      /\ IF policy.together THEN s.keep ELSE \A q \in Procs \ {p} : ~Alive(q)
  BY OfProcess DEF RunInit, Alive, Removed
<1> HIDE DEF s
<1>2. ASSUME NEW w \in ProcType, Kept(s, w), Goes(p, [w EXCEPT !.pc = "run"]),
             w.ready => w.loads > 0, s.source = "real" => w.ready /\ ~w.closed
      PROVE  SafeInv'
  <2> DEFINE t == [w EXCEPT !.pc = "run"]
  <2>1. t \in ProcType /\ t.pc = "run" /\ t.keep = w.keep /\ t.step = w.step /\ t.fds = w.fds
        /\ t.source = w.source /\ t.ready = w.ready /\ t.closed = w.closed /\ t.loads = w.loads
    BY <1>2 DEF ProcType
  <2> HIDE DEF t
  <2>2. Loaded(t)
    BY <1>2, <2>1 DEF Loaded, Kept
  <2>3. Owns(t, pinned) /\ Removed(t, pinned)
    BY <1>1, <1>2, <2>1 DEF Owns, Removed, Kept
  <2>4. t.keep = s.keep
    BY <1>2, <2>1 DEF Kept
  <2> QED
    BY <1>1, <1>2, <2>1, <2>2, <2>3, <2>4, GoesStep DEF t
<1>3. CASE s.source = "mock" /\ Goes(p, [s EXCEPT !.pc = "run"])
  BY <1>1, <1>2, <1>3 DEF Loaded, Kept
<1>4. ASSUME NEW r \in RealInit(s), s.source = "real",
             Goes(p, [r.s EXCEPT !.pc = IF r.ok THEN "run" ELSE "close"])
      PROVE  SafeInv'
  <2>1. /\ r.s \in ProcType /\ Kept(s, r.s) /\ r.s.closed = s.closed
        /\ r.ok => r.s.loads = s.loads + 1 /\ r.s.ready
        /\ ~r.ok => r.s.loads = s.loads /\ (r.s.ready => s.ready)
    BY <1>1, <1>4, RealInitResults DEF Loaded
  <2>2. r.s.ready => r.s.loads > 0
    BY <1>1, <2>1 DEF Loaded, ProcType
  <2>3. CASE r.ok
    BY <1>1, <1>2, <1>4, <2>1, <2>2, <2>3 DEF Loaded
  <2>4. CASE ~r.ok
    <3> DEFINE w == r.s
               t == [w EXCEPT !.pc = "close"]
    <3> HIDE DEF w
    <3>1. t \in ProcType /\ t.pc = "close" /\ t.keep = w.keep /\ t.step = w.step
          /\ t.ready = w.ready /\ t.loads = w.loads
      BY <2>1 DEF ProcType, w
    <3>2. Goes(p, t) /\ Kept(s, w) /\ w \in ProcType
      BY <1>4, <2>1, <2>4 DEF w
    <3> HIDE DEF t
    <3>3. Loaded(t) /\ t.step = 1
      BY <1>1, <2>2, <3>1, <3>2 DEF Loaded, Kept, w
    <3> QED
      BY <1>1, <3>1, <3>2, <3>3, PlainStep DEF s
  <2> QED
    BY <2>3, <2>4
<1> QED
  BY <1>3, <1>4 DEF RunInit, s

LEMMA RunReturnsStep == ASSUME SafeInv, NEW p \in Procs, RunReturns(p) PROVE SafeInv'
<1> DEFINE s == proc[p]
           w == CloseSource(s)
           t == [w EXCEPT !.pc = "close"]
<1>1. s \in ProcType /\ Loaded(s) /\ Goes(p, t) /\ Alive(p) /\ s.step = 1
  BY OfProcess DEF RunReturns, Alive, Removed
<1>2. w \in ProcType /\ Kept(s, w) /\ (w.ready => w.loads > 0)
  BY <1>1, CloseSourceResult DEF Loaded
<1> HIDE DEF s, w
<1>3. t \in ProcType /\ t.pc = "close" /\ t.keep = w.keep /\ t.step = w.step
      /\ t.ready = w.ready /\ t.loads = w.loads
  BY <1>2 DEF ProcType
<1> HIDE DEF t
<1>4. Loaded(t) /\ t.step = 1
  BY <1>1, <1>2, <1>3 DEF Loaded, Kept
<1> QED
  BY <1>1, <1>2, <1>3, <1>4, PlainStep DEF s

LEMMA CloseBridgeStep == ASSUME SafeInv, NEW p \in Procs, CloseBridge(p) PROVE SafeInv'
<1> DEFINE s == proc[p]
           t == [s EXCEPT !.fds = NoMaps, !.pc = IF s.keep THEN "exited" ELSE "unpin"]
<1>1. /\ s \in ProcType /\ Loaded(s) /\ Goes(p, t) /\ Alive(p) /\ s.step = 1
      /\ IF policy.together THEN s.keep ELSE \A q \in Procs \ {p} : ~Alive(q)
  BY OfProcess DEF CloseBridge, Alive, Removed
<1> HIDE DEF s
<1>2. NoMaps \in [Names -> MapIds]
  BY DownType DEF Down, ProcType
<1>3. /\ t \in ProcType /\ t.keep = s.keep /\ t.step = s.step /\ t.ready = s.ready /\ t.loads = s.loads
      /\ IF s.keep THEN t.pc = "exited" ELSE t.pc = "unpin"
  BY <1>1, <1>2 DEF ProcType
<1> HIDE DEF t
<1>4. Loaded(t)
  BY <1>1, <1>3 DEF Loaded
<1>5. Owns(t, pinned) /\ Removed(t, pinned)
  BY <1>1, <1>3 DEF Owns, Removed
<1> QED
  BY <1>1, <1>3, <1>4, <1>5, GoesStep

LEMMA UnpinMapStep == ASSUME SafeInv, NEW p \in Procs, UnpinMap(p) PROVE SafeInv'
<1> DEFINE s == proc[p]
           n == UnpinOrder[s.step]
           t == IF s.step = LastUnpin THEN [s EXCEPT !.pc = "exited", !.step = 1]
                ELSE [s EXCEPT !.step = @ + 1]
<1>1. /\ s \in ProcType /\ s.pc = "unpin" /\ Alive(p) /\ Loaded(s) /\ Removed(s, pinned) /\ ~s.keep
      /\ \A q \in Procs \ {p} : ~Alive(q)
  BY OfProcess DEF UnpinMap, Alive, Removed
<1>2. s.step \in 1 .. 4 /\ n \in Names
  BY <1>1, Orders DEF ProcType
<1>3. \/ /\ pinned' = [pinned EXCEPT ![n] = 0]
         /\ unpinned' = (unpinned \/ consumer # NoMaps)
         /\ proc' = [proc EXCEPT ![p] = t]
         /\ UNCHANGED <<policy, consumer>>
      \/ Goes(p, [t EXCEPT !.unpinErr = TRUE])
  BY DEF UnpinMap, Goes
<1>4. proc \in [Procs -> ProcType] /\ pinned \in [Names -> MapIds] /\ unpinned \in BOOLEAN
  BY DEF SafeInv, TypeOK
<1> HIDE DEF s, n
<1>5. /\ t \in ProcType /\ t.keep = s.keep /\ t.ready = s.ready /\ t.loads = s.loads
      /\ t.unpinErr = s.unpinErr
      /\ IF s.step = 4 THEN t.pc = "exited" /\ t.step = 1 ELSE t.pc = "unpin" /\ t.step = s.step + 1
  <2>1. CASE s.step = 4
    <3> DEFINE u == [s EXCEPT !.pc = "exited", !.step = 1]
    <3>1. t = u
      BY <2>1 DEF LastUnpin
    <3>2. 1 \in 1 .. 4
      OBVIOUS
    <3>3. u \in ProcType
      BY <1>1, <3>2 DEF ProcType
    <3>4. u.keep = s.keep /\ u.ready = s.ready /\ u.loads = s.loads /\ u.unpinErr = s.unpinErr
          /\ u.pc = "exited" /\ u.step = 1
      BY <1>1 DEF ProcType
    <3> QED
      BY <2>1, <3>1, <3>3, <3>4
  <2>2. CASE s.step # 4
    <3> DEFINE u == [s EXCEPT !.step = @ + 1]
    <3>1. t = u
      BY <2>2 DEF LastUnpin
    <3>2. s.step + 1 \in 1 .. 4
      BY <1>2, <2>2
    <3>3. u \in ProcType
      BY <1>1, <3>2 DEF ProcType
    <3>4. u.keep = s.keep /\ u.ready = s.ready /\ u.loads = s.loads /\ u.unpinErr = s.unpinErr
          /\ u.pc = "unpin" /\ u.step = s.step + 1
      BY <1>1 DEF ProcType
    <3> QED
      BY <2>2, <3>1, <3>3, <3>4
  <2> QED
    BY <2>1, <2>2
<1> HIDE DEF t
<1>6. CASE Goes(p, [t EXCEPT !.unpinErr = TRUE])
  <2> DEFINE u == [t EXCEPT !.unpinErr = TRUE]
  <2>1. u \in ProcType /\ u.keep = t.keep /\ u.ready = t.ready /\ u.loads = t.loads
        /\ u.unpinErr = TRUE /\ u.pc = t.pc /\ u.step = t.step
    BY <1>5 DEF ProcType
  <2> HIDE DEF u
  <2>2. Loaded(u)
    BY <1>1, <1>5, <2>1 DEF Loaded
  <2>3. Owns(u, pinned) /\ Removed(u, pinned)
    BY <1>1, <1>5, <2>1 DEF Owns, Removed
  <2>4. IF policy.together THEN u.keep ELSE \A q \in Procs \ {p} : ~Alive(q)
    BY <1>1, OfProcess DEF s
  <2> QED
    BY <1>6, <2>1, <2>2, <2>3, <2>4, GoesStep DEF u
<1>7. CASE /\ pinned' = [pinned EXCEPT ![n] = 0]
           /\ unpinned' = (unpinned \/ consumer # NoMaps)
           /\ proc' = [proc EXCEPT ![p] = t]
           /\ UNCHANGED <<policy, consumer>>
  <2>1. /\ pinned' \in [Names -> MapIds]
        /\ \A k \in Names : pinned'[k] = IF k = n THEN 0 ELSE pinned[k]
    <3>1. 0 \in MapIds
      BY LifecycleAssumption, FS_CardinalityType DEF MapIds
    <3> QED
      BY <1>2, <1>4, <1>7, <3>1
  <2>2. proc' \in [Procs -> ProcType] /\ \A q \in Procs : proc'[q] = IF q = p THEN t ELSE proc[q]
    BY <1>4, <1>5, <1>7
  <2>3. unpinned' \in BOOLEAN
    BY <1>4, <1>7
  <2>4. TypeOK'
    BY <1>7, <2>1, <2>2, <2>3 DEF SafeInv, TypeOK
  <2>5. Company'
    <3>1. ~policy.together
      BY <1>1, OfProcess DEF s
    <3> QED
      BY <1>1, <1>7, <2>2, <3>1 DEF Company, Alive
  <2>6. Loaded(t) /\ Owns(t, pinned')
    BY <1>1, <1>5 DEF Loaded, Owns
  <2>7. Removed(t, pinned')
    <3>1. ASSUME ~s.unpinErr, NEW i \in 1 .. 4, i <= s.step
          PROVE  pinned'[UnpinOrder[i]] = 0
      <4>1. CASE i = s.step
        BY <1>2, <2>1, <4>1 DEF n
      <4>2. CASE i # s.step
        <5>1. i < s.step
          BY <1>2, <3>1, <4>2
        <5>2. pinned[UnpinOrder[i]] = 0
          BY <1>1, <3>1, <5>1 DEF Removed
        <5> QED
          BY <2>1, <5>2, Orders
      <4> QED
        BY <4>1, <4>2
    <3>2. CASE s.step = 4
      <4>1. ~s.unpinErr => \A k \in Names : pinned'[k] = 0
        BY <3>1, <3>2, Orders
      <4> QED
        BY <1>5, <3>2, <4>1 DEF Removed
    <3>3. CASE s.step # 4
      <4>1. \A i \in 1 .. 4 : i < t.step => i <= s.step
        BY <1>2, <1>5, <3>3
      <4> QED
        BY <1>1, <1>5, <3>1, <3>3, <4>1 DEF Removed
    <3> QED
      BY <3>2, <3>3
  <2>8. ASSUME NEW q \in Procs \ {p}
        PROVE  Loaded(proc[q]) /\ Owns(proc[q], pinned') /\ Removed(proc[q], pinned')
    <3>1. proc[q].pc = "down" /\ Loaded(proc[q])
      BY <1>1, OfProcess DEF Alive
    <3> QED
      BY <3>1 DEF Owns, Removed
  <2>9. Attached'
    BY <1>7 DEF Attached
  <2> QED
    BY <2>2, <2>4, <2>5, <2>6, <2>7, <2>8, <2>9 DEF SafeInv
<1> QED
  BY <1>3, <1>6, <1>7

LEMMA CancelStep == ASSUME SafeInv, NEW p \in Procs, Cancel(p) PROVE SafeInv'
<1> DEFINE s == proc[p]
           t == [s EXCEPT !.ctxDone = TRUE]
<1>1. /\ s \in ProcType /\ Loaded(s) /\ Owns(s, pinned) /\ Removed(s, pinned) /\ Goes(p, t)
      /\ IF policy.together THEN s.keep ELSE \A q \in Procs \ {p} : ~Alive(q)
  BY OfProcess DEF Cancel
<1> HIDE DEF s
<1>2. t \in ProcType /\ t.pc = s.pc /\ t.keep = s.keep /\ t.source = s.source /\ t.loads = s.loads
      /\ t.ready = s.ready /\ t.closed = s.closed /\ t.step = s.step /\ t.fds = s.fds
      /\ t.unpinErr = s.unpinErr
  BY <1>1 DEF ProcType
<1> HIDE DEF t
<1>3. Loaded(t) /\ Owns(t, pinned) /\ Removed(t, pinned)
  BY <1>1, <1>2 DEF Loaded, Owns, Removed
<1> QED
  BY <1>1, <1>2, <1>3, GoesStep

LEMMA GoneStep == ASSUME SafeInv, NEW p \in Procs, Gone(p) PROVE SafeInv'
<1>1. Goes(p, Down) /\ Down.pc = "down"
  BY DEF Gone, Down
<1>2. Loaded(Down) /\ Owns(Down, pinned) /\ Removed(Down, pinned)
  BY DEF Loaded, Owns, Removed, Down
<1> QED
  BY <1>1, <1>2, DownType, GoesStep

LEMMA ConsumerStep == ASSUME SafeInv, ConsumerAttaches \/ ConsumerLeaves PROVE SafeInv'
<1>1. UNCHANGED <<policy, proc, pinned>> /\ unpinned' = FALSE /\ consumer' \in {pinned, NoMaps}
  BY DEF ConsumerAttaches, ConsumerLeaves
<1>2. NoMaps \in [Names -> MapIds]
  BY DownType DEF Down, ProcType
<1>3. TypeOK'
  BY <1>1, <1>2 DEF SafeInv, TypeOK
<1>4. Company'
  BY <1>1 DEF SafeInv, Company, Alive
<1>5. Attached'
  BY DEF ConsumerAttaches, ConsumerLeaves, Attached
<1> QED
  BY <1>1, <1>3, <1>4, <1>5 DEF SafeInv

LEMMA InvStep == Careful /\ SafeInv /\ [Next]_vars => SafeInv'
<1> SUFFICES ASSUME Careful, SafeInv, [Next]_vars PROVE SafeInv'
  OBVIOUS
<1>1. ASSUME NEW p \in Procs, Start(p) PROVE SafeInv'
  BY <1>1, StartStep
<1>2. ASSUME NEW p \in Procs, Step(p) PROVE SafeInv'
  BY <1>2, ChooseSourceStep, OpenMapStep, PinMapStep, OpenFailsStep, RunInitStep,
     RunReturnsStep, CloseBridgeStep, UnpinMapStep DEF Step
<1>3. ASSUME NEW p \in Procs, Cancel(p) PROVE SafeInv'
  BY <1>3, CancelStep
<1>4. ASSUME NEW p \in Procs, Gone(p) PROVE SafeInv'
  BY <1>4, GoneStep
<1>5. CASE ConsumerAttaches \/ ConsumerLeaves
  BY <1>5, ConsumerStep
<1>6. CASE UNCHANGED vars
  BY <1>6 DEF vars, SafeInv, TypeOK, Company, Attached, Alive
<1> QED
  BY <1>1, <1>2, <1>3, <1>4, <1>5, <1>6 DEF Next

LEMMA Invariance == ASSUME Careful PROVE Spec => []SafeInv
<1>1. SafeInv /\ [Next]_vars => SafeInv'
  BY InvStep
<1> QED
  BY <1>1, InvInit, PTL DEF Spec

-----------------------------------------------------------------------------

(***************************************************************************)
(* Every reachable state of the processes and the pins is well typed:      *)
(* among the names of maps that creation draws from, one is always free.   *)
(***************************************************************************)
THEOREM TypeCorrect == ASSUME Careful PROVE Spec => []TypeOK
<1>1. SafeInv => TypeOK
  BY DEF SafeInv
<1> QED
  BY <1>1, Invariance, PTL

(***************************************************************************)
(* A running bridge writes the maps that are pinned (maps.go:49-70), after *)
(* any history of kills and failures, and any race between bridges that    *)
(* keep their pins.                                                        *)
(***************************************************************************)
THEOREM RunningBridgeOwnsPins == ASSUME Careful PROVE Spec => []RunningOwnsPins
<1>1. SafeInv => RunningOwnsPins
  <2> SUFFICES ASSUME SafeInv, NEW p \in Procs, proc[p].pc = "run" PROVE pinned = proc[p].fds
    BY DEF RunningOwnsPins
  <2>1. proc[p] \in ProcType /\ Owns(proc[p], pinned) /\ pinned \in [Names -> MapIds]
    BY OfProcess DEF SafeInv, TypeOK
  <2>2. proc[p].fds \in [Names -> MapIds] /\ \A n \in Names : proc[p].fds[n] = pinned[n]
    BY <2>1 DEF ProcType, Owns
  <2> QED
    BY <2>1, <2>2
<1> QED
  BY <1>1, Invariance, PTL

(***************************************************************************)
(* A consumer attached to the maps reads what any running bridge writes    *)
(* until an entry is removed (main.go:187-191).                            *)
(***************************************************************************)
THEOREM ConsumersKeepReading == ASSUME Careful PROVE Spec => []ConsumersSurvive
<1>1. SafeInv /\ RunningOwnsPins => ConsumersSurvive
  BY DEF SafeInv, Attached, RunningOwnsPins, ConsumersSurvive
<1> QED
  BY <1>1, Invariance, RunningBridgeOwnsPins, PTL

(***************************************************************************)
(* A bridge that stops by itself, without --keep-pins, leaves no entry or  *)
(* reports that Unpin failed (main.go:196-201).                            *)
(***************************************************************************)
THEOREM CleanExitUnpins == ASSUME Careful PROVE Spec => []CleanExitLeavesNoPin
<1>1. SafeInv => CleanExitLeavesNoPin
  <2> SUFFICES ASSUME SafeInv, NEW p \in Procs,
                      proc[p].pc = "exited", ~proc[p].keep, ~proc[p].unpinErr
               PROVE  pinned = NoMaps
    BY DEF CleanExitLeavesNoPin
  <2>1. pinned \in [Names -> MapIds] /\ \A n \in Names : pinned[n] = 0
    BY OfProcess DEF Removed, SafeInv, TypeOK
  <2> QED
    BY <2>1 DEF NoMaps
<1> QED
  BY <1>1, Invariance, PTL

(***************************************************************************)
(* The poll loop uses a source that is initialised and not closed, and     *)
(* NVML is only shut down while it is loaded (real.go:124, poller.go:81).  *)
(***************************************************************************)
THEOREM SourceIsLoaded == ASSUME Careful PROVE Spec => []SourceLoadedWhenUsed
<1>1. SafeInv => SourceLoadedWhenUsed
  BY DEF SafeInv, Loaded, SourceLoadedWhenUsed
<1> QED
  BY <1>1, Invariance, PTL
=============================================================================
