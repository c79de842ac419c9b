-------------------------- MODULE SOPGenerateProofs --------------------------
(***************************************************************************)
(* Proofs about SOPGenerate for any number of cores and initial shapes:    *)
(* the ranges of the threads partition the initial shapes; the types; each *)
(* primitive keeps to the group and the attributes of its own initial      *)
(* shape; no shape is generated before all occluders exist; holes are      *)
(* built last; a cook aborts only if every shape reported an error; and    *)
(* the output is complete: each shape is generated or reported once.       *)
(***************************************************************************)
EXTENDS SOPGenerate, TLAPS

-----------------------------------------------------------------------------
(* The split of the initial shapes.                                        *)

(* Integer division, with what is needed to multiply back.                 *)
LEMMA DivFacts ==
    ASSUME NEW n \in Nat, NEW T \in Nat \ {0}
    PROVE  /\ n \div T \in Nat
           /\ T * (n \div T) <= n
           /\ n < T * (n \div T) + T
  BY Z3

(* The start of the next range is one range size further.                  *)
LEMMA ProductSuccessor ==
    ASSUME NEW a \in Nat, NEW r \in Nat
    PROVE  /\ (a + 1) * r = a * r + r
           /\ r * a = a * r
  BY Z3

(* The ranges start in the order of their threads.                         *)
LEMMA ProductMonotone ==
    ASSUME NEW a \in Nat, NEW b \in Nat, NEW r \in Nat, a <= b
    PROVE  a * r \in Nat /\ a * r <= b * r
  BY Z3

(* batchGenerate starts one thread per core, but no more than shapes.      *)
LEMMA NThreadsBounds ==
    ASSUME NEW c \in 1 .. MaxCores, NEW n \in Nat, n > 0
    PROVE  /\ NThreads(c, n) \in Nat \ {0}
           /\ NThreads(c, n) <= n
           /\ NThreads(c, n) <= MaxCores
  BY GenerateAssumption DEF NThreads

(* Each range lies within the array of initial shapes.                     *)
LEMMA RangeBounds ==
    ASSUME NEW n \in Nat, NEW T \in Nat \ {0}, NEW t \in 0 .. T - 1
    PROVE  /\ Start(n, T, t) \in Nat
           /\ PastEnd(n, T, t) \in Nat
           /\ Start(n, T, t) <= PastEnd(n, T, t)
           /\ PastEnd(n, T, t) <= n
  <1> DEFINE R == n \div T
  <1>1. R \in Nat /\ T * R <= n
    BY DivFacts
  <1>2. t * R \in Nat /\ t * R <= (t + 1) * R /\ (t + 1) * R \in Nat
    BY <1>1, ProductMonotone
  <1>3. t * R <= T * R /\ (t + 1) * R <= T * R
    BY <1>1, ProductMonotone
  <1> HIDE DEF R
  <1>4. T * R \in Nat
    BY <1>1
  <1>5. Start(n, T, t) = t * R
    BY DEF Start, RangeSize, R
  <1>6. PastEnd(n, T, t) = IF t < T - 1 THEN (t + 1) * R ELSE n
    BY DEF PastEnd, RangeSize, R
  <1> QED
    BY <1>1, <1>2, <1>3, <1>4, <1>5, <1>6

(* The ranges of consecutive threads meet, the first starts at the first   *)
(* shape and the last ends at the last: none is left out, none is taken    *)
(* twice.                                                                  *)
LEMMA RangesMeet ==
    ASSUME NEW n \in Nat, NEW T \in Nat \ {0}
    PROVE  /\ Start(n, T, 0) = 0
           /\ PastEnd(n, T, T - 1) = n
           /\ \A t \in 0 .. T - 2 : PastEnd(n, T, t) = Start(n, T, t + 1)
  BY DivFacts DEF Start, PastEnd, RangeSize

(* Every initial shape is in the range of a thread.                        *)
LEMMA RangesCover ==
    ASSUME NEW n \in Nat, NEW T \in Nat \ {0}, NEW k \in 0 .. n - 1
    PROVE  \E t \in 0 .. T - 1 : Start(n, T, t) <= k /\ k < PastEnd(n, T, t)
  <1> DEFINE R == n \div T
  <1>1. R \in Nat /\ T * R <= n
    BY DivFacts
  <1>2. CASE k >= (T - 1) * R
    <2>1. Start(n, T, T - 1) <= k /\ k < PastEnd(n, T, T - 1)
      BY <1>2 DEF Start, PastEnd, RangeSize
    <2> QED
      BY <2>1
  <1>3. CASE k < (T - 1) * R
    <2>1. R > 0
      BY <1>1, <1>3
    <2> DEFINE t == k \div R
    <2>2. t \in Nat /\ t * R <= k /\ k < t * R + R
      <3>1. R \in Nat \ {0} /\ k \in Nat
        BY <1>1, <2>1
      <3>2. t \in Nat /\ R * t <= k /\ k < R * t + R
        BY <3>1, DivFacts
      <3> QED
        BY <3>1, <3>2, ProductSuccessor
    <2> HIDE DEF t
    <2>3. t < T - 1
      <3>1. SUFFICES ASSUME t >= T - 1 PROVE FALSE
        BY <2>2
      <3>2. (T - 1) * R <= t * R
        BY <1>1, <2>2, <3>1, ProductMonotone
      <3> QED
        BY <1>1, <1>3, <2>2, <3>2, Z3
    <2>4. (t + 1) * R = t * R + R
      BY <1>1, <2>2, ProductSuccessor
    <2>5. Start(n, T, t) = t * R /\ PastEnd(n, T, t) = (t + 1) * R
      BY <2>3 DEF Start, PastEnd, RangeSize
    <2>6. Start(n, T, t) <= k /\ k < PastEnd(n, T, t)
      BY <2>2, <2>4, <2>5
    <2> QED
      BY <2>2, <2>3, <2>6
  <1> QED
    BY <1>1, <1>2, <1>3

(* When the loop index can hold the number of threads, all are launched.   *)
LEMMA AllLaunched ==
    ASSUME NEW T \in Nat, T <= IndexHalf
    PROVE  Launched(T) = 0 .. T - 1
  <1>1. ASSUME NEW u \in 0 .. T - 1
        PROVE  AsIndex(u) >= 0
    <2>1. u % (2 * IndexHalf) = u
      BY GenerateAssumption, Z3
    <2> QED
      BY <2>1, GenerateAssumption DEF AsIndex
  <1> QED
    BY <1>1 DEF Launched

(* No more threads are launched than there are ranges.                     *)
LEMMA RunningInRange ==
    ASSUME NEW T \in Nat, NEW t \in Launched(T)
    PROVE  t \in 0 .. T - 1
  BY DEF Launched

-----------------------------------------------------------------------------
(* The types and the phases of a cook.                                     *)

(* The range of a thread that is at work lies within the initial shapes.   *)
LEMMA WorkingRange ==
    ASSUME TypeOK, PhaseInv, NEW t \in Threads, at[t] \notin {"idle", "over"}
    PROVE  /\ nis \in Nat \ {0}
           /\ First(t) \in Nat
           /\ Last(t) \in Nat
           /\ First(t) <= Last(t)
           /\ Last(t) <= nis
  <1>1. cook \in {"occlusion", "generation"} /\ nis > 0 /\ t \in Running
    BY DEF TypeOK, PhaseInv, CookStates
  <1>2. nis \in Nat \ {0} /\ cores \in 1 .. MaxCores
    BY <1>1 DEF TypeOK
  <1>3. NThreads(cores, nis) \in Nat \ {0}
    BY <1>2, NThreadsBounds
  <1>4. t \in 0 .. NThreads(cores, nis) - 1
    BY <1>1, <1>3, RunningInRange DEF Running
  <1> QED
    BY <1>2, <1>3, <1>4, RangeBounds DEF First, Last

(* A batch puts every thread it launches at the start of its range.        *)
LEMMA LaunchTypes ==
    ASSUME TypeOK, NEW n \in Nat \ {0}, NEW mode \in {"occlude", "generate"},
           Launch(n, mode)
    PROVE  /\ at' \in [Threads -> ThreadStates]
           /\ pos' \in [Threads -> Nat]
  <1> DEFINE T == NThreads(cores, n)
  <1>1. T \in Nat \ {0}
    BY NThreadsBounds DEF TypeOK
  <1>2. \A t \in Launched(T) : Start(n, T, t) \in Nat
    BY <1>1, RunningInRange, RangeBounds
  <1> HIDE DEF T
  <1>3. at' = [t \in Threads |-> IF t \in Launched(T) THEN mode ELSE "idle"]
    BY DEF Launch, T
  <1>4. pos' = [t \in Threads |-> IF t \in Launched(T) THEN Start(n, T, t) ELSE 0]
    BY DEF Launch, T
  <1> QED
    BY <1>2, <1>3, <1>4 DEF ThreadStates

(* What the three ways to make a primitive leave as it is.                 *)
LEMMA PrimType ==
    ASSUME NEW k \in Nat, NEW role \in {"face", "hole"}
    PROVE  /\ Prim(k, role) \in Primitives
           /\ Prim(k, role).shape = k
           /\ Prim(k, role).groups = {}
           /\ Prim(k, role).attrs = {}
  BY DEF Prim, Primitives

(* Joining a group changes the groups of a primitive and nothing else.     *)
LEMMA JoinGroupFacts ==
    ASSUME NEW p \in Primitives, NEW k \in Nat
    PROVE  /\ JoinGroup(p, k) \in Primitives
           /\ JoinGroup(p, k).shape = p.shape
           /\ JoinGroup(p, k).groups = p.groups \cup {k}
           /\ JoinGroup(p, k).attrs = p.attrs
  <1>1. p.groups \cup {k} \in SUBSET Nat
    BY DEF Primitives
  <1>2. JoinGroup(p, k) = [p EXCEPT !.groups = p.groups \cup {k}]
    BY DEF JoinGroup
  <1> QED
    BY <1>1, <1>2 DEF Primitives

(* Receiving attributes changes the attributes and nothing else.           *)
LEMMA SetAttributesFacts ==
    ASSUME NEW p \in Primitives, NEW k \in Nat
    PROVE  /\ SetAttributes(p, k) \in Primitives
           /\ SetAttributes(p, k).shape = p.shape
           /\ SetAttributes(p, k).groups = p.groups
           /\ SetAttributes(p, k).attrs = p.attrs \cup {k}
  <1>1. p.attrs \cup {k} \in SUBSET Nat
    BY DEF Primitives
  <1>2. SetAttributes(p, k) = [p EXCEPT !.attrs = p.attrs \cup {k}]
    BY DEF SetAttributes
  <1> QED
    BY <1>1, <1>2 DEF Primitives

(* A node that has not cooked is well typed and has no thread at work.     *)
LEMMA InitType == Init => TypeOK /\ PhaseInv
  <1> SUFFICES ASSUME Init PROVE TypeOK /\ PhaseInv
    OBVIOUS
  <1>1. TypeOK
    <2>1. Shapes = {} /\ nis \in 0 .. MaxShapes
      BY GenerateAssumption DEF Init, Shapes
    <2>2. /\ status \in [Shapes -> {"OK", "ERROR"}]
          /\ outcome \in [Shapes -> {"pending", "failed", "skipped", "generated"}]
      BY <2>1 DEF Init
    <2>3. at \in [Threads -> ThreadStates] /\ pos \in [Threads -> Nat]
      BY DEF Init, ThreadStates
    <2>4. block \in [Threads -> [marker : Nat, first : Nat, faces : 0 .. 2]]
      BY DEF Init, NoBlock
    <2>5. holeGroups \in [Threads -> SUBSET (1 .. end)] /\ end \in Nat
      BY DEF Init
    <2>6. DOMAIN detail = {}
      BY DEF Init
    <2> QED
      BY <2>1, <2>2, <2>3, <2>4, <2>5, <2>6 DEF Init, TypeOK, CookStates
  <1>2. PhaseInv
    BY DEF Init, PhaseInv
  <1> QED
    BY <1>1, <1>2

(* Every step keeps the types: this needs the phases, because a status is  *)
(* written at an index that only the ranges of a batch keep in bounds.     *)
LEMMA TypeStep == TypeOK /\ PhaseInv /\ [Next]_vars => TypeOK'
  <1> SUFFICES ASSUME TypeOK, PhaseInv, [Next]_vars PROVE TypeOK'
    OBVIOUS
  <1>1. ASSUME NEW n \in 1 .. MaxShapes, StartCook(n) PROVE TypeOK'
    <2>1. at' \in [Threads -> ThreadStates] /\ pos' \in [Threads -> Nat]
      BY <1>1, LaunchTypes DEF StartCook
    <2>2. block' \in [Threads -> [marker : Nat, first : Nat, faces : 0 .. 2]]
      BY <1>1 DEF StartCook, NoBlock
    <2>3. /\ status' \in [Shapes' -> {"OK", "ERROR"}]
          /\ outcome' \in [Shapes' -> {"pending", "failed", "skipped", "generated"}]
      BY <1>1 DEF StartCook, Shapes
    <2>4. holeGroups' \in [Threads -> SUBSET (1 .. end')] /\ end' \in Nat
      BY <1>1 DEF StartCook
    <2>5. DOMAIN detail' = {}
      BY <1>1 DEF StartCook
    <2>6. nis' \in 0 .. MaxShapes /\ cook' \in CookStates
      BY <1>1 DEF StartCook, CookStates
    <2>7. occluded' = {} /\ erred' = {} /\ interrupted' \in BOOLEAN
      BY <1>1 DEF StartCook
    <2>8. UNCHANGED <<cores, lock>> /\ result' = "none"
      BY <1>1 DEF StartCook
    <2> QED
      BY <2>1, <2>2, <2>3, <2>4, <2>5, <2>6, <2>7, <2>8 DEF TypeOK
  <1>2. ASSUME NEW n \in 1 .. MaxShapes, CookInterrupted(n) PROVE TypeOK'
    BY <1>2 DEF CookInterrupted, TypeOK, CookStates, Shapes
  <1>3. CASE CookNothing
    BY <1>3, GenerateAssumption DEF CookNothing, TypeOK, CookStates, Shapes
  <1>4. CASE Interrupt
    BY <1>4 DEF Interrupt, TypeOK, Shapes
  <1>5. ASSUME NEW t \in Threads, Occlude(t) PROVE TypeOK'
    <2>1. pos[t] \in Shapes
      <3>1. at[t] \notin {"idle", "over"} /\ pos[t] < Last(t)
        BY <1>5 DEF Occlude
      <3>2. Last(t) \in Nat /\ Last(t) <= nis /\ nis \in Nat
        BY <3>1, WorkingRange
      <3>3. pos[t] \in Nat
        BY DEF TypeOK
      <3> QED
        BY <3>1, <3>2, <3>3 DEF Shapes
    <2>2. status' \in [Shapes -> {"OK", "ERROR"}] /\ erred' \subseteq Shapes
      BY <1>5, <2>1 DEF Occlude, GenerateError, TypeOK
    <2>3. occluded' \subseteq Shapes /\ pos' \in [Threads -> Nat]
      BY <1>5, <2>1 DEF Occlude, TypeOK
    <2>4. outcome' \in [Shapes -> {"pending", "failed", "skipped", "generated"}]
      BY <1>5, <2>1 DEF Occlude, TypeOK
    <2> QED
      BY <1>5, <2>2, <2>3, <2>4 DEF Occlude, TypeOK, Shapes
  <1>6. ASSUME NEW t \in Threads, Fail(t) PROVE TypeOK'
    <2>1. pos[t] \in Shapes
      <3>1. at[t] \notin {"idle", "over"} /\ pos[t] < Last(t)
        BY <1>6 DEF Fail
      <3>2. Last(t) \in Nat /\ Last(t) <= nis /\ nis \in Nat
        BY <3>1, WorkingRange
      <3>3. pos[t] \in Nat
        BY DEF TypeOK
      <3> QED
        BY <3>1, <3>2, <3>3 DEF Shapes
    <2>2. status' \in [Shapes -> {"OK", "ERROR"}] /\ erred' \subseteq Shapes
      BY <1>6, <2>1 DEF Fail, GenerateError, TypeOK
    <2>3. occluded' \subseteq Shapes /\ pos' \in [Threads -> Nat]
      BY <1>6, <2>1 DEF Fail, TypeOK
    <2>4. outcome' \in [Shapes -> {"pending", "failed", "skipped", "generated"}]
      BY <1>6, <2>1 DEF Fail, TypeOK
    <2> QED
      BY <1>6, <2>2, <2>3, <2>4 DEF Fail, TypeOK, Shapes
  <1>6a. ASSUME NEW t \in Threads, OccluderCallFails(t) \/ GenerateCallFails(t)
         PROVE TypeOK'
    <2>1. /\ at[t] \notin {"idle", "over"}
          /\ at' = [at EXCEPT ![t] = "over"] /\ pos' = [pos EXCEPT ![t] = Last(t)]
          /\ UNCHANGED <<cores, cook, nis, block, lock, detail, end, holeGroups,
                         status, erred, interrupted, result>>
      BY <1>6a DEF OccluderCallFails, GenerateCallFails
    <2>2. Last(t) \in Nat /\ Last(t) <= nis /\ nis \in Nat /\ pos[t] \in Nat
      BY <2>1, WorkingRange DEF TypeOK
    <2>3. pos[t] .. Last(t) - 1 \subseteq Shapes
      BY <2>2 DEF Shapes
    <2>4. occluded' \subseteq Shapes
      BY <1>6a, <2>3 DEF OccluderCallFails, GenerateCallFails, TypeOK
    <2>5. outcome' \in [Shapes -> {"pending", "failed", "skipped", "generated"}]
      <3>1. CASE OccluderCallFails(t)
        BY <3>1 DEF OccluderCallFails, TypeOK
      <3>2. CASE GenerateCallFails(t)
        BY <3>2 DEF GenerateCallFails, TypeOK
      <3> QED
        BY <1>6a, <3>1, <3>2
    <2>6. at' \in [Threads -> ThreadStates] /\ pos' \in [Threads -> Nat]
      BY <2>1, <2>2 DEF TypeOK, ThreadStates
    <2> QED
      BY <2>1, <2>4, <2>5, <2>6 DEF TypeOK, Shapes
  <1>7. ASSUME NEW t \in Threads, AddMark(t) PROVE TypeOK'
    BY <1>7 DEF AddMark, TypeOK, ThreadStates, Inside, Shapes
  <1>7a. ASSUME NEW t \in Threads, Succeed(t) PROVE TypeOK'
    BY <1>7a DEF Succeed, TypeOK, ThreadStates, Shapes
  <1>8. ASSUME NEW t \in Threads, AddBuild(t) PROVE TypeOK'
    <2> DEFINE faces == block[t].faces
               p(i) == IF i <= end THEN detail[i]
                       ELSE Prim(pos[t], IF i = end + 1 THEN "face" ELSE "hole")
    <2>1. faces \in 0 .. 2 /\ end \in Nat /\ pos[t] \in Nat
      BY DEF TypeOK
    <2>2. DOMAIN detail' = DOMAIN detail \cup (end + 1 .. end + faces)
      BY <1>8 DEF AddBuild
    <2>3. \A i \in DOMAIN detail' :
            detail'[i] = IF i > block[t].marker THEN JoinGroup(p(i), pos[t]) ELSE p(i)
      BY <1>8 DEF AddBuild
    <2>4. \A i \in DOMAIN detail' : p(i) \in Primitives
      <3>1. \A i \in DOMAIN detail : i \in 1 .. end /\ detail[i] \in Primitives
        BY DEF TypeOK
      <3>2. \A role \in {"face", "hole"} : Prim(pos[t], role) \in Primitives
        BY <2>1, PrimType
      <3> QED
        BY <2>1, <2>2, <3>1, <3>2
    <2> HIDE DEF p
    <2>5. \A i \in DOMAIN detail' : detail'[i] \in Primitives
      BY <2>1, <2>3, <2>4, JoinGroupFacts
    <2>6. end' \in Nat /\ DOMAIN detail' \subseteq 1 .. end'
      BY <1>8, <2>1, <2>2 DEF AddBuild, TypeOK
    <2>7. holeGroups' \in [Threads -> SUBSET (1 .. end')]
      <3>1. end' = end + faces
        BY <1>8 DEF AddBuild
      <3>2. holeGroups' = [holeGroups EXCEPT ![t] = @ \cup (end + 2 .. end + faces)]
        BY <1>8 DEF AddBuild
      <3>3. 1 .. end \subseteq 1 .. end' /\ end + 2 .. end + faces \subseteq 1 .. end'
        BY <2>1, <3>1
      <3>4. holeGroups \in [Threads -> SUBSET (1 .. end)]
        BY DEF TypeOK
      <3> HIDE DEF faces
      <3> QED
        BY <3>2, <3>3, <3>4
    <2>8. block' \in [Threads -> [marker : Nat, first : Nat, faces : 0 .. 2]]
      BY <1>8, <2>1 DEF AddBuild, TypeOK
    <2>9. at' \in [Threads -> ThreadStates]
      BY <1>8 DEF AddBuild, TypeOK, ThreadStates, Inside
    <2>10. UNCHANGED <<cores, cook, nis, pos, lock, status, occluded, erred,
                       outcome, interrupted, result>>
      BY <1>8 DEF AddBuild
    <2> QED
      BY <2>5, <2>6, <2>7, <2>8, <2>9, <2>10 DEF TypeOK, Shapes
  <1>9. ASSUME NEW t \in Threads, AddConvert(t) PROVE TypeOK'
    <2> DEFINE filled == block[t].first .. block[t].first + block[t].faces - 1
    <2>1. DOMAIN detail' = DOMAIN detail
      BY <1>9 DEF AddConvert
    <2>2. \A i \in DOMAIN detail :
            detail'[i] = IF i \in filled THEN SetAttributes(detail[i], pos[t])
                                         ELSE detail[i]
      BY <1>9 DEF AddConvert
    <2> HIDE DEF filled
    <2>3. pos[t] \in Nat
      BY DEF TypeOK
    <2>4. \A i \in DOMAIN detail' : detail'[i] \in Primitives
      <3>1. \A i \in DOMAIN detail : detail[i] \in Primitives
        BY DEF TypeOK
      <3> QED
        BY <2>1, <2>2, <2>3, <3>1, SetAttributesFacts
    <2>5. block' \in [Threads -> [marker : Nat, first : Nat, faces : 0 .. 2]]
      BY <1>9 DEF AddConvert, NoBlock, TypeOK
    <2>6. at' \in [Threads -> ThreadStates] /\ pos' \in [Threads -> Nat]
      BY <1>9, <2>3 DEF AddConvert, TypeOK, ThreadStates
    <2>7. outcome' \in [Shapes -> {"pending", "failed", "skipped", "generated"}]
      BY <1>9 DEF AddConvert, TypeOK
    <2>8. lock' \subseteq Threads
      BY <1>9 DEF AddConvert, TypeOK
    <2>9. UNCHANGED <<cores, cook, nis, end, holeGroups, status, occluded, erred,
                      interrupted, result>>
      BY <1>9 DEF AddConvert
    <2> QED
      BY <2>1, <2>4, <2>5, <2>6, <2>7, <2>8, <2>9 DEF TypeOK, Shapes
  <1>10. ASSUME NEW t \in Threads, Finish(t) PROVE TypeOK'
    BY <1>10 DEF Finish, TypeOK, ThreadStates, Shapes
  <1>11. CASE StartGeneration
    <2>1. at' \in [Threads -> ThreadStates] /\ pos' \in [Threads -> Nat]
      BY <1>11, LaunchTypes DEF StartGeneration, PhaseInv, TypeOK
    <2> QED
      BY <1>11, <2>1 DEF StartGeneration, TypeOK, CookStates, Shapes
  <1>12. CASE FinishCook
    BY <1>12 DEF FinishCook, WithoutHoles, TypeOK, CookStates, Shapes
  <1>13. CASE UNCHANGED vars
    BY <1>13 DEF vars, TypeOK, Shapes
  <1> QED
    BY <1>1, <1>2, <1>3, <1>4, <1>5, <1>6, <1>6a, <1>7, <1>7a, <1>8, <1>9, <1>10,
       <1>11, <1>12, <1>13 DEF Next, ThreadStep, Cook

(* Every step keeps threads and cook in the same phase.                    *)
LEMMA PhaseStep == TypeOK /\ PhaseInv /\ [Next]_vars => PhaseInv'
  <1> SUFFICES ASSUME TypeOK, PhaseInv, [Next]_vars PROVE PhaseInv'
    OBVIOUS
  <1>a. at \in [Threads -> ThreadStates] /\ cook \in CookStates
    BY DEF TypeOK
  <1>1. ASSUME NEW n \in 1 .. MaxShapes, StartCook(n) PROVE PhaseInv'
    <2>1. /\ cook' = "occlusion" /\ nis' = n /\ n > 0
          /\ Running' = Launched(NThreads(cores, n))
          /\ at' = [t \in Threads |-> IF t \in Launched(NThreads(cores, n))
                                      THEN "occlude" ELSE "idle"]
      BY <1>1 DEF StartCook, Launch, Running
    <2> QED
      BY <2>1 DEF PhaseInv
  <1>2. ASSUME NEW n \in 1 .. MaxShapes, CookInterrupted(n) PROVE PhaseInv'
    BY <1>2 DEF CookInterrupted, PhaseInv
  <1>3. CASE CookNothing
    BY <1>3 DEF CookNothing, PhaseInv
  <1>4. CASE Interrupt
    BY <1>4 DEF Interrupt, PhaseInv, Running
  <1>5. ASSUME NEW t \in Threads, ThreadStep(t) PROVE PhaseInv'
    <2>1. UNCHANGED <<cores, cook, nis>> /\ Running' = Running
      BY <1>5 DEF ThreadStep, Occlude, OccluderCallFails, Fail, GenerateCallFails,
                  Succeed, AddMark, AddBuild, AddConvert, Finish, Running
    <2>2. \/ at' = at
          \/ at[t] \in {"generate", "adding"} \cup Inside
             /\ \E s \in {"generate", "adding"} \cup Inside : at' = [at EXCEPT ![t] = s]
          \/ at[t] \in {"occlude", "generate"} /\ at' = [at EXCEPT ![t] = "over"]
      BY <1>5 DEF ThreadStep, Occlude, OccluderCallFails, Fail, GenerateCallFails,
                  Succeed, AddMark, AddBuild, AddConvert, Finish, Inside
    <2>3. CASE at' = at
      BY <2>1, <2>3 DEF PhaseInv
    <2>4. CASE at[t] \in {"generate", "adding"} \cup Inside
               /\ \E s \in {"generate", "adding"} \cup Inside : at' = [at EXCEPT ![t] = s]
      BY <1>a, <2>1, <2>4 DEF PhaseInv, Inside, CookStates
    <2>5. CASE at[t] \in {"occlude", "generate"} /\ at' = [at EXCEPT ![t] = "over"]
      BY <1>a, <2>1, <2>5 DEF PhaseInv, Inside, CookStates
    <2> QED
      BY <2>2, <2>3, <2>4, <2>5
  <1>6. CASE StartGeneration
    <2>1. /\ cook' = "generation" /\ UNCHANGED <<cores, nis>>
          /\ Running' = Launched(NThreads(cores, nis))
          /\ at' = [t \in Threads |-> IF t \in Launched(NThreads(cores, nis))
                                      THEN "generate" ELSE "idle"]
      BY <1>6 DEF StartGeneration, Launch, Running
    <2>2. nis > 0
      BY <1>6 DEF StartGeneration, PhaseInv
    <2> QED
      BY <2>1, <2>2 DEF PhaseInv
  <1>7. CASE FinishCook
    <2>1. cook' = "returned" /\ at' = at
      BY <1>7 DEF FinishCook
    <2>2. \A t \in Threads : at[t] \in {"idle", "over"}
      BY <1>7 DEF FinishCook, Joined, PhaseInv
    <2> QED
      BY <2>1, <2>2 DEF PhaseInv
  <1>8. CASE UNCHANGED vars
    BY <1>8 DEF vars, PhaseInv, Running
  <1> QED
    BY <1>1, <1>2, <1>3, <1>4, <1>5, <1>6, <1>7, <1>8 DEF Next, Cook

(* Every variable keeps its type, in particular no thread leaves its range *)
(* and writes outside the vector of initial shape statuses.                *)
THEOREM TypeCorrect == Spec => [](TypeOK /\ PhaseInv)
  <1>1. Init => TypeOK /\ PhaseInv
    BY InitType
  <1>2. TypeOK /\ PhaseInv /\ [Next]_vars => (TypeOK /\ PhaseInv)'
    BY TypeStep, PhaseStep
  <1> QED
    BY <1>1, <1>2, PTL DEF Spec

-----------------------------------------------------------------------------
(* The critical section of ModelConverter::add.                            *)

LEMMA InitOwn == Init => MutexInv /\ BlockInv
  BY DEF Init, MutexInv, BlockInv, Inside

(* Every step keeps one thread at most inside ModelConverter::add, with    *)
(* the end of the detail as it was when the thread looked.                 *)
LEMMA MutexStep ==
    TypeOK /\ PhaseInv /\ MutexInv /\ [Next]_vars => MutexInv'
  <1> SUFFICES ASSUME TypeOK, PhaseInv, MutexInv, [Next]_vars PROVE MutexInv'
    OBVIOUS
  <1>a. /\ at \in [Threads -> ThreadStates]
        /\ block \in [Threads -> [marker : Nat, first : Nat, faces : 0 .. 2]]
        /\ lock \subseteq Threads /\ end \in Nat
    BY DEF TypeOK
  <1>b. cook \in {"idle", "returned", "occlusion"} => lock = {}
    BY <1>a DEF PhaseInv, MutexInv, Inside
  <1>1. ASSUME NEW n \in 1 .. MaxShapes, StartCook(n) PROVE MutexInv'
    <2>1. lock' = {} /\ \A t \in Threads : at'[t] \in {"occlude", "idle"}
      BY <1>1, <1>b DEF StartCook, Launch
    <2> QED
      BY <2>1 DEF MutexInv, Inside
  <1>2. ASSUME NEW n \in 1 .. MaxShapes, CookInterrupted(n) PROVE MutexInv'
    BY <1>2, <1>b DEF CookInterrupted, MutexInv
  <1>3. CASE CookNothing
    BY <1>3, <1>b DEF CookNothing, MutexInv
  <1>4. CASE Interrupt
    BY <1>4 DEF Interrupt, MutexInv
  <1>5. ASSUME NEW t \in Threads, Occlude(t) PROVE MutexInv'
    BY <1>5 DEF Occlude, MutexInv
  <1>6. ASSUME NEW t \in Threads, Fail(t) PROVE MutexInv'
    BY <1>6 DEF Fail, MutexInv
  <1>6a. ASSUME NEW t \in Threads, OccluderCallFails(t) \/ GenerateCallFails(t)
         PROVE MutexInv'
    <2>1. /\ at[t] \notin Inside /\ at' = [at EXCEPT ![t] = "over"]
          /\ UNCHANGED <<block, lock, end>>
      BY <1>6a DEF OccluderCallFails, GenerateCallFails, Inside
    <2>2. t \notin lock
      BY <2>1 DEF MutexInv
    <2> QED
      BY <1>a, <2>1, <2>2 DEF MutexInv, Inside
  <1>7. ASSUME NEW t \in Threads, AddMark(t) PROVE MutexInv'
    <2>1. PICK f \in 1 .. 2 :
            block' = [block EXCEPT ![t] = [marker |-> end, first |-> 0, faces |-> f]]
      BY <1>7 DEF AddMark
    <2>2. lock' = {t} /\ at' = [at EXCEPT ![t] = "marked"] /\ end' = end
      BY <1>7 DEF AddMark
    <2>3. \A u \in Threads \ {t} : at[u] \notin Inside
      BY <1>7 DEF AddMark, MutexInv
    <2>4. block'[t] = [marker |-> end, first |-> 0, faces |-> f]
      BY <1>a, <2>1
    <2> QED
      BY <1>a, <2>2, <2>3, <2>4 DEF MutexInv, Inside
  <1>7a. ASSUME NEW t \in Threads, Succeed(t) PROVE MutexInv'
    <2>1. t \notin lock
      BY <1>7a DEF Succeed, MutexInv, Inside
    <2> QED
      BY <1>7a, <1>a, <2>1 DEF Succeed, MutexInv, Inside
  <1>8. ASSUME NEW t \in Threads, AddBuild(t) PROVE MutexInv'
    <2>1. lock = {t} /\ lock' = lock
      BY <1>8 DEF AddBuild, MutexInv, Inside
    <2>2. at' = [at EXCEPT ![t] = "built"] /\ end' = end + block[t].faces
      BY <1>8 DEF AddBuild
    <2>3. block'[t].first = end + 1 /\ block'[t].faces = block[t].faces
      BY <1>8, <1>a DEF AddBuild
    <2>4. block[t].faces > 0 /\ block[t].faces \in Nat
      BY <1>a, <2>1 DEF MutexInv
    <2> QED
      BY <1>a, <2>1, <2>2, <2>3, <2>4 DEF MutexInv, Inside
  <1>9. ASSUME NEW t \in Threads, AddConvert(t) PROVE MutexInv'
    <2>1. lock = {t} /\ lock' = {} /\ at' = [at EXCEPT ![t] = "generate"]
      BY <1>9 DEF AddConvert, MutexInv, Inside
    <2> QED
      BY <1>a, <2>1 DEF MutexInv, Inside
  <1>10. ASSUME NEW t \in Threads, Finish(t) PROVE MutexInv'
    <2>1. t \notin lock
      BY <1>10 DEF Finish, MutexInv, Inside
    <2> QED
      BY <1>10, <1>a, <2>1 DEF Finish, MutexInv, Inside
  <1>11. CASE StartGeneration
    <2>1. lock' = {} /\ \A t \in Threads : at'[t] \in {"generate", "idle"}
      BY <1>11, <1>b DEF StartGeneration, Launch
    <2> QED
      BY <2>1 DEF MutexInv, Inside
  <1>12. CASE FinishCook
    BY <1>12 DEF FinishCook, MutexInv
  <1>13. CASE UNCHANGED vars
    BY <1>13 DEF vars, MutexInv
  <1> QED
    BY <1>1, <1>2, <1>3, <1>4, <1>5, <1>6, <1>6a, <1>7, <1>7a, <1>8, <1>9, <1>10,
       <1>11, <1>12, <1>13 DEF Next, ThreadStep, Cook

(* Every step keeps each primitive in its own group; only the block that   *)
(* was built last lacks attributes, and it belongs to one shape.           *)
LEMMA BlockStep ==
    IInv /\ [Next]_vars => BlockInv'
  <1> SUFFICES ASSUME TypeOK, PhaseInv, MutexInv, BlockInv, [Next]_vars
               PROVE  BlockInv'
    BY DEF IInv
  <1>a. /\ at \in [Threads -> ThreadStates] /\ pos \in [Threads -> Nat]
        /\ block \in [Threads -> [marker : Nat, first : Nat, faces : 0 .. 2]]
        /\ lock \subseteq Threads /\ end \in Nat
        /\ \A i \in DOMAIN detail : i \in 1 .. end /\ detail[i] \in Primitives
    BY DEF TypeOK
  <1>b. cook \in {"idle", "returned", "occlusion"} => lock = {}
    BY <1>a DEF PhaseInv, MutexInv, Inside
  <1>c. ASSUME lock = {}
        PROVE  \A i \in DOMAIN detail : /\ detail[i].groups = {detail[i].shape}
                                        /\ detail[i].attrs = {detail[i].shape}
    BY <1>c DEF BlockInv, Unconverted
  (* Most actions leave the detail and the threads inside add alone.       *)
  <1>d. ASSUME UNCHANGED <<detail, lock, block>>,
               \A u \in lock : at'[u] = at[u] /\ pos'[u] = pos[u]
        PROVE  BlockInv'
    <2>1. \A i : Unconverted(i)' <=> Unconverted(i)
      BY <1>d DEF Unconverted
    <2> QED
      BY <1>d, <2>1 DEF BlockInv
  <1>1. ASSUME NEW n \in 1 .. MaxShapes, StartCook(n) PROVE BlockInv'
    BY <1>1 DEF StartCook, BlockInv
  <1>2. ASSUME NEW n \in 1 .. MaxShapes, CookInterrupted(n) PROVE BlockInv'
    BY <1>2 DEF CookInterrupted, BlockInv
  <1>3. CASE CookNothing
    BY <1>3 DEF CookNothing, BlockInv
  <1>4. CASE Interrupt
    BY <1>4, <1>d DEF Interrupt
  <1>5. ASSUME NEW t \in Threads,
               \/ Occlude(t) \/ Fail(t) \/ Succeed(t) \/ Finish(t)
               \/ OccluderCallFails(t) \/ GenerateCallFails(t)
        PROVE  BlockInv'
    <2>1. t \notin lock /\ UNCHANGED <<detail, lock, block>>
      BY <1>5 DEF Occlude, Fail, Succeed, Finish, OccluderCallFails, GenerateCallFails,
                  MutexInv, Inside
    <2>2. \A u \in Threads \ {t} : at'[u] = at[u] /\ pos'[u] = pos[u]
      BY <1>5, <1>a DEF Occlude, Fail, Succeed, Finish, OccluderCallFails, GenerateCallFails
    <2> QED
      BY <1>a, <1>d, <2>1, <2>2
  <1>6. ASSUME NEW t \in Threads, AddMark(t) PROVE BlockInv'
    <2>1. lock = {} /\ lock' = {t} /\ at'[t] = "marked" /\ detail' = detail
      BY <1>6, <1>a DEF AddMark
    <2> QED
      BY <1>c, <2>1 DEF BlockInv, Unconverted
  <1>7. ASSUME NEW t \in Threads, AddBuild(t) PROVE BlockInv'
    <2> DEFINE p(i) == IF i <= end THEN detail[i]
                       ELSE Prim(pos[t], IF i = end + 1 THEN "face" ELSE "hole")
    <2>1. lock = {t} /\ lock' = {t} /\ at[t] = "marked" /\ at'[t] = "built"
      BY <1>7, <1>a DEF AddBuild, MutexInv, Inside
    <2>2. block[t].marker = end /\ block'[t].first = end + 1 /\ pos' = pos
      BY <1>7, <1>a, <2>1 DEF AddBuild, MutexInv
    <2>3. /\ DOMAIN detail' = DOMAIN detail \cup (end + 1 .. end + block[t].faces)
          /\ \A i \in DOMAIN detail' :
               detail'[i] = IF i > end THEN JoinGroup(p(i), pos[t]) ELSE p(i)
      BY <1>7, <2>2 DEF AddBuild
    <2>4. ASSUME NEW i \in DOMAIN detail', i <= end
          PROVE  /\ detail'[i].groups = {detail'[i].shape}
                 /\ detail'[i].attrs = {detail'[i].shape}
                 /\ ~ Unconverted(i)' /\ ~ (i >= block'[t].first)
      <3>1. i \in DOMAIN detail /\ i \in Nat /\ detail'[i] = detail[i]
        BY <1>a, <2>3, <2>4
      <3>2. ~ Unconverted(i)
        BY <2>1 DEF Unconverted
      <3>3. ~ (i >= block'[t].first)
        BY <1>a, <2>2, <2>4, <3>1
      <3> QED
        BY <2>1, <3>1, <3>2, <3>3 DEF BlockInv, Unconverted
    <2>5. ASSUME NEW i \in DOMAIN detail', ~ (i <= end)
          PROVE  /\ detail'[i].groups = {detail'[i].shape}
                 /\ detail'[i].attrs = {}
                 /\ detail'[i].shape = pos[t]
                 /\ Unconverted(i)'
      <3>1. i > end /\ i >= end + 1
        BY <1>a, <2>3, <2>5
      <3>2. PICK role \in {"face", "hole"} :
              detail'[i] = JoinGroup(Prim(pos[t], role), pos[t])
        BY <2>3, <2>5, <3>1
      <3>3. pos[t] \in Nat
        BY <1>a
      <3>4. /\ detail'[i].groups = {pos[t]} /\ detail'[i].attrs = {}
            /\ detail'[i].shape = pos[t]
        BY <3>2, <3>3, PrimType, JoinGroupFacts
      <3> QED
        BY <2>1, <2>2, <3>1, <3>4 DEF Unconverted
    <2> QED
      BY <2>1, <2>2, <2>4, <2>5 DEF BlockInv
  <1>8. ASSUME NEW t \in Threads, AddConvert(t) PROVE BlockInv'
    <2> DEFINE first == block[t].first
               filled == first .. first + block[t].faces - 1
    <2>1. lock = {t} /\ lock' = {} /\ at[t] = "built"
      BY <1>8 DEF AddConvert, MutexInv, Inside
    <2>2. first \in Nat /\ filled = first .. end
      BY <1>a, <2>1 DEF MutexInv
    <2>3. /\ DOMAIN detail' = DOMAIN detail
          /\ \A i \in DOMAIN detail :
               detail'[i] = IF i \in filled THEN SetAttributes(detail[i], pos[t])
                                            ELSE detail[i]
      BY <1>8 DEF AddConvert
    <2> HIDE DEF first, filled
    <2>4. ASSUME NEW i \in DOMAIN detail
          PROVE  /\ detail'[i].groups = {detail'[i].shape}
                 /\ detail'[i].attrs = {detail'[i].shape}
      <3>1. i \in 1 .. end /\ detail[i] \in Primitives /\ pos[t] \in Nat
        BY <1>a
      <3>2. CASE i >= first
        <4>1. detail[i].attrs = {} /\ detail[i].shape = pos[t]
          BY <2>1, <3>2 DEF BlockInv, Unconverted, first
        <4>2. detail'[i] = SetAttributes(detail[i], pos[t])
          BY <1>a, <2>2, <2>3, <3>1, <3>2
        <4>3. detail[i].groups = {detail[i].shape}
          BY DEF BlockInv
        <4>4. /\ detail'[i].shape = detail[i].shape
              /\ detail'[i].groups = detail[i].groups
              /\ detail'[i].attrs = detail[i].attrs \cup {pos[t]}
          <5> DEFINE d == detail[i]
                     q == SetAttributes(d, pos[t])
          <5>1. d \in Primitives /\ pos[t] \in Nat
            BY <3>1
          <5> HIDE DEF d
          <5>2. q.shape = d.shape /\ q.groups = d.groups
                /\ q.attrs = d.attrs \cup {pos[t]}
            BY <5>1, SetAttributesFacts
          <5>3. detail'[i] = q
            BY <4>2 DEF d
          <5> HIDE DEF q
          <5>4. /\ detail'[i].shape = d.shape
                /\ detail'[i].groups = d.groups
                /\ detail'[i].attrs = d.attrs \cup {pos[t]}
            BY <5>2, <5>3
          <5> QED
            BY <5>4 DEF d
        <4>5. detail'[i].attrs = {pos[t]}
          BY <4>1, <4>4
        <4> QED
          BY <4>1, <4>3, <4>4, <4>5
      <3>3. CASE ~ (i >= first)
        <4>1. ~ Unconverted(i)
          BY <2>1, <3>3 DEF Unconverted, first
        <4>2. detail'[i] = detail[i]
          BY <1>a, <2>2, <2>3, <3>1, <3>3
        <4> QED
          BY <4>1, <4>2 DEF BlockInv
      <3> QED
        BY <3>2, <3>3
    <2> QED
      BY <2>1, <2>3, <2>4 DEF BlockInv, Unconverted
  <1>9. CASE StartGeneration
    BY <1>9, <1>b, <1>d DEF StartGeneration
  <1>10. CASE FinishCook
    <2>1. lock = {} /\ lock' = {}
      BY <1>10, <1>a DEF FinishCook, Joined, PhaseInv, MutexInv, Inside
    <2>2. \A i \in DOMAIN detail' : i \in DOMAIN detail /\ detail'[i] = detail[i]
      BY <1>10 DEF FinishCook, WithoutHoles
    <2> QED
      BY <1>c, <2>1, <2>2 DEF BlockInv, Unconverted
  <1>11. CASE UNCHANGED vars
    BY <1>11, <1>d DEF vars
  <1> QED
    BY <1>1, <1>2, <1>3, <1>4, <1>5, <1>6, <1>7, <1>8, <1>9, <1>10, <1>11
    DEF Next, ThreadStep, Cook

(* The inductive invariant holds in every reachable state.                 *)
LEMMA InvariantHolds == Spec => []IInv
  <1>1. Init => IInv
    BY InitType, InitOwn DEF IInv
  <1>2. IInv /\ [Next]_vars => IInv'
    BY TypeStep, PhaseStep, MutexStep, BlockStep DEF IInv
  <1> QED
    BY <1>1, <1>2, PTL DEF Spec

(* However the threads of a batch interleave in ModelConverter::add, each  *)
(* primitive joins the group and receives the attributes of its own        *)
(* initial shape only, and of the primitives that a cook hands on each has *)
(* both.                                                                   *)
THEOREM OwnGroupAndAttributesHolds == Spec => []OwnGroupAndAttributes
  <1>1. IInv => OwnGroupAndAttributes
    <2> SUFFICES ASSUME TypeOK, PhaseInv, MutexInv, BlockInv
                 PROVE  OwnGroupAndAttributes
      BY DEF IInv
    <2>1. cook = "returned" => lock = {}
      BY DEF TypeOK, PhaseInv, MutexInv, Inside
    <2>2. cook = "returned" => \A i \in DOMAIN detail : ~ Unconverted(i)
      BY <2>1 DEF Unconverted
    <2> QED
      BY <2>2 DEF BlockInv, OwnGroupAndAttributes
  <1> QED
    BY <1>1, InvariantHolds, PTL

-----------------------------------------------------------------------------
(* The occluders.                                                          *)

(* If the loop index of batchGenerate can hold the number of threads, the  *)
(* occlusion batch is done with every initial shape before it is joined.   *)
LEMMA OccluderStep ==
    ASSUME MaxCores <= IndexHalf, IInv, OccluderInv, [Next]_vars
    PROVE  OccluderInv'
  <1>a. TypeOK /\ PhaseInv
    BY DEF IInv
  <1>b. /\ at \in [Threads -> ThreadStates] /\ pos \in [Threads -> Nat]
        /\ cook \in CookStates /\ cores \in 1 .. MaxCores /\ nis \in Nat
        /\ interrupted \in BOOLEAN
    BY <1>a DEF TypeOK
  <1>c. ASSUME UNCHANGED <<cores, nis>>
        PROVE  Running' = Running /\ Shapes' = Shapes
               /\ \A t : First(t)' = First(t) /\ Last(t)' = Last(t)
    BY <1>c DEF Running, Shapes, First, Last
  <1>1. ASSUME NEW n \in 1 .. MaxShapes, StartCook(n) PROVE OccluderInv'
    <2> DEFINE T == NThreads(cores, n)
    <2>1. /\ cook' = "occlusion" /\ nis' = n /\ cores' = cores
          /\ outcome' = [k \in 0 .. n - 1 |-> "pending"]
      BY <1>1 DEF StartCook
    <2>2. /\ at' = [t \in Threads |-> IF t \in Launched(T) THEN "occlude" ELSE "idle"]
          /\ pos' = [t \in Threads |-> IF t \in Launched(T) THEN Start(n, T, t) ELSE 0]
      BY <1>1 DEF StartCook, Launch
    <2>3. T \in Nat \ {0} /\ T <= MaxCores
      BY <1>b, NThreadsBounds
    <2>4. \A t \in Launched(T) : t \in Threads /\ Start(n, T, t) \in Nat
      BY <2>3, RunningInRange, RangeBounds, GenerateAssumption DEF Threads
    <2>5. Running' = Launched(T) /\ Shapes' = 0 .. n - 1
          /\ \A t : First(t)' = Start(n, T, t)
      BY <2>1 DEF Running, Shapes, First
    <2> HIDE DEF T
    <2>6. ASSUME NEW t \in Running'
          PROVE  First(t)' .. pos'[t] - 1 = {} /\ at'[t] # "over"
      <3>1. First(t)' = pos'[t] /\ pos'[t] \in Nat /\ at'[t] = "occlude"
        BY <2>2, <2>4, <2>5
      <3> QED
        BY <3>1
    <2>7. \A k \in Shapes' : outcome'[k] = "pending"
      BY <2>1, <2>5
    <2> QED
      BY <2>1, <2>6, <2>7 DEF OccluderInv
  <1>2. ASSUME NEW n \in 1 .. MaxShapes, CookInterrupted(n) PROVE OccluderInv'
    BY <1>2 DEF CookInterrupted, OccluderInv
  <1>3. CASE CookNothing
    <2>1. cook' = "returned" /\ Shapes' = {}
      BY <1>3 DEF CookNothing, Shapes
    <2> QED
      BY <2>1 DEF OccluderInv
  <1>4. CASE Interrupt
    BY <1>4 DEF Interrupt, OccluderInv
  <1>5. ASSUME NEW t \in Threads, Occlude(t) PROVE OccluderInv'
    <2>1. /\ at[t] = "occlude" /\ at' = at /\ outcome' = outcome
          /\ UNCHANGED <<cores, nis, cook, interrupted>>
          /\ occluded' = occluded \cup {pos[t]}
          /\ pos' = [pos EXCEPT ![t] = @ + 1]
      BY <1>5 DEF Occlude
    <2>2. cook = "occlusion"
      BY <1>a, <1>b, <2>1 DEF PhaseInv, CookStates, Inside
    <2>3. CASE interrupted
      BY <2>1, <2>3 DEF OccluderInv
    <2>4. CASE ~interrupted
      <3>1. ASSUME NEW u \in Running
            PROVE  /\ First(u) .. pos'[u] - 1 \subseteq occluded'
                   /\ at'[u] = "over" => pos'[u] = Last(u)
        <4>1. /\ First(u) .. pos[u] - 1 \subseteq occluded
              /\ at[u] = "over" => pos[u] = Last(u)
          BY <2>2, <2>4, <3>1 DEF OccluderInv
        <4>2. CASE u = t
          <5>1. pos'[u] - 1 = pos[t] /\ pos[t] \in Nat
            BY <1>b, <2>1, <4>2
          <5>2. First(u) .. pos[t] \subseteq (First(u) .. pos[t] - 1) \cup {pos[t]}
            BY <5>1
          <5> QED
            BY <2>1, <4>1, <4>2, <5>1, <5>2
        <4>3. CASE u # t
          BY <1>b, <2>1, <4>1, <4>3
        <4> QED
          BY <4>2, <4>3
      <3>2. \A k \in Shapes : outcome'[k] = "pending"
        BY <2>1, <2>2, <2>4 DEF OccluderInv
      <3> QED
        BY <1>c, <2>1, <2>2, <3>1, <3>2 DEF OccluderInv
    <2> QED
      BY <2>3, <2>4
  <1>5a. ASSUME NEW t \in Threads, OccluderCallFails(t) PROVE OccluderInv'
    <2>1. /\ at[t] = "occlude" /\ at' = [at EXCEPT ![t] = "over"] /\ outcome' = outcome
          /\ UNCHANGED <<cores, nis, cook, interrupted>>
          /\ occluded' = occluded \cup (pos[t] .. Last(t) - 1)
          /\ pos' = [pos EXCEPT ![t] = Last(t)]
      BY <1>5a DEF OccluderCallFails
    <2>2. cook = "occlusion"
      BY <1>a, <1>b, <2>1 DEF PhaseInv, CookStates, Inside
    <2>3. CASE interrupted
      BY <2>1, <2>3 DEF OccluderInv
    <2>4. CASE ~interrupted
      <3>1. ASSUME NEW u \in Running
            PROVE  /\ First(u) .. pos'[u] - 1 \subseteq occluded'
                   /\ at'[u] = "over" => pos'[u] = Last(u)
        <4>1. /\ First(u) .. pos[u] - 1 \subseteq occluded
              /\ at[u] = "over" => pos[u] = Last(u)
          BY <2>2, <2>4, <3>1 DEF OccluderInv
        <4>2. CASE u = t
          <5>1. pos'[t] = Last(t) /\ pos[t] \in Nat
            BY <1>b, <2>1
          <5>2. First(t) .. Last(t) - 1
                  \subseteq (First(t) .. pos[t] - 1) \cup (pos[t] .. Last(t) - 1)
            BY <5>1
          <5> QED
            BY <2>1, <4>1, <4>2, <5>1, <5>2
        <4>3. CASE u # t
          BY <1>b, <2>1, <4>1, <4>3
        <4> QED
          BY <4>2, <4>3
      <3>2. \A k \in Shapes : outcome'[k] = "pending"
        BY <2>1, <2>2, <2>4 DEF OccluderInv
      <3> QED
        BY <1>c, <2>1, <2>2, <3>1, <3>2 DEF OccluderInv
    <2> QED
      BY <2>3, <2>4
  <1>6. ASSUME NEW t \in Threads,
               \/ Fail(t) \/ GenerateCallFails(t) \/ Succeed(t)
               \/ AddMark(t) \/ AddBuild(t) \/ AddConvert(t)
        PROVE  OccluderInv'
    <2>1. /\ at[t] \in {"generate", "adding"} \cup Inside
          /\ UNCHANGED <<cores, nis, cook, interrupted, occluded>>
      BY <1>6 DEF Fail, GenerateCallFails, Succeed, AddMark, AddBuild, AddConvert, Inside
    <2>2. cook = "generation"
      BY <1>a, <1>b, <2>1 DEF PhaseInv, CookStates, Inside
    <2> QED
      BY <1>c, <2>1, <2>2 DEF OccluderInv
  <1>7. ASSUME NEW t \in Threads, Finish(t) PROVE OccluderInv'
    <2>1. /\ UNCHANGED <<cores, nis, cook, interrupted, occluded, outcome, pos>>
          /\ pos[t] = Last(t) \/ interrupted
          /\ at' = [at EXCEPT ![t] = "over"]
      BY <1>7 DEF Finish
    <2>2. \A u \in Running : at'[u] = "over" => u = t \/ at[u] = "over"
      BY <1>b, <2>1
    <2> QED
      BY <1>c, <2>1, <2>2 DEF OccluderInv
  <1>8. CASE StartGeneration
    <2> DEFINE T == NThreads(cores, nis)
    <2>1. /\ cook = "occlusion" /\ cook' = "generation" /\ Joined
          /\ UNCHANGED <<cores, nis, interrupted, occluded>>
      BY <1>8 DEF StartGeneration
    <2>2. CASE interrupted
      BY <2>1, <2>2 DEF OccluderInv
    <2>3. CASE ~interrupted
      <3>1. T \in Nat \ {0} /\ T <= MaxCores
        BY <1>a, <1>b, <2>1, NThreadsBounds DEF PhaseInv
      <3>2. Running = 0 .. T - 1
        BY <3>1, AllLaunched, GenerateAssumption DEF Running
      <3>3. ASSUME NEW k \in Shapes PROVE k \in occluded
        <4>1. PICK t \in 0 .. T - 1 : First(t) <= k /\ k < Last(t)
          BY <1>b, <3>1, RangesCover DEF Shapes, First, Last
        <4>2. First(t) .. Last(t) - 1 \subseteq occluded
          BY <2>1, <2>3, <3>2 DEF OccluderInv, Joined
        <4>3. First(t) \in Nat /\ Last(t) \in Nat /\ k \in Nat
          BY <1>b, <3>1, RangeBounds DEF First, Last, Shapes
        <4> QED
          BY <4>1, <4>2, <4>3
      <3> QED
        BY <1>c, <2>1, <3>3 DEF OccluderInv
    <2> QED
      BY <2>2, <2>3
  <1>9. CASE FinishCook
    BY <1>9, <1>c DEF FinishCook, OccluderInv
  <1>10. CASE UNCHANGED vars
    BY <1>10, <1>c DEF vars, OccluderInv
  <1> QED
    BY <1>1, <1>2, <1>3, <1>4, <1>5, <1>5a, <1>6, <1>7, <1>8, <1>9, <1>10
    DEF Next, ThreadStep, Cook

(* ModelConverter::buildHoles deletes primitives only after the last       *)
(* thread of the generation batch has added its last shape: FinishCook is  *)
(* the only step of a cook that removes one, and it waits for all futures. *)
THEOREM HolesAfterLastAddHolds == Spec => HolesAfterLastAdd
  <1> DEFINE Removed == DOMAIN detail \ DOMAIN detail' # {}
  <1>1. ASSUME [Next]_vars, cook = "generation", Removed
        PROVE  \A t \in Running : at[t] = "over"
    <2>1. ASSUME NEW n \in 1 .. MaxShapes, StartCook(n) \/ CookInterrupted(n)
          PROVE  FALSE
      BY <1>1, <2>1 DEF StartCook, CookInterrupted
    <2>2. CASE CookNothing
      BY <1>1, <2>2 DEF CookNothing
    <2>3. CASE Interrupt
      BY <1>1, <2>3 DEF Interrupt
    <2>4. ASSUME NEW t \in Threads, ThreadStep(t)
          PROVE  FALSE
      <3>1. CASE \/ Occlude(t) \/ Fail(t) \/ Succeed(t) \/ AddMark(t) \/ Finish(t)
                 \/ OccluderCallFails(t) \/ GenerateCallFails(t)
        BY <1>1, <3>1 DEF Occlude, Fail, Succeed, AddMark, Finish, OccluderCallFails,
                          GenerateCallFails
      <3>2. CASE AddBuild(t)
        BY <1>1, <3>2 DEF AddBuild
      <3>3. CASE AddConvert(t)
        BY <1>1, <3>3 DEF AddConvert
      <3> QED
        BY <2>4, <3>1, <3>2, <3>3 DEF ThreadStep
    <2>5. CASE StartGeneration
      BY <1>1, <2>5 DEF StartGeneration
    <2>6. CASE FinishCook
      BY <2>6 DEF FinishCook, Joined
    <2>7. CASE UNCHANGED vars
      BY <1>1, <2>7 DEF vars
    <2> QED
      BY <1>1, <2>1, <2>2, <2>3, <2>4, <2>5, <2>6, <2>7 DEF Next, Cook
  <1>2. [Next]_vars => [cook = "generation" /\ Removed
                          => \A t \in Running : at[t] = "over"]_vars
    BY <1>1
  <1> QED
    BY <1>2, PTL DEF Spec, HolesAfterLastAdd

(* The rule engine generates an initial shape with all occluders in place: *)
(* the two batches never overlap, and unless the user interrupted, no      *)
(* shape is generated before each has had its occluder pass or was left    *)
(* out by a failed call; provided that the int8_t loop index of            *)
(* batchGenerate can count the cores.                                      *)
THEOREM OcclusionBeforeGenerationHolds ==
    ASSUME MaxCores <= IndexHalf
    PROVE  Spec => []OcclusionBeforeGeneration
  <1>1. Init => OccluderInv
    BY DEF Init, OccluderInv, Shapes
  <1>2. IInv /\ OccluderInv /\ [Next]_vars => OccluderInv'
    BY OccluderStep
  <1>3. IInv /\ OccluderInv => OcclusionBeforeGeneration
    <2> SUFFICES ASSUME TypeOK, PhaseInv, OccluderInv
                 PROVE  OcclusionBeforeGeneration
      BY DEF IInv
    <2>1. \A t, u \in Threads :
             ~ (at[t] = "occlude" /\ at[u] \in {"generate", "adding"} \cup Inside)
      BY DEF TypeOK, PhaseInv, CookStates, Inside
    <2>2. (\E k \in Shapes : outcome[k] # "pending") /\ ~interrupted
            => Shapes \subseteq occluded
      BY DEF OccluderInv, TypeOK, CookStates
    <2> QED
      BY <2>1, <2>2 DEF OcclusionBeforeGeneration
  <1> QED
    BY <1>1, <1>2, <1>3, InvariantHolds, PTL DEF Spec

-----------------------------------------------------------------------------
(* The statuses.                                                           *)

(* The index that generateError is called with is one of the status        *)
(* vector, although it counts from the start of a thread's range.          *)
LEMMA SlotInRange ==
    ASSUME TypeOK, PhaseInv, StatusInv,
           NEW t \in Threads, at[t] \notin {"idle", "over"}, pos[t] < Last(t)
    PROVE  /\ t \in Running
           /\ pos[t] - First(t) \in Shapes
           /\ First(t) + (pos[t] - First(t)) = pos[t]
  <1>1. /\ nis \in Nat /\ First(t) \in Nat /\ Last(t) \in Nat
        /\ Last(t) <= nis /\ pos[t] \in Nat
    BY WorkingRange DEF TypeOK
  <1>2. First(t) <= pos[t]
    BY DEF StatusInv
  <1>3. t \in Running
    BY DEF TypeOK, PhaseInv, CookStates
  <1> QED
    BY <1>1, <1>2, <1>3 DEF Shapes

(* Reporting an error keeps the statuses accounted for.                    *)
LEMMA ReportStep ==
    ASSUME TypeOK, PhaseInv, StatusInv, NEW t \in Threads,
           at[t] \notin {"idle", "over"}, pos[t] < Last(t),
           UNCHANGED <<cores, nis, cook, at, result>>,
           pos' = [pos EXCEPT ![t] = @ + 1],
           GenerateError(t, pos[t]) \/ UNCHANGED <<status, erred>>
    PROVE  StatusInv'
  <1>1. /\ Running' = Running /\ Shapes' = Shapes
        /\ \A u : First(u)' = First(u) /\ Last(u)' = Last(u)
    BY DEF Running, Shapes, First, Last
  <1>2. /\ t \in Running /\ pos[t] - First(t) \in Shapes
        /\ First(t) + (pos[t] - First(t)) = pos[t]
    BY SlotInRange
  <1>3. /\ pos \in [Threads -> Nat] /\ First(t) \in Nat
        /\ status \in [Shapes -> {"OK", "ERROR"}]
    BY WorkingRange DEF TypeOK
  <1>4. ASSUME NEW u \in Threads, at[u] \notin {"idle", "over"}
        PROVE  First(u) <= pos'[u]
    <2>1. First(u) <= pos[u] /\ First(u) \in Nat
      BY <1>4, WorkingRange DEF StatusInv
    <2>2. pos'[u] = pos[u] \/ pos'[u] = pos[u] + 1
      BY <1>3
    <2> QED
      BY <1>3, <2>1, <2>2
  <1>5. ASSUME NEW s \in Shapes, status'[s] = "ERROR",
               cook \in {"occlusion", "generation"}
        PROVE  \E u \in Running : First(u) + s < Last(u) /\ First(u) + s \in erred'
    <2>1. erred \subseteq erred'
      BY DEF GenerateError
    <2>2. CASE status[s] = "ERROR"
      BY <1>5, <2>1, <2>2 DEF StatusInv
    <2>3. CASE status[s] # "ERROR"
      <3>1. s = pos[t] - First(t) /\ pos[t] \in erred'
        BY <1>3, <1>5, <2>3 DEF GenerateError
      <3> QED
        BY <1>2, <3>1
    <2> QED
      BY <2>2, <2>3
  <1> QED
    BY <1>1, <1>4, <1>5 DEF StatusInv

(* A batch that is launched has every thread at the start of its range.    *)
LEMMA LaunchAtStart ==
    ASSUME TypeOK, NEW n \in Nat \ {0}, NEW mode \in {"occlude", "generate"},
           Launch(n, mode), nis' = n, cores' = cores
    PROVE  \A t \in Threads : at'[t] \notin {"idle", "over"} => First(t)' <= pos'[t]
  <1> DEFINE T == NThreads(cores, n)
  <1>1. T \in Nat \ {0}
    BY NThreadsBounds DEF TypeOK
  <1>2. \A t \in Launched(T) : Start(n, T, t) \in Nat
    BY <1>1, RunningInRange, RangeBounds
  <1>3. \A t : First(t)' = Start(n, T, t)
    BY DEF First
  <1>4. /\ at' = [t \in Threads |-> IF t \in Launched(T) THEN mode ELSE "idle"]
        /\ pos' = [t \in Threads |-> IF t \in Launched(T) THEN Start(n, T, t) ELSE 0]
    BY DEF Launch
  <1> HIDE DEF T
  <1> QED
    BY <1>2, <1>3, <1>4

(* Every step keeps the statuses accounted for.                            *)
LEMMA StatusStep ==
    ASSUME TypeOK, PhaseInv, StatusInv, [Next]_vars
    PROVE  StatusInv'
  <1>a. /\ at \in [Threads -> ThreadStates] /\ pos \in [Threads -> Nat]
        /\ cook \in CookStates /\ nis \in Nat
    BY DEF TypeOK
  <1>b. ASSUME UNCHANGED <<cores, nis>>
        PROVE  /\ Running' = Running /\ Shapes' = Shapes
               /\ \A t : First(t)' = First(t) /\ Last(t)' = Last(t)
    BY <1>b DEF Running, Shapes, First, Last
  (* Most actions report nothing and take no thread back to work.          *)
  <1>c. ASSUME UNCHANGED <<cores, nis, cook, status, erred, result, pos>>,
               \A t \in Threads : at'[t] \notin {"idle", "over"}
                                    => at[t] \notin {"idle", "over"}
        PROVE  StatusInv'
    BY <1>b, <1>c DEF StatusInv
  <1>d. cook \in {"idle", "returned"} =>
          \A t \in Threads : at[t] \in {"idle", "over"}
    BY DEF PhaseInv
  <1>1. ASSUME NEW n \in 1 .. MaxShapes, StartCook(n) PROVE StatusInv'
    <2>1. \A t \in Threads : at'[t] \notin {"idle", "over"} => First(t)' <= pos'[t]
      BY <1>1, LaunchAtStart DEF StartCook
    <2>2. result' = "none" /\ \A s \in Shapes' : status'[s] = "OK"
      BY <1>1 DEF StartCook, Shapes
    <2> QED
      BY <2>1, <2>2 DEF StatusInv
  <1>2. ASSUME NEW n \in 1 .. MaxShapes, CookInterrupted(n) PROVE StatusInv'
    BY <1>2, <1>d DEF CookInterrupted, StatusInv
  <1>3. CASE CookNothing
    BY <1>3, <1>d DEF CookNothing, StatusInv
  <1>4. CASE Interrupt
    BY <1>4, <1>c DEF Interrupt
  <1>5. ASSUME NEW t \in Threads, Occlude(t) PROVE StatusInv'
    BY <1>5, ReportStep DEF Occlude
  <1>6. ASSUME NEW t \in Threads, Fail(t) PROVE StatusInv'
    BY <1>6, ReportStep DEF Fail
  <1>7. ASSUME NEW t \in Threads,
               Succeed(t) \/ AddMark(t) \/ AddBuild(t) \/ Finish(t)
        PROVE  StatusInv'
    <2>1. /\ UNCHANGED <<cores, nis, cook, status, erred, result, pos>>
          /\ at[t] \notin {"idle", "over"}
          /\ \E s \in ThreadStates : at' = [at EXCEPT ![t] = s]
      BY <1>7 DEF Succeed, AddMark, AddBuild, Finish, ThreadStates, Inside
    <2> QED
      BY <1>a, <1>c, <2>1
  <1>7a. ASSUME NEW t \in Threads, OccluderCallFails(t) \/ GenerateCallFails(t)
         PROVE StatusInv'
    <2>1. /\ UNCHANGED <<cores, nis, cook, status, erred, result>>
          /\ at' = [at EXCEPT ![t] = "over"] /\ pos' = [pos EXCEPT ![t] = Last(t)]
      BY <1>7a DEF OccluderCallFails, GenerateCallFails
    <2>2. ASSUME NEW u \in Threads, at'[u] \notin {"idle", "over"}
          PROVE  First(u) <= pos'[u]
      <3>1. u # t /\ at[u] \notin {"idle", "over"} /\ pos'[u] = pos[u]
        BY <1>a, <2>1, <2>2
      <3> QED
        BY <3>1 DEF StatusInv
    <2> QED
      BY <1>b, <2>1, <2>2 DEF StatusInv
  <1>8. ASSUME NEW t \in Threads, AddConvert(t) PROVE StatusInv'
    <2>1. /\ UNCHANGED <<cores, nis, cook, status, erred, result>>
          /\ at[t] = "built" /\ at' = [at EXCEPT ![t] = "generate"]
          /\ pos' = [pos EXCEPT ![t] = @ + 1]
      BY <1>8 DEF AddConvert
    <2>2. ASSUME NEW u \in Threads, at'[u] \notin {"idle", "over"}
          PROVE  First(u) <= pos'[u]
      <3>1. at[u] \notin {"idle", "over"}
        BY <1>a, <2>1, <2>2
      <3>2. First(u) <= pos[u] /\ First(u) \in Nat
        BY <3>1, WorkingRange DEF StatusInv
      <3>3. pos'[u] = pos[u] \/ pos'[u] = pos[u] + 1
        BY <1>a, <2>1
      <3> QED
        BY <1>a, <3>2, <3>3
    <2> QED
      BY <1>b, <2>1, <2>2 DEF StatusInv
  <1>9. CASE StartGeneration
    <2>1. nis \in Nat \ {0} /\ cook = "occlusion"
      BY <1>9, <1>a DEF StartGeneration, PhaseInv
    <2>2. \A t \in Threads : at'[t] \notin {"idle", "over"} => First(t)' <= pos'[t]
      BY <1>9, <2>1, LaunchAtStart DEF StartGeneration
    <2>3. UNCHANGED <<cores, nis, status, erred, result>>
      BY <1>9 DEF StartGeneration
    <2> QED
      BY <1>b, <2>1, <2>2, <2>3 DEF StatusInv
  <1>10. CASE FinishCook
    BY <1>10, <1>b DEF FinishCook, StatusInv
  <1>11. CASE UNCHANGED vars
    BY <1>11, <1>c DEF vars
  <1> QED
    BY <1>1, <1>2, <1>3, <1>4, <1>5, <1>6, <1>7, <1>7a, <1>8, <1>9, <1>10,
       <1>11
    DEF Next, ThreadStep, Cook

(* If the last slot of the status vector was reported, one thread had all  *)
(* the initial shapes.                                                     *)
LEMMA LastSlot ==
    ASSUME NEW n \in Nat \ {0}, NEW T \in Nat \ {0}, T <= n,
           NEW t \in 0 .. T - 1, Start(n, T, t) + (n - 1) < PastEnd(n, T, t)
    PROVE  T = 1
  <1> DEFINE R == n \div T
  <1>1. R \in Nat /\ T * R <= n /\ n < T * R + T
    BY DivFacts
  <1>2. R > 0
    BY <1>1, Z3
  <1>3. Start(n, T, t) = t * R
    BY DEF Start, RangeSize
  <1>4. Start(n, T, t) \in Nat /\ PastEnd(n, T, t) \in Nat /\ PastEnd(n, T, t) <= n
    BY RangeBounds
  <1>5. Start(n, T, t) = 0 /\ PastEnd(n, T, t) = n
    BY <1>4
  <1>6. PastEnd(n, T, t) = IF t < T - 1 THEN (t + 1) * R ELSE n
    BY DEF PastEnd, RangeSize
  <1> HIDE DEF R
  <1>7. t = 0
    <2>1. SUFFICES ASSUME t >= 1 PROVE FALSE
      OBVIOUS
    <2>2. 1 * R <= t * R
      BY <1>1, <2>1, ProductMonotone
    <2> QED
      BY <1>1, <1>2, <1>3, <1>5, <2>2
  <1>8. ASSUME T >= 2 PROVE FALSE
    <2>1. R = n
      BY <1>1, <1>5, <1>6, <1>7, <1>8
    <2>2. 2 * R <= T * R
      BY <1>1, <1>8, ProductMonotone
    <2>3. T * R \in Nat
      BY <1>1
    <2> QED
      BY <1>1, <2>1, <2>2, <2>3
  <1> QED
    BY <1>8

(* A cook with initial shapes aborts only if each of them reported an      *)
(* error, although generateError files errors under the wrong index: with  *)
(* several threads none is ever filed in the last slot, so no cook aborts  *)
(* after its batches, and with one thread each is filed where it belongs.  *)
THEOREM AbortOnlyIfAllErredHolds == Spec => []AbortOnlyIfAllErred
  <1>1. Init => StatusInv /\ AbortOnlyIfAllErred
    BY DEF Init, StatusInv, AbortOnlyIfAllErred
  <1>2. TypeOK /\ PhaseInv /\ StatusInv /\ [Next]_vars => StatusInv'
    BY StatusStep
  <1>3. ASSUME TypeOK, PhaseInv, StatusInv, AbortOnlyIfAllErred, [Next]_vars
        PROVE  AbortOnlyIfAllErred'
    <2>1. ASSUME NEW n \in 1 .. MaxShapes, StartCook(n) \/ CookInterrupted(n)
          PROVE  AbortOnlyIfAllErred'
      BY <2>1 DEF StartCook, CookInterrupted, AbortOnlyIfAllErred
    <2>2. CASE CookNothing
      BY <2>2 DEF CookNothing, AbortOnlyIfAllErred, Shapes
    <2>3. CASE Interrupt
      BY <1>3, <2>3 DEF Interrupt, AbortOnlyIfAllErred, Shapes
    <2>4. ASSUME NEW t \in Threads, ThreadStep(t) PROVE AbortOnlyIfAllErred'
      <3>1. at[t] \notin {"idle", "over"} /\ result' = result
        BY <2>4 DEF ThreadStep, Occlude, OccluderCallFails, Fail, GenerateCallFails,
                    Succeed, AddMark, AddBuild, AddConvert, Finish, Inside
      <3>2. cook \in {"occlusion", "generation"}
        BY <1>3, <3>1 DEF TypeOK, PhaseInv, CookStates
      <3>3. result = "none"
        BY <1>3, <3>2 DEF StatusInv
      <3> QED
        BY <3>1, <3>3 DEF AbortOnlyIfAllErred
    <2>5. CASE StartGeneration
      BY <1>3, <2>5 DEF StartGeneration, AbortOnlyIfAllErred, Shapes
    <2>6. CASE FinishCook
      <3> DEFINE T == NThreads(cores, nis)
      <3>1. SUFFICES ASSUME \A k \in Shapes : status[k] # "OK"
                     PROVE  Shapes \subseteq erred
        BY <1>3, <2>6 DEF FinishCook, AbortOnlyIfAllErred, TypeOK, Shapes
      <3>2. cook = "generation" /\ nis \in Nat \ {0} /\ cores \in 1 .. MaxCores
        BY <1>3, <2>6 DEF FinishCook, PhaseInv, TypeOK
      <3>3. \A s \in Shapes :
              \E t \in Running : First(t) + s < Last(t) /\ First(t) + s \in erred
        BY <1>3, <3>1, <3>2 DEF StatusInv, TypeOK
      <3>4. T \in Nat \ {0} /\ T <= nis
        BY <3>2, NThreadsBounds
      <3>5. \A t \in Running : t \in 0 .. T - 1
        BY <3>4, RunningInRange DEF Running
      <3>6. PICK t \in Running : First(t) + (nis - 1) < Last(t)
        BY <3>2, <3>3 DEF Shapes
      <3>7. T = 1
        BY <3>2, <3>4, <3>5, <3>6, LastSlot DEF First, Last
      <3>8. \A u \in Running : First(u) = 0
        BY <3>2, <3>4, <3>5, <3>7, RangesMeet DEF First
      <3> QED
        BY <3>2, <3>3, <3>8 DEF Shapes
    <2>7. CASE UNCHANGED vars
      BY <1>3, <2>7 DEF vars, AbortOnlyIfAllErred, Shapes
    <2> QED
      BY <1>3, <2>1, <2>2, <2>3, <2>4, <2>5, <2>6, <2>7 DEF Next, Cook
  <1> QED
    BY <1>1, <1>2, <1>3, TypeCorrect, PTL DEF Spec

-----------------------------------------------------------------------------
(* The output of a cook is complete.                                       *)


(* In the first batch nothing has been added or generated.                 *)
NothingYet ==
    cook = "occlusion" =>
      /\ \A k \in Shapes : outcome[k] = "pending"
      /\ DOMAIN detail = {}
      /\ \A t \in Threads : holeGroups[t] = {}

(* A thread of the second batch has dealt with the shapes of its range up  *)
(* to its position, and with all of them when it is over.                  *)
ProgressInv ==
    cook = "generation" =>
      \A t \in Running :
        /\ First(t) <= pos[t] /\ pos[t] <= Last(t)
        /\ at[t] \in {"adding"} \cup Inside => pos[t] < Last(t)
        /\ at[t] = "over" => pos[t] = Last(t) \/ interrupted
        /\ \A k \in First(t) .. Last(t) - 1 : outcome[k] = "pending" <=> pos[t] <= k

(* The hole groups of the converters have all holes and no faces.          *)
HolesInv ==
    cook = "generation" =>
      \A i \in DOMAIN detail :
        detail[i].role = "hole" <=> \E t \in Threads : i \in holeGroups[t]

IsFaceOf(k, i) == detail[i].shape = k /\ detail[i].role = "face"

Building(k) == \E t \in Threads : at[t] = "built" /\ pos[t] = k

(* A shape has one face from the moment at which its block is built, and   *)
(* no primitive before, or if it fails or is skipped.                      *)
FacesInv ==
    cook = "generation" =>
      \A k \in Shapes :
        \/ /\ outcome[k] = "generated" \/ Building(k)
           /\ \E i \in DOMAIN detail : \A j \in DOMAIN detail : IsFaceOf(k, j) <=> j = i
        \/ /\ outcome[k] # "generated" /\ ~Building(k)
           /\ \A j \in DOMAIN detail : detail[j].shape # k

CompleteInv == NothingYet /\ ProgressInv /\ HolesInv /\ FacesInv /\ OutputComplete

-----------------------------------------------------------------------------
(* A range ends where, or before, a later one starts.                      *)
LEMMA RangesOrdered ==
    ASSUME NEW n \in Nat, NEW T \in Nat \ {0}, NEW t \in 0 .. T - 1, NEW u \in 0 .. T - 1, t < u
    PROVE  PastEnd(n, T, t) <= Start(n, T, u)
<1> DEFINE R == n \div T
<1>1. R \in Nat
  BY DivFacts
<1>2. (t + 1) * R <= u * R
  BY <1>1, ProductMonotone
<1> HIDE DEF R
<1>3. PastEnd(n, T, t) = (t + 1) * R /\ Start(n, T, u) = u * R
  BY DEF PastEnd, Start, RangeSize, R
<1> QED  BY <1>2, <1>3

(* No shape is in the ranges of two threads.                               *)
LEMMA RangesDisjoint ==
    ASSUME NEW n \in Nat, NEW T \in Nat \ {0}, NEW t \in 0 .. T - 1, NEW u \in 0 .. T - 1,
           NEW k \in Nat,
           Start(n, T, t) <= k, k < PastEnd(n, T, t),
           Start(n, T, u) <= k, k < PastEnd(n, T, u)
    PROVE  t = u
<1>1. /\ Start(n, T, t) \in Nat /\ PastEnd(n, T, t) \in Nat
      /\ Start(n, T, u) \in Nat /\ PastEnd(n, T, u) \in Nat
  BY RangeBounds
<1>2. ~(t < u)
  BY <1>1, RangesOrdered
<1>3. ~(u < t)
  BY <1>1, RangesOrdered
<1> QED  BY <1>2, <1>3

(* The range of a thread of a batch.                                       *)
LEMMA RunningRange ==
    ASSUME TypeOK, nis > 0, NEW t \in Running
    PROVE  /\ t \in Threads
           /\ t \in 0 .. NThreads(cores, nis) - 1
           /\ NThreads(cores, nis) \in Nat \ {0}
           /\ First(t) \in Nat /\ Last(t) \in Nat
           /\ First(t) <= Last(t) /\ Last(t) <= nis
<1>1. nis \in Nat \ {0} /\ cores \in 1 .. MaxCores
  BY DEF TypeOK
<1>2. NThreads(cores, nis) \in Nat \ {0} /\ NThreads(cores, nis) <= MaxCores
  BY <1>1, NThreadsBounds
<1>3. t \in 0 .. NThreads(cores, nis) - 1
  BY <1>2, RunningInRange DEF Running
<1>4. t \in Threads
  BY <1>2, <1>3, GenerateAssumption DEF Threads
<1> QED  BY <1>1, <1>2, <1>3, <1>4, RangeBounds DEF First, Last

(* Two threads of a batch have no shape in common.                         *)
LEMMA RunningDisjoint ==
    ASSUME TypeOK, nis > 0, NEW t \in Running, NEW u \in Running, NEW k \in Nat,
           First(t) <= k, k < Last(t), First(u) <= k, k < Last(u)
    PROVE  t = u
<1>1. nis \in Nat
  BY DEF TypeOK
<1> QED  BY <1>1, RunningRange, RangesDisjoint DEF First, Last

(* A thread that is at work on a shape is the only one in whose range this *)
(* is, and nothing has been made of it yet.                                *)
LEMMA AtWork ==
    ASSUME IInv, ProgressInv, NEW t \in Threads,
           at[t] \in {"generate", "adding"} \cup Inside,
           at[t] = "generate" => pos[t] < Last(t)
    PROVE  /\ cook = "generation" /\ nis > 0 /\ t \in Running
           /\ pos[t] \in Shapes
           /\ First(t) <= pos[t] /\ pos[t] < Last(t)
           /\ outcome[pos[t]] = "pending"
           /\ \A u \in Running : First(u) <= pos[t] /\ pos[t] < Last(u) => u = t
<1>1. cook = "generation" /\ nis > 0 /\ t \in Running
  BY DEF IInv, TypeOK, PhaseInv, CookStates, Inside
<1>2. /\ First(t) \in Nat /\ Last(t) \in Nat /\ Last(t) <= nis
      /\ nis \in Nat /\ pos[t] \in Nat
  BY <1>1, RunningRange DEF IInv, TypeOK
<1>3. First(t) <= pos[t] /\ pos[t] < Last(t)
  BY <1>1 DEF ProgressInv
<1>4. outcome[pos[t]] = "pending"
  BY <1>1, <1>2, <1>3 DEF ProgressInv
<1>5. \A u \in Running : First(u) <= pos[t] /\ pos[t] < Last(u) => u = t
  BY <1>1, <1>2, <1>3, RunningDisjoint DEF IInv
<1> QED  BY <1>1, <1>2, <1>3, <1>4, <1>5 DEF Shapes

(* Ranges and shapes change only from cook to cook.                        *)
LEMMA SameRanges ==
    ASSUME UNCHANGED <<cores, nis>>
    PROVE  /\ Running' = Running /\ Shapes' = Shapes
           /\ \A t : First(t)' = First(t) /\ Last(t)' = Last(t)
  BY DEF Running, Shapes, First, Last

(* What a step of the second batch leaves as it is, as long as it makes no *)
(* primitives.                                                             *)
LEMMA OtherInvs ==
    ASSUME IInv, CompleteInv, cook = "generation", UNCHANGED <<cook, nis, cores>>
    PROVE  /\ NothingYet' /\ OutputComplete'
           /\ UNCHANGED <<detail, holeGroups>> => HolesInv'
  BY SameRanges DEF CompleteInv, NothingYet, OutputComplete, HolesInv

(* A thread is done with the shape it was at.                              *)
LEMMA AdvanceProgress ==
    ASSUME IInv, ProgressInv, NEW t \in Threads, NEW o \in {"failed", "generated"},
           at[t] \in {"generate", "adding"} \cup Inside,
           at[t] = "generate" => pos[t] < Last(t),
           at'[t] = "generate", \A u \in Threads \ {t} : at'[u] = at[u],
           outcome' = [outcome EXCEPT ![pos[t]] = o],
           pos' = [pos EXCEPT ![t] = pos[t] + 1],
           UNCHANGED <<cores, cook, nis, interrupted>>
    PROVE  ProgressInv'
<1>1. /\ cook = "generation" /\ nis > 0 /\ t \in Running /\ pos[t] \in Shapes
      /\ First(t) <= pos[t] /\ pos[t] < Last(t) /\ outcome[pos[t]] = "pending"
      /\ \A u \in Running : First(u) <= pos[t] /\ pos[t] < Last(u) => u = t
  BY AtWork
<1>2. /\ pos \in [Threads -> Nat] /\ outcome \in [Shapes -> {"pending", "failed", "skipped", "generated"}]
      /\ nis \in Nat
  BY DEF IInv, TypeOK
<1>3. ASSUME NEW u \in Running
      PROVE  /\ First(u) <= pos'[u] /\ pos'[u] <= Last(u)
             /\ at'[u] \in {"adding"} \cup Inside => pos'[u] < Last(u)
             /\ at'[u] = "over" => pos'[u] = Last(u) \/ interrupted
  <2>1. /\ u \in Threads /\ First(u) \in Nat /\ Last(u) \in Nat
        /\ First(u) <= pos[u] /\ pos[u] <= Last(u)
        /\ at[u] \in {"adding"} \cup Inside => pos[u] < Last(u)
        /\ at[u] = "over" => pos[u] = Last(u) \/ interrupted
    BY <1>1, RunningRange DEF ProgressInv, IInv
  <2>2. CASE u = t
    BY <1>1, <1>2, <2>1, <2>2 DEF Inside
  <2>3. CASE u # t
    BY <1>1, <1>2, <2>1, <2>3
  <2> QED  BY <2>2, <2>3
<1>4. ASSUME NEW u \in Running, NEW k \in First(u) .. Last(u) - 1
      PROVE  outcome'[k] = "pending" <=> pos'[u] <= k
  <2>1. /\ u \in Threads /\ First(u) \in Nat /\ Last(u) \in Nat /\ Last(u) <= nis
        /\ outcome[k] = "pending" <=> pos[u] <= k
    BY <1>1, RunningRange DEF ProgressInv, IInv
  <2>2. k \in Shapes
    BY <1>2, <2>1 DEF Shapes
  <2>3. CASE u = t
    BY <1>1, <1>2, <2>1, <2>2, <2>3
  <2>4. CASE u # t
    <3>1. k # pos[t]
      BY <1>1, <2>1, <2>4
    <3> QED  BY <1>2, <2>1, <2>2, <2>4, <3>1
  <2> QED  BY <2>3, <2>4
<1> QED  BY SameRanges, <1>3, <1>4 DEF ProgressInv

(* Any other step of a thread at work on a shape.                          *)
LEMMA SameProgress ==
    ASSUME IInv, ProgressInv, NEW t \in Threads,
           at[t] \in {"generate", "adding"} \cup Inside,
           at[t] = "generate" => pos[t] < Last(t),
           at'[t] \in {"adding"} \cup Inside, \A u \in Threads \ {t} : at'[u] = at[u],
           UNCHANGED <<cores, cook, nis, outcome, pos, interrupted>>
    PROVE  ProgressInv'
<1>1. cook = "generation" /\ nis > 0 /\ t \in Running /\ pos[t] < Last(t)
  BY AtWork
<1>2. Running \subseteq Threads
  BY <1>1, RunningRange DEF IInv
<1> QED  BY <1>1, <1>2, SameRanges DEF ProgressInv, Inside

(* One thread only builds the shape it is at.                              *)
LEMMA BuildingUnique ==
    ASSUME IInv, ProgressInv, NEW t \in Threads,
           at[t] \in {"generate", "adding"} \cup Inside,
           at[t] = "generate" => pos[t] < Last(t),
           NEW u \in Threads, at[u] = "built", pos[u] = pos[t]
    PROVE  u = t
<1>1. /\ u \in Running /\ First(u) <= pos[u] /\ pos[u] < Last(u)
  BY AtWork DEF Inside
<1> QED  BY <1>1, AtWork

(* prt::generate fails: nothing is left of the shape.                      *)
LEMMA FailComplete ==
    ASSUME IInv, CompleteInv, NEW t \in Threads, Fail(t)
    PROVE  CompleteInv'
<1>1. /\ at[t] = "generate" /\ pos[t] < Last(t)
      /\ outcome' = [outcome EXCEPT ![pos[t]] = "failed"]
      /\ pos' = [pos EXCEPT ![t] = pos[t] + 1]
      /\ UNCHANGED <<cores, cook, nis, at, detail, holeGroups, interrupted>>
  BY DEF Fail
<1>2. cook = "generation" /\ outcome[pos[t]] = "pending" /\ pos[t] \in Shapes
  BY <1>1, AtWork DEF CompleteInv
<1>3. NothingYet' /\ OutputComplete' /\ HolesInv'
  BY <1>1, <1>2, OtherInvs
<1>4. ProgressInv'
  BY <1>1, AdvanceProgress DEF CompleteInv
<1>5. /\ pos \in [Threads -> Nat]
      /\ outcome \in [Shapes -> {"pending", "failed", "skipped", "generated"}]
  BY DEF IInv, TypeOK
<1>6. FacesInv'
  <2>1. \A k \in Shapes : Building(k)' <=> Building(k)
    BY <1>1, <1>5 DEF Building
  <2>2. \A k \in Shapes : outcome'[k] = "generated" <=> outcome[k] = "generated"
    BY <1>1, <1>2, <1>5
  <2> QED  BY <1>1, <2>1, <2>2, SameRanges DEF FacesInv, CompleteInv, IsFaceOf
<1> QED  BY <1>3, <1>4, <1>6 DEF CompleteInv

(* prt::generate fails as a whole: nothing is left of the rest of a range. *)
LEMMA CallFailsComplete ==
    ASSUME IInv, CompleteInv, NEW t \in Threads, GenerateCallFails(t)
    PROVE  CompleteInv'
<1> DEFINE rest == pos[t] .. Last(t) - 1
<1>1. /\ at[t] = "generate" /\ pos[t] < Last(t)
      /\ outcome' = [k \in Shapes |-> IF k \in rest THEN "skipped" ELSE outcome[k]]
      /\ pos' = [pos EXCEPT ![t] = Last(t)]
      /\ at' = [at EXCEPT ![t] = "over"]
      /\ UNCHANGED <<cores, cook, nis, detail, holeGroups, interrupted>>
  BY DEF GenerateCallFails
<1>2. /\ cook = "generation" /\ nis > 0 /\ t \in Running
      /\ First(t) <= pos[t] /\ pos[t] < Last(t)
  BY <1>1, AtWork DEF CompleteInv
<1>3. NothingYet' /\ OutputComplete' /\ HolesInv'
  BY <1>1, <1>2, OtherInvs
<1>4. /\ pos \in [Threads -> Nat] /\ at \in [Threads -> ThreadStates] /\ nis \in Nat
      /\ outcome \in [Shapes -> {"pending", "failed", "skipped", "generated"}]
      /\ First(t) \in Nat /\ Last(t) \in Nat /\ Last(t) <= nis
  BY <1>2, RunningRange DEF IInv, TypeOK
<1>5. \A k \in rest : k \in Shapes /\ outcome[k] = "pending"
  <2>1. ASSUME NEW k \in rest
        PROVE  k \in First(t) .. Last(t) - 1 /\ pos[t] <= k /\ k \in Shapes
    BY <1>2, <1>4 DEF Shapes
  <2> QED  BY <1>2, <2>1 DEF CompleteInv, ProgressInv
<1>6. ProgressInv'
  <2>1. ASSUME NEW u \in Running
        PROVE  /\ First(u) <= pos'[u] /\ pos'[u] <= Last(u)
               /\ at'[u] \in {"adding"} \cup Inside => pos'[u] < Last(u)
               /\ at'[u] = "over" => pos'[u] = Last(u) \/ interrupted
    <3>1. /\ u \in Threads
          /\ First(u) <= pos[u] /\ pos[u] <= Last(u)
          /\ at[u] \in {"adding"} \cup Inside => pos[u] < Last(u)
          /\ at[u] = "over" => pos[u] = Last(u) \/ interrupted
      BY <1>2, RunningRange DEF CompleteInv, ProgressInv, IInv
    <3>2. CASE u = t
      BY <1>1, <1>2, <1>4, <3>1, <3>2 DEF Inside
    <3>3. CASE u # t
      BY <1>1, <1>4, <3>1, <3>3
    <3> QED  BY <3>2, <3>3
  <2>2. ASSUME NEW u \in Running, NEW k \in First(u) .. Last(u) - 1
        PROVE  outcome'[k] = "pending" <=> pos'[u] <= k
    <3>1. /\ u \in Threads /\ First(u) \in Nat /\ Last(u) \in Nat /\ Last(u) <= nis
          /\ outcome[k] = "pending" <=> pos[u] <= k
      BY <1>2, RunningRange DEF CompleteInv, ProgressInv, IInv
    <3>2. k \in Shapes /\ k \in Nat
      BY <1>4, <3>1 DEF Shapes
    <3>3. CASE u = t
      <4>1. pos'[t] = Last(t) /\ ~(Last(t) <= k)
        BY <1>1, <1>4, <3>1, <3>2, <3>3
      <4>2. k \in rest \/ (k \notin rest /\ ~(pos[t] <= k))
        BY <1>4, <3>1, <3>2, <3>3
      <4> QED  BY <1>1, <3>1, <3>2, <3>3, <4>1, <4>2
    <3>4. CASE u # t
      <4>1. k \notin rest
        <5>1. ASSUME k \in rest PROVE FALSE
          <6>1. First(t) <= k /\ k < Last(t) /\ First(u) <= k /\ k < Last(u)
            BY <1>2, <1>4, <3>1, <3>2, <5>1
          <6> QED  BY <1>2, <3>2, <3>4, <6>1, RunningDisjoint DEF IInv
        <5> QED  BY <5>1
      <4> QED  BY <1>1, <1>4, <3>1, <3>2, <3>4, <4>1
    <3> QED  BY <3>3, <3>4
  <2> QED  BY <1>1, <2>1, <2>2, SameRanges DEF ProgressInv
<1>7. FacesInv'
  <2>1. \A k \in Shapes : Building(k)' <=> Building(k)
    BY <1>1, <1>4 DEF Building
  <2>2. \A k \in Shapes : outcome'[k] = "generated" <=> outcome[k] = "generated"
    BY <1>1, <1>5
  <2> QED  BY <1>1, <2>1, <2>2, SameRanges DEF FacesInv, CompleteInv, IsFaceOf
<1> QED  BY <1>3, <1>6, <1>7 DEF CompleteInv

(* Succeed and AddMark: the thread comes nearer to building.               *)
LEMMA EnterComplete ==
    ASSUME IInv, CompleteInv, NEW t \in Threads, Succeed(t) \/ AddMark(t)
    PROVE  CompleteInv'
<1>1. /\ at[t] \in {"generate", "adding"}
      /\ at[t] = "generate" => pos[t] < Last(t)
      /\ at'[t] \in {"adding", "marked"} /\ \A u \in Threads \ {t} : at'[u] = at[u]
      /\ UNCHANGED <<cores, cook, nis, outcome, pos, detail, holeGroups, interrupted>>
  BY DEF Succeed, AddMark, IInv, TypeOK
<1>2. cook = "generation"
  BY <1>1, AtWork DEF CompleteInv
<1>3. NothingYet' /\ OutputComplete' /\ HolesInv'
  BY <1>1, <1>2, OtherInvs
<1>4. ProgressInv'
  BY <1>1, SameProgress DEF CompleteInv, Inside
<1>5. \A k : Building(k)' <=> Building(k)
  BY <1>1 DEF Building
<1>6. FacesInv'
  BY <1>1, <1>5, SameRanges DEF FacesInv, CompleteInv, IsFaceOf
<1> QED  BY <1>3, <1>4, <1>6 DEF CompleteInv

(* Joining a group and receiving attributes do not change the role.        *)
LEMMA KeepsRole ==
    ASSUME NEW p \in Primitives, NEW k \in Nat
    PROVE  JoinGroup(p, k).role = p.role /\ SetAttributes(p, k).role = p.role
<1>1. JoinGroup(p, k) = [p EXCEPT !.groups = p.groups \cup {k}]
  BY DEF JoinGroup
<1>2. SetAttributes(p, k) = [p EXCEPT !.attrs = p.attrs \cup {k}]
  BY DEF SetAttributes
<1> QED  BY <1>1, <1>2 DEF Primitives

(* buildBlock makes one face for the shape, and its holes.                 *)
LEMMA BuildComplete ==
    ASSUME IInv, CompleteInv, NEW t \in Threads, AddBuild(t)
    PROVE  CompleteInv'
<1> DEFINE f == block[t].faces
           p(i) == IF i <= end THEN detail[i]
                   ELSE Prim(pos[t], IF i = end + 1 THEN "face" ELSE "hole")
<1>1. /\ at[t] = "marked" /\ at' = [at EXCEPT ![t] = "built"]
      /\ DOMAIN detail' = DOMAIN detail \cup (end + 1 .. end + f)
      /\ \A i \in DOMAIN detail' :
           detail'[i] = IF i > block[t].marker THEN JoinGroup(p(i), pos[t]) ELSE p(i)
      /\ holeGroups' = [holeGroups EXCEPT ![t] = holeGroups[t] \cup (end + 2 .. end + f)]
      /\ UNCHANGED <<cores, cook, nis, outcome, pos, interrupted>>
  BY DEF AddBuild
<1>2. /\ cook = "generation" /\ outcome[pos[t]] = "pending" /\ pos[t] \in Shapes
  BY <1>1, AtWork DEF CompleteInv, Inside
<1>3. /\ end \in Nat /\ f \in 0 .. 2 /\ f > 0 /\ pos[t] \in Nat
      /\ DOMAIN detail \subseteq 1 .. end
      /\ \A i \in DOMAIN detail : detail[i] \in Primitives
      /\ holeGroups \in [Threads -> SUBSET (1 .. end)]
      /\ at \in [Threads -> ThreadStates]
  BY <1>1 DEF IInv, TypeOK, MutexInv, Inside
<1>4. /\ \A i \in DOMAIN detail : i \in DOMAIN detail' /\ i <= end
                                    /\ p(i) = detail[i]
      /\ \A i \in end + 1 .. end + f :
           i \in DOMAIN detail' /\ i \notin DOMAIN detail
             /\ p(i) = Prim(pos[t], IF i = end + 1 THEN "face" ELSE "hole")
  BY <1>1, <1>3
<1>5. \A i \in DOMAIN detail' : p(i) \in Primitives
  <2>1. \A role \in {"face", "hole"} : Prim(pos[t], role) \in Primitives
    BY <1>3, PrimType
  <2> QED  BY <1>1, <1>3, <1>4, <2>1
<1> HIDE DEF p, f
<1>6. \A i \in DOMAIN detail' : detail'[i].shape = p(i).shape /\ detail'[i].role = p(i).role
  <2>1. ASSUME NEW q \in Primitives
        PROVE  JoinGroup(q, pos[t]).shape = q.shape /\ JoinGroup(q, pos[t]).role = q.role
    BY <1>3, JoinGroupFacts, KeepsRole
  <2>2. ASSUME NEW i \in DOMAIN detail'
        PROVE  detail'[i].shape = p(i).shape /\ detail'[i].role = p(i).role
    <3>1. p(i) \in Primitives
      BY <1>5
    <3>2. detail'[i] = p(i) \/ detail'[i] = JoinGroup(p(i), pos[t])
      BY <1>1
    <3> QED  BY <2>1, <3>1, <3>2
  <2> QED  BY <2>2
<1>7. \A i \in DOMAIN detail : detail'[i].shape = detail[i].shape
                                 /\ detail'[i].role = detail[i].role
  BY <1>4, <1>6
<1>8. \A i \in end + 1 .. end + f :
        detail'[i].shape = pos[t] /\ detail'[i].role = IF i = end + 1 THEN "face" ELSE "hole"
  BY <1>4, <1>6 DEF Prim
<1>9. NothingYet' /\ OutputComplete'
  BY <1>1, <1>2, OtherInvs
<1>10. ProgressInv'
  BY <1>1, <1>3, SameProgress DEF CompleteInv, Inside
<1>11. HolesInv'
  <2>1. ASSUME NEW i \in DOMAIN detail
        PROVE  detail'[i].role = "hole" <=> \E u \in Threads : i \in holeGroups'[u]
    <3>1. detail[i].role = "hole" <=> \E u \in Threads : i \in holeGroups[u]
      BY <1>2 DEF CompleteInv, HolesInv
    <3>2. \A u \in Threads : i \in holeGroups'[u] <=> i \in holeGroups[u]
      BY <1>1, <1>3
    <3> QED  BY <1>7, <3>1, <3>2
  <2>2. ASSUME NEW i \in end + 1 .. end + f
        PROVE  detail'[i].role = "hole" <=> \E u \in Threads : i \in holeGroups'[u]
    <3>1. \A u \in Threads : i \notin holeGroups[u]
      BY <1>3
    <3>2. i \in holeGroups'[t] <=> i # end + 1
      BY <1>1, <1>3, <3>1
    <3>3. \A u \in Threads \ {t} : i \notin holeGroups'[u]
      BY <1>1, <1>3, <3>1
    <3> QED  BY <1>8, <3>2, <3>3
  <2> QED  BY <1>1, <2>1, <2>2 DEF HolesInv
<1>12. \A u \in Threads : at[u] # "built"
  BY <1>1 DEF IInv, MutexInv, Inside
<1>13. \A k \in Shapes : Building(k)' <=> k = pos[t]
  BY <1>1, <1>3, <1>12 DEF Building
<1>14. FacesInv'
  <2>1. ASSUME NEW k \in Shapes, k = pos[t]
        PROVE  \A j \in DOMAIN detail' : IsFaceOf(k, j)' <=> j = end + 1
    <3>1. \A j \in DOMAIN detail : detail[j].shape # k
      BY <1>2, <1>12, <2>1 DEF CompleteInv, FacesInv, Building
    <3>2. \A j \in DOMAIN detail : ~IsFaceOf(k, j)' /\ j # end + 1
      BY <1>3, <1>7, <3>1 DEF IsFaceOf
    <3>3. \A j \in end + 1 .. end + f : IsFaceOf(k, j)' <=> j = end + 1
      BY <1>8, <2>1 DEF IsFaceOf
    <3> QED  BY <1>1, <3>2, <3>3
  <2>2. end + 1 \in DOMAIN detail'
    BY <1>3, <1>4
  <2>3. ASSUME NEW k \in Shapes, k # pos[t]
        PROVE  /\ \A j \in DOMAIN detail : (IsFaceOf(k, j)' <=> IsFaceOf(k, j))
                                             /\ detail'[j].shape = detail[j].shape
               /\ \A j \in end + 1 .. end + f : ~IsFaceOf(k, j)' /\ detail'[j].shape # k
    BY <1>7, <1>8, <2>3 DEF IsFaceOf
  <2>4. ASSUME NEW k \in Shapes, k # pos[t]
        PROVE  \/ /\ outcome'[k] = "generated"
                  /\ \E i \in DOMAIN detail' : \A j \in DOMAIN detail' : IsFaceOf(k, j)' <=> j = i
               \/ /\ outcome'[k] # "generated"
                  /\ \A j \in DOMAIN detail' : detail'[j].shape # k
    <3>1. CASE outcome[k] = "generated"
      <4>1. PICK i \in DOMAIN detail : \A j \in DOMAIN detail : IsFaceOf(k, j) <=> j = i
        BY <1>2, <3>1 DEF CompleteInv, FacesInv
      <4>2. i \in DOMAIN detail' /\ i \notin end + 1 .. end + f
        BY <1>4
      <4>3. \A j \in DOMAIN detail' : IsFaceOf(k, j)' <=> j = i
        BY <1>1, <2>3, <2>4, <4>1, <4>2
      <4> QED  BY <1>1, <3>1, <4>2, <4>3
    <3>2. CASE outcome[k] # "generated"
      <4>1. \A j \in DOMAIN detail : detail[j].shape # k
        BY <1>2, <1>12, <3>2 DEF CompleteInv, FacesInv, Building
      <4> QED  BY <1>1, <2>3, <2>4, <3>2, <4>1
    <3> QED  BY <3>1, <3>2
  <2>5. Shapes' = Shapes
    BY <1>1, SameRanges
  <2> QED  BY <1>13, <2>1, <2>2, <2>4, <2>5 DEF FacesInv
<1> QED  BY <1>9, <1>10, <1>11, <1>14 DEF CompleteInv

(* The attributes arrive: the shape is generated.                          *)
LEMMA ConvertComplete ==
    ASSUME IInv, CompleteInv, NEW t \in Threads, AddConvert(t)
    PROVE  CompleteInv'
<1> DEFINE filled == block[t].first .. block[t].first + block[t].faces - 1
<1>1. /\ at[t] = "built" /\ at' = [at EXCEPT ![t] = "generate"]
      /\ DOMAIN detail' = DOMAIN detail
      /\ \A i \in DOMAIN detail :
           detail'[i] = IF i \in filled THEN SetAttributes(detail[i], pos[t]) ELSE detail[i]
      /\ outcome' = [outcome EXCEPT ![pos[t]] = "generated"]
      /\ pos' = [pos EXCEPT ![t] = pos[t] + 1]
      /\ UNCHANGED <<cores, cook, nis, holeGroups, interrupted>>
  BY DEF AddConvert
<1> HIDE DEF filled
<1>2. cook = "generation" /\ outcome[pos[t]] = "pending" /\ pos[t] \in Shapes
  BY <1>1, AtWork DEF CompleteInv, Inside
<1>3. /\ pos \in [Threads -> Nat] /\ at \in [Threads -> ThreadStates]
      /\ outcome \in [Shapes -> {"pending", "failed", "skipped", "generated"}]
      /\ \A i \in DOMAIN detail : detail[i] \in Primitives
  BY DEF IInv, TypeOK
<1>4. ASSUME NEW i \in DOMAIN detail
      PROVE  detail'[i].shape = detail[i].shape /\ detail'[i].role = detail[i].role
  <2>1. /\ SetAttributes(detail[i], pos[t]).shape = detail[i].shape
        /\ SetAttributes(detail[i], pos[t]).role = detail[i].role
    BY <1>3, SetAttributesFacts, KeepsRole
  <2>2. detail'[i] = detail[i] \/ detail'[i] = SetAttributes(detail[i], pos[t])
    BY <1>1
  <2> QED  BY <2>1, <2>2
<1>5. NothingYet' /\ OutputComplete'
  BY <1>1, <1>2, OtherInvs
<1>6. HolesInv'
  BY <1>1, <1>4 DEF CompleteInv, HolesInv
<1>7. ProgressInv'
  <2>1. at'[t] = "generate" /\ \A u \in Threads \ {t} : at'[u] = at[u]
    BY <1>1, <1>3
  <2> QED  BY <1>1, <2>1, AdvanceProgress DEF CompleteInv, Inside
<1>8. Building(pos[t])
  BY <1>1 DEF Building
<1>9. ASSUME NEW k \in Shapes
      PROVE  outcome'[k] = "generated" \/ Building(k)' <=> outcome[k] = "generated" \/ Building(k)
  <2>1. CASE k = pos[t]
    BY <1>1, <1>2, <1>3, <1>8, <2>1
  <2>2. CASE k # pos[t]
    <3>1. outcome'[k] = outcome[k]
      BY <1>1, <1>3, <2>2
    <3>2. Building(k)' <=> Building(k)
      BY <1>1, <1>3, <2>2 DEF Building
    <3> QED  BY <3>1, <3>2
  <2> QED  BY <2>1, <2>2
<1>10. FacesInv'
  <2>1. \A k \in Shapes : \A j \in DOMAIN detail : IsFaceOf(k, j)' <=> IsFaceOf(k, j)
    BY <1>4 DEF IsFaceOf
  <2>2. Shapes' = Shapes
    BY <1>1, SameRanges
  <2>3. ASSUME NEW k \in Shapes
        PROVE  \/ /\ outcome'[k] = "generated" \/ Building(k)'
                  /\ \E i \in DOMAIN detail' : \A j \in DOMAIN detail' : IsFaceOf(k, j)' <=> j = i
               \/ /\ outcome'[k] # "generated" /\ ~Building(k)'
                  /\ \A j \in DOMAIN detail' : detail'[j].shape # k
    <3>1. \/ /\ outcome[k] = "generated" \/ Building(k)
             /\ \E i \in DOMAIN detail : \A j \in DOMAIN detail : IsFaceOf(k, j) <=> j = i
          \/ /\ outcome[k] # "generated" /\ ~Building(k)
             /\ \A j \in DOMAIN detail : detail[j].shape # k
      BY <1>2 DEF CompleteInv, FacesInv
    <3> QED  BY <1>1, <1>4, <1>9, <2>1, <3>1
  <2> QED  BY <2>2, <2>3 DEF FacesInv
<1> QED  BY <1>5, <1>6, <1>7, <1>10 DEF CompleteInv

(* A thread comes to the end of its range, or was cancelled.               *)
LEMMA EndComplete ==
    ASSUME IInv, CompleteInv, NEW t \in Threads, Finish(t)
    PROVE  CompleteInv'
<1>1. /\ at[t] \in {"occlude", "generate"} /\ at' = [at EXCEPT ![t] = "over"]
      /\ pos[t] = Last(t) \/ interrupted
      /\ UNCHANGED <<cores, cook, nis, outcome, pos, detail, holeGroups, interrupted>>
  BY DEF Finish
<1>2. cook \in {"occlusion", "generation"} /\ at \in [Threads -> ThreadStates]
  BY <1>1 DEF IInv, TypeOK, PhaseInv, CookStates
<1>3. NothingYet' /\ OutputComplete' /\ HolesInv'
  BY <1>1, <1>2, SameRanges DEF CompleteInv, NothingYet, OutputComplete, HolesInv
<1>4. ProgressInv'
  BY <1>1, <1>2, SameRanges DEF CompleteInv, ProgressInv, Inside
<1>5. \A k : Building(k)' <=> Building(k)
  BY <1>1, <1>2 DEF Building
<1>6. FacesInv'
  BY <1>1, <1>5, SameRanges DEF FacesInv, CompleteInv, IsFaceOf
<1> QED  BY <1>3, <1>4, <1>6 DEF CompleteInv

(* The second batch starts with nothing done.                              *)
LEMMA GenerationComplete ==
    ASSUME IInv, CompleteInv, StartGeneration
    PROVE  CompleteInv'
<1> DEFINE T == NThreads(cores, nis)
<1>1. /\ cook = "occlusion" /\ cook' = "generation"
      /\ at' = [t \in Threads |-> IF t \in Running THEN "generate" ELSE "idle"]
      /\ pos' = [t \in Threads |-> IF t \in Running THEN First(t) ELSE 0]
      /\ UNCHANGED <<cores, nis, outcome, detail, holeGroups>>
  BY DEF StartGeneration, Launch, Running, First
<1>2. nis > 0 /\ nis \in Nat
  BY <1>1 DEF IInv, PhaseInv, TypeOK
<1>3. /\ \A k \in Shapes : outcome[k] = "pending"
      /\ DOMAIN detail = {} /\ \A t \in Threads : holeGroups[t] = {}
  BY <1>1 DEF CompleteInv, NothingYet
<1>4. NothingYet' /\ OutputComplete' /\ HolesInv'
  BY <1>1, <1>3 DEF NothingYet, OutputComplete, HolesInv
<1>5. ProgressInv'
  <2>1. ASSUME NEW t \in Running
        PROVE  /\ First(t) <= pos'[t] /\ pos'[t] <= Last(t) /\ at'[t] = "generate"
               /\ \A k \in First(t) .. Last(t) - 1 : outcome[k] = "pending" /\ pos'[t] <= k
    <3>1. /\ t \in Threads /\ First(t) \in Nat /\ Last(t) \in Nat
          /\ First(t) <= Last(t) /\ Last(t) <= nis
      BY <1>2, RunningRange DEF IInv
    <3>2. First(t) .. Last(t) - 1 \subseteq Shapes
      BY <1>2, <3>1 DEF Shapes
    <3> QED  BY <1>1, <1>3, <3>1, <3>2
  <2> QED  BY <1>1, <2>1, SameRanges DEF ProgressInv, Inside
<1>6. FacesInv'
  <2>1. \A k : ~Building(k)'
    BY <1>1 DEF Building
  <2> QED  BY <1>1, <1>3, <2>1, SameRanges DEF FacesInv
<1> QED  BY <1>4, <1>5, <1>6 DEF CompleteInv

(* When the second batch is joined every shape is dealt with, and the      *)
(* holes that buildHoles takes away are all there are.                     *)
LEMMA ReturnComplete ==
    ASSUME MaxCores <= IndexHalf, IInv, CompleteInv, FinishCook
    PROVE  CompleteInv'
<1> DEFINE T == NThreads(cores, nis)
           holes == UNION {holeGroups[t] : t \in Threads}
<1>1. /\ cook = "generation" /\ cook' = "returned"
      /\ \A t \in Running : at[t] = "over"
      /\ DOMAIN detail' = DOMAIN detail \ holes
      /\ \A i \in DOMAIN detail' : detail'[i] = detail[i]
      /\ UNCHANGED <<cores, nis, outcome, interrupted>>
  BY DEF FinishCook, Joined, WithoutHoles
<1>2. nis \in Nat \ {0} /\ cores \in 1 .. MaxCores
  BY <1>1 DEF IInv, TypeOK, PhaseInv
<1>3. \A i \in DOMAIN detail : detail[i] \in Primitives
  BY DEF IInv, TypeOK
<1>4. \A i \in DOMAIN detail : i \in holes <=> detail[i].role = "hole"
  BY <1>1 DEF CompleteInv, HolesInv
<1> HIDE DEF holes
<1>5. \A i \in DOMAIN detail' : i \in DOMAIN detail /\ detail'[i].role = "face"
  BY <1>1, <1>3, <1>4 DEF Primitives
<1>6. ASSUME ~interrupted, NEW k \in Shapes
      PROVE  outcome[k] # "pending"
  <2>1. T \in Nat \ {0} /\ T <= MaxCores
    BY <1>2, NThreadsBounds
  <2>2. Running = 0 .. T - 1
    BY <2>1, AllLaunched, GenerateAssumption DEF Running
  <2>3. PICK t \in 0 .. T - 1 : First(t) <= k /\ k < Last(t)
    BY <1>2, <2>1, RangesCover DEF Shapes, First, Last
  <2>4. pos[t] = Last(t)
    BY <1>1, <1>6, <2>2 DEF CompleteInv, ProgressInv
  <2>5. First(t) \in Nat /\ Last(t) \in Nat /\ k \in Nat
    BY <1>2, <2>1, RangeBounds DEF First, Last, Shapes
  <2>6. outcome[k] = "pending" <=> pos[t] <= k
    BY <1>1, <2>2, <2>3, <2>5 DEF CompleteInv, ProgressInv
  <2> QED  BY <2>3, <2>4, <2>5, <2>6
<1>7. \A t \in Threads : at[t] # "built"
  BY <1>1 DEF IInv, PhaseInv
<1>8. ASSUME NEW k \in Shapes
      PROVE  LET own == {i \in DOMAIN detail' : detail'[i].shape = k}
             IN  IF outcome[k] = "generated" THEN \E i \in own : own = {i} ELSE own = {}
  <2>1. CASE outcome[k] = "generated"
    <3>1. PICK i \in DOMAIN detail : \A j \in DOMAIN detail : IsFaceOf(k, j) <=> j = i
      BY <1>1, <2>1 DEF CompleteInv, FacesInv
    <3>2. detail[i].shape = k /\ detail[i].role = "face"
      BY <3>1 DEF IsFaceOf
    <3>3. i \in DOMAIN detail' /\ detail'[i].shape = k
      BY <1>1, <1>4, <3>2
    <3>4. ASSUME NEW j \in DOMAIN detail', detail'[j].shape = k
          PROVE  j = i
      BY <1>1, <1>5, <3>1, <3>4 DEF IsFaceOf
    <3> QED  BY <2>1, <3>3, <3>4
  <2>2. CASE outcome[k] # "generated"
    <3>1. \A j \in DOMAIN detail : detail[j].shape # k
      BY <1>1, <1>7, <2>2 DEF CompleteInv, FacesInv, Building
    <3> QED  BY <1>1, <1>5, <2>2, <3>1
  <2> QED  BY <2>1, <2>2
<1>9. OutputComplete'
  BY <1>1, <1>5, <1>6, <1>8, SameRanges DEF OutputComplete
<1> QED  BY <1>1, <1>9 DEF CompleteInv, NothingYet, ProgressInv, HolesInv, FacesInv

(* Every step keeps the account of what has been made.                     *)
LEMMA CompleteStep ==
    ASSUME MaxCores <= IndexHalf, IInv, CompleteInv, [Next]_vars
    PROVE  CompleteInv'
<1>1. ASSUME NEW n \in 1 .. MaxShapes, StartCook(n) PROVE CompleteInv'
  BY <1>1
  DEF StartCook, CompleteInv, NothingYet, ProgressInv, HolesInv, FacesInv, OutputComplete, Shapes
<1>2. ASSUME NEW n \in 1 .. MaxShapes, CookInterrupted(n) PROVE CompleteInv'
  BY <1>2
  DEF CookInterrupted, CompleteInv, NothingYet, ProgressInv, HolesInv, FacesInv, OutputComplete
<1>3. CASE CookNothing
  <2>1. Shapes' = {} /\ DOMAIN detail' = {} /\ cook' = "returned"
    BY <1>3 DEF CookNothing, Shapes
  <2> QED  BY <2>1
           DEF CompleteInv, NothingYet, ProgressInv, HolesInv, FacesInv, OutputComplete
<1>4. CASE Interrupt
  BY <1>4, SameRanges
  DEF Interrupt, CompleteInv, NothingYet, ProgressInv, HolesInv, FacesInv, OutputComplete,
      Building, IsFaceOf
<1>5. ASSUME NEW t \in Threads, Occlude(t) \/ OccluderCallFails(t) PROVE CompleteInv'
  <2>1. cook = "occlusion" /\ UNCHANGED <<cores, cook, nis, detail, holeGroups, outcome>>
    BY <1>5 DEF Occlude, OccluderCallFails, IInv, TypeOK, PhaseInv, CookStates, Inside
  <2> QED  BY <2>1, SameRanges
           DEF CompleteInv, NothingYet, ProgressInv, HolesInv, FacesInv, OutputComplete
<1>6. ASSUME NEW t \in Threads, ThreadStep(t) PROVE CompleteInv'
  BY <1>5, <1>6, FailComplete, CallFailsComplete, EnterComplete, BuildComplete, ConvertComplete, EndComplete
  DEF ThreadStep
<1>7. CASE Cook
  BY <1>7, GenerationComplete, ReturnComplete DEF Cook
<1>8. CASE UNCHANGED vars
  BY <1>8, SameRanges
  DEF vars, CompleteInv, NothingYet, ProgressInv, HolesInv, FacesInv, OutputComplete,
      Building, IsFaceOf
<1> QED  BY <1>1, <1>2, <1>3, <1>4, <1>6, <1>7, <1>8 DEF Next

(* A cook that was not interrupted leaves one face of each initial shape   *)
(* that generated, none of one that failed or was skipped by a failed      *)
(* call, no hole that is not merged, and some thread has got to every      *)
(* initial shape; provided that the int8_t loop index of batchGenerate can *)
(* count the cores.                                                        *)
THEOREM OutputCompleteHolds ==
    ASSUME MaxCores <= IndexHalf
    PROVE  Spec => []OutputComplete
<1>1. Init => CompleteInv
  BY DEF Init, CompleteInv, NothingYet, ProgressInv, HolesInv, FacesInv, OutputComplete
<1>2. IInv /\ CompleteInv /\ [Next]_vars => CompleteInv'
  BY CompleteStep
<1>3. CompleteInv => OutputComplete
  BY DEF CompleteInv
<1> QED  BY <1>1, <1>2, <1>3, InvariantHolds, PTL DEF Spec
=============================================================================
