----------------------------- MODULE SOPGenerate -----------------------------
(***************************************************************************)
(* One pldGenerate node: SOPGenerate::cookMySop splits its initial shapes  *)
(* into contiguous ranges, hands each range to a thread that calls         *)
(* prt::generateOccluders and, after a join, a thread that calls           *)
(* prt::generate, and every thread reports back through its own            *)
(* ModelConverter.  The converters share the Houdini detail, guarded by    *)
(* mDetailMutex, and the vector of initial shape statuses, guarded by      *)
(* nothing.                                                                *)
(*                                                                         *)
(* The rule engine is external: for each initial shape of its range, in    *)
(* order, a batch either succeeds or calls generateError, or the call as a *)
(* whole fails and leaves out the rest of its range.  The index passed to  *)
(* generateError counts from the start of the array given to that call, as *)
(* in SOPAssign, which hands over its whole array.                         *)
(***************************************************************************)
EXTENDS Integers

CONSTANTS MaxCores,    \* PRTContext::mCores is at most this
          MaxShapes,   \* bound on the initial shapes of one cook
          IndexHalf    \* 2^7: the thread index of batchGenerate is an int8_t

ASSUME GenerateAssumption ==
    /\ MaxCores \in Nat \ {0}
    /\ MaxShapes \in Nat
    /\ IndexHalf \in Nat \ {0}

VARIABLES cores,        \* PRTContext::mCores
          cook,         \* where the cooking thread is
          nis,          \* is.size(), the number of initial shapes
          at,           \* at[t]: where generate thread t is
          pos,          \* pos[t]: the initial shape thread t works on
          block,        \* block[t]: the primitives thread t is adding
          lock,         \* the threads inside mDetailMutex
          detail,       \* the primitives of the output detail, by offset
          end,          \* the last offset in use when nothing is deleted
          holeGroups,   \* holeGroups[t]: ModelConverter::mHoleGroups
          status,       \* initialShapeStatus
          occluded,     \* history: shapes whose occluder pass is over or
                        \* was left out by a call that failed
          erred,        \* history: shapes a generateError was about
          outcome,      \* history: what prt::generate made of each shape
          interrupted,  \* UT_AutoInterrupt::wasInterrupted
          result        \* what cookMySop returned

vars == <<cores, cook, nis, at, pos, block, lock, detail, end, holeGroups,
          status, occluded, erred, outcome, interrupted, result>>

Threads == 0 .. MaxCores - 1
Shapes == 0 .. nis - 1

(* The offset the detail's marker recorded, the first offset buildBlock    *)
(* filled, and the number of faces the encoder delivered: one, or one with *)
(* its hole.                                                               *)
NoBlock == [marker |-> 0, first |-> 0, faces |-> 0]

(* shape: the initial shape a primitive belongs to (history); groups and   *)
(* attrs: the shapes whose primitive group holds it and whose materials,   *)
(* reports and rule attributes were written to it.                         *)
Primitives == [shape : Nat, role : {"face", "hole"},
               groups : SUBSET Nat, attrs : SUBSET Nat]

Prim(k, role) == [shape |-> k, role |-> role, groups |-> {}, attrs |-> {}]

JoinGroup(p, k) == [p EXCEPT !.groups = @ \cup {k}]

SetAttributes(p, k) == [p EXCEPT !.attrs = @ \cup {k}]

(* A thread is not part of the batch, runs a batch between two shapes,     *)
(* waits to enter ModelConverter::add, is inside it at one of its two      *)
(* intermediate points, or is over, so that its future is ready.           *)
Inside == {"marked", "built"}
ThreadStates == {"idle", "occlude", "generate", "adding", "over"} \cup Inside

CookStates == {"idle", "occlusion", "generation", "returned"}

-----------------------------------------------------------------------------
(* Splitting the initial shapes.                                           *)

NThreads(c, n) == IF c < n THEN c ELSE n

(* std::ceil is given the result of an integer division.                   *)
RangeSize(n, T) == n \div T

Start(n, T, t) == t * RangeSize(n, T)

(* Variant: the last thread leaves out the remainder of the division.      *)
PastEnd_noRemainder(n, T, t) == (t + 1) * RangeSize(n, T)

(* Variant: the last range ends one past the array.                        *)
PastEnd_inclusive(n, T, t) == IF t < T - 1 THEN (t + 1) * RangeSize(n, T) ELSE n + 1

PastEnd(n, T, t) == IF t < T - 1 THEN (t + 1) * RangeSize(n, T) ELSE n

(* The value of an int8_t incremented x times from 0.                      *)
AsIndex(x) == LET r == x % (2 * IndexHalf)
              IN  IF r < IndexHalf THEN r ELSE r - 2 * IndexHalf

(* The loop ends at the first index that, converted to size_t, is not less *)
(* than the number of threads: a negative one is larger than any.          *)
Launched(T) == {t \in 0 .. T - 1 : \A u \in 0 .. t : AsIndex(u) >= 0}

Running == Launched(NThreads(cores, nis))


-----------------------------------------------------------------------------
Init ==
    /\ cores \in 1 .. MaxCores
    /\ cook = "idle"
    /\ nis = 0
    /\ at = [t \in Threads |-> "idle"]
    /\ pos = [t \in Threads |-> 0]
    /\ block = [t \in Threads |-> NoBlock]
    /\ lock = {}
    /\ detail = <<>>
    /\ end = 0
    /\ holeGroups = [t \in Threads |-> {}]
    /\ status = [k \in {} |-> "OK"]
    /\ occluded = {}
    /\ erred = {}
    /\ outcome = [k \in {} |-> "pending"]
    /\ interrupted = FALSE
    /\ result = "none"

(* batchGenerate: one thread per loop index, at the start of its range.    *)
Launch(n, mode) ==
    LET T == NThreads(cores, n) IN
    /\ at' = [t \in Threads |-> IF t \in Launched(T) THEN mode ELSE "idle"]
    /\ pos' = [t \in Threads |-> IF t \in Launched(T) THEN Start(n, T, t) ELSE 0]

(* cookMySop up to the first batch: there are initial shapes and the user  *)
(* has not interrupted, so the detail is cleared and new converters made.  *)
StartCook(n) ==
    /\ cook \in {"idle", "returned"}
    /\ cook' = "occlusion"
    /\ nis' = n
    /\ status' = [k \in 0 .. n - 1 |-> "OK"]
    /\ detail' = <<>>
    /\ end' = 0
    /\ holeGroups' = [t \in Threads |-> {}]
    /\ block' = [t \in Threads |-> NoBlock]
    /\ Launch(n, "occlude")
    /\ occluded' = {}
    /\ erred' = {}
    /\ outcome' = [k \in 0 .. n - 1 |-> "pending"]
    /\ interrupted' = FALSE
    /\ result' = "none"
    /\ UNCHANGED <<cores, lock>>

(* No initial shape could be extracted: the cook aborts.                   *)
CookNothing ==
    /\ cook \in {"idle", "returned"}
    /\ cook' = "returned"
    /\ nis' = 0
    /\ result' = "abort"
    /\ status' = [k \in {} |-> "OK"]
    /\ outcome' = [k \in {} |-> "pending"]
    /\ interrupted' \in BOOLEAN
    /\ detail' = <<>>
    /\ end' = 0
    /\ holeGroups' = [t \in Threads |-> {}]
    /\ occluded' = {}
    /\ erred' = {}
    /\ UNCHANGED <<cores, at, pos, block, lock>>

(* Interrupted before the batches: nothing is generated, the detail stays  *)
(* the copy of the input, and the status check finds every status OK.      *)
CookInterrupted(n) ==
    /\ cook \in {"idle", "returned"}
    /\ cook' = "returned"
    /\ nis' = n
    /\ status' = [k \in 0 .. n - 1 |-> "OK"]
    /\ outcome' = [k \in 0 .. n - 1 |-> "pending"]
    /\ interrupted' = TRUE
    /\ result' = "ok"
    /\ detail' = <<>>
    /\ end' = 0
    /\ holeGroups' = [t \in Threads |-> {}]
    /\ occluded' = {}
    /\ erred' = {}
    /\ UNCHANGED <<cores, at, pos, block, lock>>

(* The user presses escape while the batches run.                          *)
Interrupt ==
    /\ cook \in {"occlusion", "generation"}
    /\ interrupted' = TRUE
    /\ UNCHANGED <<cores, cook, nis, at, pos, block, lock, detail, end,
                   holeGroups, status, occluded, erred, outcome, result>>

-----------------------------------------------------------------------------
(* The threads.                                                            *)

First(t) == Start(nis, NThreads(cores, nis), t)
Last(t) == PastEnd(nis, NThreads(cores, nis), t)

(* ModelConverter::generateError writes the slot of the index it is given, *)
(* which counts from the start of the thread's range.                      *)
GenerateError(t, k) ==
    /\ status' = [status EXCEPT ![k - First(t)] = "ERROR"]
    /\ erred' = erred \cup {k}

(* prt::generateOccluders handles one shape.                               *)
Occlude(t) ==
    /\ at[t] = "occlude"
    /\ pos[t] < Last(t)
    /\ GenerateError(t, pos[t]) \/ UNCHANGED <<status, erred>>
    /\ occluded' = occluded \cup {pos[t]}
    /\ pos' = [pos EXCEPT ![t] = @ + 1]
    /\ UNCHANGED <<cores, cook, nis, at, block, lock, detail, end, holeGroups,
                   outcome, interrupted, result>>

(* prt::generate fails for one shape.                                      *)
Fail(t) ==
    /\ at[t] = "generate"
    /\ pos[t] < Last(t)
    /\ GenerateError(t, pos[t])
    /\ outcome' = [outcome EXCEPT ![pos[t]] = "failed"]
    /\ pos' = [pos EXCEPT ![t] = @ + 1]
    /\ UNCHANGED <<cores, cook, nis, at, block, lock, detail, end, holeGroups,
                   occluded, interrupted, result>>

(* prt::generate makes the models of one shape, and the encoder calls      *)
(* ModelConverter::add with them: from here on the thread has nothing else *)
(* to do than wait for the lock.                                           *)
Succeed(t) ==
    /\ at[t] = "generate"
    /\ pos[t] < Last(t)
    /\ at' = [at EXCEPT ![t] = "adding"]
    /\ UNCHANGED <<cores, cook, nis, pos, block, lock, detail, end, holeGroups,
                   status, occluded, erred, outcome, interrupted, result>>

(* Variant: add without the lock_guard.                                    *)
AddMark_unguarded(t) ==
    /\ at[t] = "adding"
    /\ \E f \in 1 .. 2 :
         block' = [block EXCEPT ![t] = [marker |-> end, first |-> 0, faces |-> f]]
    /\ at' = [at EXCEPT ![t] = "marked"]
    /\ UNCHANGED <<cores, cook, nis, pos, lock, detail, end, holeGroups, status,
                   occluded, erred, outcome, interrupted, result>>

(* ModelConverter::add takes the lock and marks the end of the detail.     *)
AddMark(t) ==
    /\ at[t] = "adding"
    /\ lock = {}
    /\ lock' = lock \cup {t}
    /\ \E f \in 1 .. 2 :
         block' = [block EXCEPT ![t] = [marker |-> end, first |-> 0, faces |-> f]]
    /\ at' = [at EXCEPT ![t] = "marked"]
    /\ UNCHANGED <<cores, cook, nis, pos, detail, end, holeGroups, status,
                   occluded, erred, outcome, interrupted, result>>

(* createPrimitives: buildBlock appends the faces; a hole and its face     *)
(* form a hole group; whatever follows the marker joins the primitive      *)
(* group of the shape (GroupCreation::PRIMCLS).                            *)
AddBuild(t) ==
    LET faces == block[t].faces
        role(i) == IF i = end + 1 THEN "face" ELSE "hole"
    IN
    /\ at[t] = "marked"
    /\ detail' = [i \in DOMAIN detail \cup (end + 1 .. end + faces) |->
                    LET p == IF i <= end THEN detail[i] ELSE Prim(pos[t], role(i))
                    IN  IF i > block[t].marker THEN JoinGroup(p, pos[t]) ELSE p]
    /\ end' = end + faces
    /\ block' = [block EXCEPT ![t].first = end + 1]
    /\ holeGroups' = [holeGroups EXCEPT ![t] = @ \cup (end + 2 .. end + faces)]
    /\ at' = [at EXCEPT ![t] = "built"]
    /\ UNCHANGED <<cores, cook, nis, pos, lock, status, occluded, erred, outcome,
                   interrupted, result>>

(* Variant: add leaves without releasing the mutex.                        *)
AddConvert_keepsLock(t) ==
    /\ at[t] = "built"
    /\ outcome' = [outcome EXCEPT ![pos[t]] = "generated"]
    /\ pos' = [pos EXCEPT ![t] = @ + 1]
    /\ at' = [at EXCEPT ![t] = "generate"]
    /\ UNCHANGED <<cores, cook, nis, block, lock, detail, end, holeGroups, status,
                   occluded, erred, interrupted, result>>

(* The face ranges of the shape receive its attributes; add returns and    *)
(* the guard is released.                                                  *)
AddConvert(t) ==
    LET filled == block[t].first .. block[t].first + block[t].faces - 1 IN
    /\ at[t] = "built"
    /\ detail' = [i \in DOMAIN detail |->
                    IF i \in filled THEN SetAttributes(detail[i], pos[t])
                                    ELSE detail[i]]
    /\ lock' = lock \ {t}
    /\ outcome' = [outcome EXCEPT ![pos[t]] = "generated"]
    /\ pos' = [pos EXCEPT ![t] = @ + 1]
    /\ at' = [at EXCEPT ![t] = "generate"]
    /\ block' = [block EXCEPT ![t] = NoBlock]
    /\ UNCHANGED <<cores, cook, nis, end, holeGroups, status, occluded, erred,
                   interrupted, result>>

(* prt::generateOccluders fails as a whole: batchGenerate logs the status, *)
(* and the rest of the range gets no occluders.                            *)
OccluderCallFails(t) ==
    /\ at[t] = "occlude"
    /\ pos[t] < Last(t)
    /\ occluded' = occluded \cup (pos[t] .. Last(t) - 1)
    /\ pos' = [pos EXCEPT ![t] = Last(t)]
    /\ at' = [at EXCEPT ![t] = "over"]
    /\ UNCHANGED <<cores, cook, nis, block, lock, detail, end, holeGroups,
                   status, erred, outcome, interrupted, result>>

(* prt::generate fails as a whole: again nothing but the log knows that    *)
(* the rest of the range was skipped.                                      *)
GenerateCallFails(t) ==
    /\ at[t] = "generate"
    /\ pos[t] < Last(t)
    /\ outcome' = [k \in Shapes |-> IF k \in pos[t] .. Last(t) - 1
                                    THEN "skipped" ELSE outcome[k]]
    /\ pos' = [pos EXCEPT ![t] = Last(t)]
    /\ at' = [at EXCEPT ![t] = "over"]
    /\ UNCHANGED <<cores, cook, nis, block, lock, detail, end, holeGroups,
                   status, occluded, erred, interrupted, result>>

(* Variant: a thread builds the holes of its converter when its own range  *)
(* is over.                                                                *)
Finish_buildsHoles(t) ==
    /\ at[t] \in {"occlude", "generate"}
    /\ pos[t] = Last(t) \/ interrupted
    /\ at' = [at EXCEPT ![t] = "over"]
    /\ detail' = [i \in DOMAIN detail \ holeGroups[t] |-> detail[i]]
    /\ UNCHANGED <<cores, cook, nis, pos, block, lock, end, holeGroups,
                   status, occluded, erred, outcome, interrupted, result>>

(* The end of the range, or ModelConverter::progress saw the interrupt and *)
(* answered CANCEL_AND_FINISH.                                             *)
Finish(t) ==
    /\ at[t] \in {"occlude", "generate"}
    /\ pos[t] = Last(t) \/ interrupted
    /\ at' = [at EXCEPT ![t] = "over"]
    /\ UNCHANGED <<cores, cook, nis, pos, block, lock, detail, end, holeGroups,
                   status, occluded, erred, outcome, interrupted, result>>

-----------------------------------------------------------------------------
(* The cooking thread between and after the batches.                       *)

(* Variant: only the first future that is ready is waited for.             *)
Joined_any == \E t \in Running : at[t] = "over"

Joined == \A t \in Running : at[t] = "over"

(* The futures of the occlusion batch are ready: launch the second batch.  *)
StartGeneration ==
    /\ cook = "occlusion"
    /\ Joined
    /\ cook' = "generation"
    /\ Launch(nis, "generate")
    /\ UNCHANGED <<cores, nis, block, lock, detail, end, holeGroups, status,
                   occluded, erred, outcome, interrupted, result>>

(* ModelConverter::buildHoles merges the holes of a converter's groups     *)
(* into their faces, which deletes the hole primitives.                    *)
WithoutHoles(groups) == [i \in DOMAIN detail \ groups |-> detail[i]]

(* Variant: abort as soon as one initial shape failed.                     *)
FinishCook_strict ==
    /\ cook = "generation"
    /\ Joined
    /\ cook' = "returned"
    /\ detail' = WithoutHoles(UNION {holeGroups[t] : t \in Threads})
    /\ result' = IF \A k \in Shapes : status[k] = "OK" THEN "ok" ELSE "abort"
    /\ UNCHANGED <<cores, nis, at, pos, block, lock, end, holeGroups, status,
                   occluded, erred, outcome, interrupted>>

(* The futures of the generation batch are ready: build the holes of every *)
(* converter, release the inputs, and abort if no status is OK.            *)
FinishCook ==
    /\ cook = "generation"
    /\ Joined
    /\ cook' = "returned"
    /\ detail' = WithoutHoles(UNION {holeGroups[t] : t \in Threads})
    /\ result' = IF \E k \in Shapes : status[k] = "OK" THEN "ok" ELSE "abort"
    /\ UNCHANGED <<cores, nis, at, pos, block, lock, end, holeGroups, status,
                   occluded, erred, outcome, interrupted>>

-----------------------------------------------------------------------------
ThreadStep(t) ==
    \/ Occlude(t)
    \/ OccluderCallFails(t)
    \/ Fail(t)
    \/ GenerateCallFails(t)
    \/ Succeed(t)
    \/ AddMark(t)
    \/ AddBuild(t)
    \/ AddConvert(t)
    \/ Finish(t)

Cook ==
    \/ StartGeneration
    \/ FinishCook

Next ==
    \/ \E n \in 1 .. MaxShapes : StartCook(n) \/ CookInterrupted(n)
    \/ CookNothing
    \/ Interrupt
    \/ \E t \in Threads : ThreadStep(t)
    \/ Cook

(* The operating system schedules every std::async thread that can run,    *)
(* prt::generate comes to the end of each shape, and a thread that waits   *)
(* for mDetailMutex gets it in the end.                                    *)
Fairness ==
    /\ WF_vars(Cook)
    /\ \A t \in Threads : WF_vars(ThreadStep(t))

Spec == Init /\ [][Next]_vars

FairSpec == Spec /\ Fairness

-----------------------------------------------------------------------------
TypeOK ==
    /\ cores \in 1 .. MaxCores
    /\ cook \in CookStates
    /\ nis \in 0 .. MaxShapes
    /\ at \in [Threads -> ThreadStates]
    /\ pos \in [Threads -> Nat]
    /\ block \in [Threads -> [marker : Nat, first : Nat, faces : 0 .. 2]]
    /\ lock \subseteq Threads
    /\ end \in Nat
    /\ DOMAIN detail \subseteq 1 .. end
    /\ \A i \in DOMAIN detail : detail[i] \in Primitives
    /\ holeGroups \in [Threads -> SUBSET (1 .. end)]
    /\ status \in [Shapes -> {"OK", "ERROR"}]
    /\ occluded \subseteq Shapes
    /\ erred \subseteq Shapes
    /\ outcome \in [Shapes -> {"pending", "failed", "skipped", "generated"}]
    /\ interrupted \in BOOLEAN
    /\ result \in {"none", "ok", "abort"}

(* A cook that was not interrupted leaves in the detail exactly one face   *)
(* for each initial shape that generated, none for one that failed or was  *)
(* skipped by a failed call, no unmerged hole, and no initial shape that   *)
(* no thread got to: the ranges of the threads that batchGenerate launches *)
(* cover is[] without overlap.                                             *)
OutputComplete ==
    cook = "returned" /\ ~interrupted =>
      /\ \A i \in DOMAIN detail : detail[i].role = "face"
      /\ \A k \in Shapes :
           /\ outcome[k] # "pending"
           /\ LET own == {i \in DOMAIN detail : detail[i].shape = k}
              IN  IF outcome[k] = "generated"
                  THEN \E i \in own : own = {i}
                  ELSE own = {}

(* Threads append to one detail and address what they appended by offset:  *)
(* no primitive ever joins the group of another initial shape or receives  *)
(* its attributes, and in the detail a cook hands on each primitive has    *)
(* both its own.                                                           *)
OwnGroupAndAttributes ==
    \A i \in DOMAIN detail :
      LET own == {detail[i].shape} IN
      /\ detail[i].groups \subseteq own /\ detail[i].attrs \subseteq own
      /\ cook = "returned" =>
           detail[i].groups = own /\ detail[i].attrs = own

(* prt::generate reads the occlusion set that prt::generateOccluders fills *)
(* for all initial shapes: no thread is in the first batch while another   *)
(* is in the second, and unless the user interrupted, nothing is generated *)
(* before every initial shape has its occluder or was left out by a call   *)
(* that failed.                                                            *)
OcclusionBeforeGeneration ==
    /\ \A t, u \in Threads :
         ~ (at[t] = "occlude" /\ at[u] \in {"generate", "adding"} \cup Inside)
    /\ (\E k \in Shapes : outcome[k] # "pending") /\ ~interrupted
         => Shapes \subseteq occluded

(* ModelConverter.cpp, createPrimitives: "we must not run buildHoles       *)
(* (which potentially deletes prims) while we still might add more prims". *)
(* Within a cook, a primitive disappears only when the whole range of      *)
(* every thread of the second batch is over.                               *)
HolesAfterLastAdd ==
    [][cook = "generation" /\ DOMAIN detail \ DOMAIN detail' # {}
        => \A t \in Running : at[t] = "over"]_vars

(* "failure of individual shapes is sometimes expected": a cook with       *)
(* initial shapes aborts only if each of them reported an error.           *)
AbortOnlyIfAllErred ==
    result = "abort" => erred = Shapes

(* "if all shapes fail, we abort cooking".                                 *)
AllFailedAborts ==
    /\ cook = "returned" /\ nis > 0 /\ ~interrupted
    /\ \A k \in Shapes : outcome[k] = "failed"
    => result = "abort"

(* The cook that waits for the futures of both batches gets its answer,    *)
(* whether shapes fail, threads queue for the detail or the user           *)
(* interrupts.                                                             *)
CookReturns == cook = "occlusion" ~> cook = "returned"

-----------------------------------------------------------------------------
(* What the invariants above rest on.                                      *)

(* The threads are those of the batch that the cooking thread waits for,   *)
(* one for each range, and outside a batch none is at work.                *)
PhaseInv ==
    /\ cook = "occlusion" =>
         nis > 0 /\ \A t \in Threads : at[t] \in {"idle", "occlude", "over"}
    /\ cook = "generation" =>
         /\ nis > 0
         /\ \A t \in Threads :
              at[t] \in {"idle", "generate", "adding", "over"} \cup Inside
    /\ cook \in {"idle", "returned"} =>
         \A t \in Threads : at[t] \in {"idle", "over"}
    /\ cook \in {"occlusion", "generation"} =>
         \A t \in Threads : at[t] # "idle" <=> t \in Running

(* One thread at most is inside ModelConverter::add, and while it is there *)
(* the end of the detail is what it saw or made.                           *)
MutexInv ==
    /\ \A t \in Threads : t \in lock <=> at[t] \in Inside
    /\ \A t, u \in lock : t = u
    /\ \A t \in lock :
         /\ block[t].faces > 0
         /\ at[t] = "marked" => block[t].marker = end
         /\ at[t] = "built" => block[t].first + block[t].faces = end + 1

(* The primitives of the block that was built last belong to the shape its *)
(* thread is at, and only they may still lack their attributes.            *)
Unconverted(i) ==
    \E t \in lock : at[t] = "built" /\ i >= block[t].first

BlockInv ==
    \A i \in DOMAIN detail :
      /\ detail[i].groups = {detail[i].shape}
      /\ detail[i].attrs = IF Unconverted(i) THEN {} ELSE {detail[i].shape}
      /\ \A t \in lock :
           at[t] = "built" /\ i >= block[t].first => detail[i].shape = pos[t]

IInv == TypeOK /\ PhaseInv /\ MutexInv /\ BlockInv

(* Every shape before the position of a thread in the first batch is done  *)
(* with, and so is every shape once the batch is joined.                   *)
OccluderInv ==
    \/ interrupted
    \/ /\ cook = "occlusion" =>
            /\ \A k \in Shapes : outcome[k] = "pending"
            /\ \A t \in Running :
                 /\ First(t) .. pos[t] - 1 \subseteq occluded
                 /\ at[t] = "over" => pos[t] = Last(t)
       /\ cook = "generation" => Shapes \subseteq occluded
       /\ cook \in {"idle", "returned"} =>
            \/ \A k \in Shapes : outcome[k] = "pending"
            \/ Shapes \subseteq occluded

(* A status is ERROR only if the shape at this distance from the start of  *)
(* some thread's range reported an error; a thread at work has not gone    *)
(* back before its range, so the distance is never negative.               *)
StatusInv ==
    /\ \A t \in Threads : at[t] \notin {"idle", "over"} => First(t) <= pos[t]
    /\ cook \in {"occlusion", "generation"} =>
         /\ result = "none"
         /\ \A s \in Shapes : status[s] = "ERROR" =>
              \E t \in Running : First(t) + s < Last(t) /\ First(t) + s \in erred
=============================================================================
