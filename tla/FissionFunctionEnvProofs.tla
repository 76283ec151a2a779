------------------------ MODULE FissionFunctionEnvProofs ------------------------
(***************************************************************************)
(* Machine-checked proofs about FunctionEnv.Invoke and Notify, for every   *)
(* set of functions, expected time and request time: the FnActive gauge    *)
(* never falls below the requests in flight, and every call that sent its  *)
(* request is observed by FnExecTime exactly once.                         *)
(***************************************************************************)
EXTENDS FissionFunctionEnv, FiniteSetTheorems, WellFoundedInduction, TLAPS

USE FnsAssumption, ExpectedAtAssumption, RequestTimeAssumption

\* The instant Notify submits its tap for.
TapAt == ExpectedAt - provisionDuration

\* The calls that took timeStart (got past validation and FormatRequest).
Started == {f \in Fns : timeStart[f] # NoTime}

\* A call takes timeStart when it sends its request, and not before.
CallShape ==
    \A f \in Fns : /\ pc[f] = "waiting" => timeStart[f] = NoTime
                   /\ pc[f] = "requesting" => timeStart[f] \in Nat

\* Every tap in the pool is due at TapAt.
PoolAt == \A p \in pool : p.at = TapAt

\* FnActive counts every request in flight, and no more calls than started:
\* a transport error returns without the decrement, so the gauge may stay
\* above the calls in flight, but it never counts a call that never started.
GaugeBounds ==
    Cardinality(Requesting) <= fnActive /\ fnActive <= Cardinality(Started)

\* The inductive strengthening of TypeOK, GaugeNeverUnderCounts and
\* ObservedOnce.
FnInv == TypeOK /\ CallShape /\ PoolAt /\ GaugeBounds /\ ObservedOnce

-----------------------------------------------------------------------------
(* Lemmas.                                                                  *)

\* Every set of functions is finite, with a cardinality at most |Fns|.
LEMMA FnSetFinite ==
    ASSUME NEW S \in SUBSET Fns
    PROVE  /\ IsFiniteSet(S) /\ Cardinality(S) \in Nat
           /\ Cardinality(S) <= Cardinality(Fns)
BY FS_Subset, FS_CardinalityType

\* Notify's tap is due at a natural instant.
LEMMA TapAtNat == TapAt \in Nat
BY DEF TapAt, provisionDuration, Millisecond

\* A nonempty set of naturals has a least element, which Min picks.
LEMMA MinNat ==
    ASSUME NEW T \in SUBSET Nat, T # {}
    PROVE  Min(T) \in T /\ \A y \in T : Min(T) <= y
<1>1. PICK x \in T : \A y \in T : ~(<<y, x>> \in OpToRel(<, Nat))
  BY NatLessThanWellFounded, WFMin
<1>2. \A y \in T : ~(y < x)
  BY <1>1, Zenon DEF OpToRel
<1>3. \A y \in T : x <= y
  BY <1>2
<1>4. QED
  BY <1>3 DEF Min

LEMMA InitFn == Init => FnInv
<1> SUFFICES ASSUME Init PROVE FnInv
  OBVIOUS
<1>1. Requesting = {} /\ Started = {}
  BY DEF Init, Requesting, Started, NoTime
<1>2. Cardinality(Requesting) = 0 /\ Cardinality(Started) = 0
  BY <1>1, FS_EmptySet
<1>3. TypeOK
  <2>1. fnActive \in 0..Cardinality(Fns)
    BY FS_CardinalityType DEF Init
  <2>2. QED
    BY <2>1 DEF Init, TypeOK, PCs, NoTime
<1>4. QED
  BY <1>2, <1>3 DEF Init, FnInv, CallShape, PoolAt, GaugeBounds, ObservedOnce

\* Invoke up to client.Do: an early error return leaves a call that never
\* started; otherwise the call takes timeStart and FnActive goes up by one
\* with the calls in flight and the calls started.
LEMMA StartFn ==
    ASSUME FnInv, NEW f \in Fns, InvokeStart(f)
    PROVE  FnInv'
<1>0. TypeOK /\ pc[f] = "waiting" /\ timeStart[f] = NoTime /\ obsCount[f] = 0
  BY DEF InvokeStart, FnInv, CallShape, ObservedOnce
<1>9. f \notin Requesting /\ f \notin Started
  BY <1>0 DEF Requesting, Started
<1>1. CASE Return(f) /\ UNCHANGED <<fnActive, timeStart, obsCount>>
  <2>1. pc' = [pc EXCEPT ![f] = "done"] /\ UNCHANGED <<now, notifyPc, pool, tapped>>
    BY <1>1 DEF Return, InvokeStart
  <2>2. Requesting' = Requesting /\ Started' = Started
    BY <1>0, <1>1, <1>9, <2>1 DEF Requesting, Started, TypeOK
  <2>3. TypeOK'
    BY <1>0, <1>1, <2>1 DEF FnInv, TypeOK, PCs
  <2>4. CallShape' /\ ObservedOnce'
    BY <1>0, <1>1, <2>1 DEF FnInv, CallShape, ObservedOnce, TypeOK
  <2>5. QED
    BY <2>1, <2>2, <2>3, <2>4, <1>1 DEF FnInv, PoolAt, GaugeBounds
<1>2. CASE /\ pc' = [pc EXCEPT ![f] = "requesting"]
           /\ fnActive' = fnActive + 1
           /\ timeStart' = [timeStart EXCEPT ![f] = now]
           /\ UNCHANGED obsCount
  <2>1. UNCHANGED <<now, notifyPc, pool, tapped>>
    BY DEF InvokeStart
  <2>2. Requesting' = Requesting \cup {f} /\ Started' = Started \cup {f}
    BY <1>0, <1>2, <2>1 DEF Requesting, Started, TypeOK, NoTime
  <2>3. /\ Cardinality(Requesting') = Cardinality(Requesting) + 1
        /\ Cardinality(Started') = Cardinality(Started) + 1
        /\ Cardinality(Started') <= Cardinality(Fns)
    <3>1. IsFiniteSet(Requesting) /\ IsFiniteSet(Started)
      BY FnSetFinite DEF Requesting, Started
    <3>2. Started' \subseteq Fns
      BY <2>2 DEF Started
    <3>3. QED
      BY <3>1, <3>2, <1>9, <2>2, FS_AddElement, FnSetFinite
  <2>9. Cardinality(Requesting) \in Nat /\ Cardinality(Started) \in Nat
        /\ fnActive \in Nat /\ Cardinality(Fns) \in Nat
    BY <1>0, FnSetFinite, FS_CardinalityType DEF Requesting, Started, TypeOK
  <2>4. GaugeBounds'
    BY <2>3, <2>9, <1>2 DEF FnInv, GaugeBounds
  <2>5. fnActive' \in 0..Cardinality(Fns)
    BY <1>2, <2>3, <2>4, <2>9 DEF GaugeBounds
  <2>6. TypeOK'
    BY <1>0, <1>2, <2>1, <2>5 DEF FnInv, TypeOK, PCs
  <2>7. CallShape' /\ ObservedOnce'
    BY <1>0, <1>2, <2>1 DEF FnInv, CallShape, ObservedOnce, TypeOK
  <2>8. QED
    BY <2>1, <2>4, <2>6, <2>7 DEF FnInv, PoolAt
<1>3. QED
  BY <1>1, <1>2 DEF InvokeStart

\* client.Do returns: the call leaves the requests in flight and makes its
\* one deferred observation, whether or not FnActive is decremented.
LEMMA DoFn ==
    ASSUME FnInv, NEW f \in Fns, InvokeDo(f)
    PROVE  FnInv'
<1>0. TypeOK /\ pc[f] = "requesting" /\ timeStart[f] \in Nat /\ obsCount[f] = 0
  BY DEF InvokeDo, FnInv, CallShape, ObservedOnce
<1>1. pc' = [pc EXCEPT ![f] = "done"] /\ obsCount' = [obsCount EXCEPT ![f] = 1]
      /\ UNCHANGED <<now, timeStart, notifyPc, pool, tapped>>
      /\ fnActive' \in {fnActive, fnActive - 1}
  BY <1>0 DEF InvokeDo, Return, TypeOK
<1>2. Requesting' = Requesting \ {f} /\ Started' = Started /\ f \in Requesting
  BY <1>0, <1>1 DEF Requesting, Started, TypeOK
<1>3. Cardinality(Requesting') = Cardinality(Requesting) - 1
      /\ Cardinality(Requesting') \in Nat
  <2>1. IsFiniteSet(Requesting)
    BY FnSetFinite DEF Requesting
  <2>2. QED
    BY <2>1, <1>2, FS_RemoveElement, FS_CardinalityType
<1>9. Cardinality(Requesting) \in Nat /\ Cardinality(Started) \in Nat
      /\ Cardinality(Started) <= Cardinality(Fns) /\ fnActive \in Nat
      /\ Cardinality(Fns) \in Nat
  BY <1>0, FnSetFinite, FS_CardinalityType DEF Requesting, Started, TypeOK
<1>4. GaugeBounds'
  BY <1>1, <1>2, <1>3, <1>9 DEF FnInv, GaugeBounds
<1>5. fnActive' \in 0..Cardinality(Fns)
  BY <1>1, <1>2, <1>3, <1>4, <1>9 DEF GaugeBounds
<1>6. TypeOK'
  BY <1>0, <1>1, <1>5 DEF FnInv, TypeOK, PCs
<1>7. CallShape' /\ ObservedOnce'
  BY <1>0, <1>1 DEF FnInv, CallShape, ObservedOnce, TypeOK, NoTime
<1>8. QED
  BY <1>1, <1>4, <1>6, <1>7 DEF FnInv, PoolAt

\* Notify and the pool touch neither the calls nor the gauge; Notify's tap
\* is due at TapAt.
LEMMA TapsFn ==
    ASSUME FnInv, \/ \E f \in Fns : Notify(f)
                  \/ \E p \in pool : TapFires(p)
    PROVE  FnInv'
<1>1. UNCHANGED <<now, pc, fnActive, timeStart, obsCount>>
  BY DEF Notify, TapFires
<1>2. Requesting' = Requesting /\ Started' = Started
  BY <1>1 DEF Requesting, Started
<1>3. CASE \E f \in Fns : Notify(f)
  <2>1. PICK f \in Fns : Notify(f)
    BY <1>3
  <2>2. /\ notifyPc' \in [Fns -> {"pending", "failed", "submitted"}]
        /\ pool' \in {pool, pool \cup {[fn |-> f, at |-> TapAt]}}
        /\ tapped' = tapped
    BY <2>1 DEF Notify, FnInv, TypeOK, TapAt
  <2>3. pool' \subseteq [fn : Fns, at : Int] /\ PoolAt'
    BY <2>2, TapAtNat DEF FnInv, TypeOK, PoolAt
  <2>4. QED
    BY <1>1, <1>2, <2>2, <2>3 DEF FnInv, TypeOK, CallShape, GaugeBounds, ObservedOnce
<1>4. CASE \E p \in pool : TapFires(p)
  <2>1. PICK p \in pool : TapFires(p)
    BY <1>4
  <2>2. pool' \subseteq pool /\ tapped' = tapped \cup {p.fn} /\ notifyPc' = notifyPc
    BY <2>1 DEF TapFires
  <2>3. QED
    BY <1>1, <1>2, <2>2 DEF FnInv, TypeOK, CallShape, PoolAt, GaugeBounds, ObservedOnce
<1>5. QED
  BY <1>3, <1>4

\* Every instant ahead at which something is due is a natural number.
LEMMA DueTimesNat ==
    ASSUME FnInv
    PROVE  DueTimes \subseteq Nat
<1>1. \A p \in pool : p.at \in Nat
  BY TapAtNat DEF FnInv, PoolAt
<1>2. \A f \in Fns : pc[f] = "requesting" => timeStart[f] + RequestTime \in Nat
  BY DEF FnInv, CallShape
<1>3. QED
  BY <1>1, <1>2 DEF DueTimes

\* Time moves on to the least instant ahead at which something is due.
LEMMA TickFn ==
    ASSUME FnInv, Tick
    PROVE  FnInv'
<1> DEFINE T == {t \in DueTimes : t > now}
<1>1. T \subseteq Nat /\ T # {}
  BY DueTimesNat DEF Tick, T
<1>2. now' \in Nat
  <2>1. now' = Min(T)
    BY DEF Tick, T
  <2>2. QED
    BY <1>1, <2>1, MinNat
<1>3. UNCHANGED <<pc, fnActive, timeStart, obsCount, notifyPc, pool, tapped>>
  BY DEF Tick
<1>4. Requesting' = Requesting /\ Started' = Started
  BY <1>3 DEF Requesting, Started
<1>5. QED
  BY <1>2, <1>3, <1>4 DEF FnInv, TypeOK, CallShape, PoolAt, GaugeBounds, ObservedOnce

LEMMA NextFn == FnInv /\ [Next]_vars => FnInv'
<1> SUFFICES ASSUME FnInv, [Next]_vars PROVE FnInv'
  OBVIOUS
<1>1. CASE \E f \in Fns : InvokeStart(f)
  BY <1>1, StartFn
<1>2. CASE \E f \in Fns : InvokeDo(f)
  BY <1>2, DoFn
<1>3. CASE (\E f \in Fns : Notify(f)) \/ \E p \in pool : TapFires(p)
  BY <1>3, TapsFn
<1>4. CASE Tick
  BY <1>4, TickFn
<1>5. CASE UNCHANGED vars
  BY <1>5 DEF vars, FnInv, TypeOK, CallShape, PoolAt, GaugeBounds, ObservedOnce,
              Requesting, Started
<1>6. QED
  BY <1>1, <1>2, <1>3, <1>4, <1>5 DEF Next

-----------------------------------------------------------------------------
(* Theorems.                                                                *)

\* Invoke's defer, the gauge's Inc and Dec and the pool's taps keep the
\* state typed for every set of functions, expected time and request time;
\* in particular FnExecTime is observed at most once per call.
THEOREM FnEnvTypeCorrect == Spec => []TypeOK
BY InitFn, NextFn, PTL DEF Spec, FnInv

\* Invoke increments FnActive before client.Do and decrements it only on a
\* response, so however many concurrent calls return in whatever order,
\* FnActive never falls below the requests in flight.
THEOREM GaugeNeverUnder == Spec => []GaugeNeverUnderCounts
<1>1. FnInv => GaugeNeverUnderCounts
  BY DEF FnInv, GaugeBounds, GaugeNeverUnderCounts
<1>2. QED
  BY <1>1, InitFn, NextFn, PTL DEF Spec

\* The deferred FnExecTime.Observe runs on every return after timeStart is
\* taken, and on none before it: each call that sent its request is
\* observed exactly once, on whichever path Invoke returns.
THEOREM ObservedExactlyOnce == Spec => []ObservedOnce
<1>1. FnInv => ObservedOnce
  BY DEF FnInv
<1>2. QED
  BY <1>1, InitFn, NextFn, PTL DEF Spec

=============================================================================
