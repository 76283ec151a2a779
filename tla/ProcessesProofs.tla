--------------------------- MODULE ProcessesProofs ---------------------------
(***************************************************************************)
(* Machine-checked proofs about Processes.Start, for every number of       *)
(* processes and every set of failing ones: the state stays typed, and     *)
(* because errC has len(p) slots and each goroutine sends at most once, no *)
(* goroutine ever blocks on its send.                                      *)
(***************************************************************************)
EXTENDS Processes, FiniteSetTheorems, TLAPS

USE NAssumption, FailingAssumption

\* The goroutines Start's loop has not reached are still idle.
IdleUnspawned == \A p \in Procs : p > spawned => gpc[p] = "idle"

\* The inductive strengthening of SendNeverBlocks.
RoomInv == TypeOK /\ IdleUnspawned /\ ErrCRoom

\* Every set of processes is finite, with a natural cardinality.
LEMMA ProcSetFinite ==
    ASSUME NEW S \in SUBSET Procs
    PROVE  IsFiniteSet(S) /\ Cardinality(S) \in Nat
<1>1. IsFiniteSet(Procs)
  BY FS_Interval DEF Procs
<1>2. QED
  BY <1>1, FS_Subset, FS_CardinalityType

\* A step that only takes goroutines out of Unsent, and adds to errC only
\* when it takes one out, keeps the room.
LEMMA RoomKept ==
    ASSUME ErrCRoom, errC \in Nat, errC' \in Nat, Unsent' \subseteq Unsent,
           errC' <= errC
           \/ \E p \in Unsent : Unsent' = Unsent \ {p} /\ errC' = errC + 1
    PROVE  ErrCRoom'
<1>1. IsFiniteSet(Unsent) /\ Cardinality(Unsent) \in Nat
  BY ProcSetFinite DEF Unsent
<1>2. Cardinality(Unsent') <= Cardinality(Unsent) /\ Cardinality(Unsent') \in Nat
  BY <1>1, FS_Subset, FS_CardinalityType
<1>3. CASE errC' <= errC
  <2>1. errC + Cardinality(Unsent) <= ErrCCap
    BY DEF ErrCRoom
  <2>2. errC' + Cardinality(Unsent') <= ErrCCap
    BY <2>1, <1>1, <1>2, <1>3 DEF ErrCCap
  <2>3. QED
    BY <2>2 DEF ErrCRoom
<1>4. CASE \E p \in Unsent : Unsent' = Unsent \ {p} /\ errC' = errC + 1
  <2>1. PICK p \in Unsent : Unsent' = Unsent \ {p} /\ errC' = errC + 1
    BY <1>4
  <2>2. Cardinality(Unsent') = Cardinality(Unsent) - 1
    BY <2>1, <1>1, FS_RemoveElement
  <2>3. errC' + Cardinality(Unsent') <= ErrCCap
    BY <2>1, <2>2, <1>1 DEF ErrCRoom, ErrCCap
  <2>4. QED
    BY <2>3 DEF ErrCRoom
<1>5. QED
  BY <1>3, <1>4

LEMMA InitRoom == Init => RoomInv
<1> SUFFICES ASSUME Init PROVE RoomInv
  OBVIOUS
<1>1. TypeOK
  <2>1. gpc \in [Procs -> GStates]
    BY DEF Init, GStates
  <2>2. spawned \in 0..N /\ errC \in 0..N
    BY DEF Init
  <2>3. QED
    BY <2>1, <2>2 DEF Init, TypeOK
<1>6. IdleUnspawned
  BY DEF Init, IdleUnspawned
<1>2. Unsent = Procs
  BY DEF Init, Unsent
<1>3. Cardinality(Procs) = N
  BY FS_Interval DEF Procs
<1>4. ErrCRoom
  BY <1>2, <1>3 DEF Init, ErrCRoom, ErrCCap
<1>5. QED
  BY <1>1, <1>6, <1>4 DEF RoomInv

LEMMA NextRoom == RoomInv /\ [Next]_vars => RoomInv'
<1> SUFFICES ASSUME RoomInv, [Next]_vars PROVE RoomInv'
  OBVIOUS
<1>0. TypeOK /\ IdleUnspawned /\ ErrCRoom
  BY DEF RoomInv
<1>1. CASE StartLoop
  <2>1. CASE spawned < N
    <3>1. gpc[spawned + 1] = "idle" /\ spawned + 1 \in Procs
      BY <1>0, <2>1 DEF IdleUnspawned, TypeOK, Procs
    <3>2. gpc' = [gpc EXCEPT ![spawned + 1] = "running"] /\ spawned' = spawned + 1
          /\ UNCHANGED errC
      BY <1>1, <2>1 DEF StartLoop
    <3>3. TypeOK' /\ IdleUnspawned'
      BY <1>0, <1>1, <2>1, <3>2 DEF StartLoop, TypeOK, IdleUnspawned, GStates, Procs
    <3>4. Unsent' = Unsent
      BY <1>0, <3>1, <3>2 DEF Unsent, TypeOK
    <3>5. QED
      BY <3>3, <3>4, <3>2, <1>0 DEF RoomInv, ErrCRoom
  <2>2. CASE ~(spawned < N)
    BY <1>0, <1>1, <2>2 DEF StartLoop, TypeOK, IdleUnspawned, ErrCRoom, Unsent, RoomInv
  <2>3. QED
    BY <2>1, <2>2
<1>2. CASE StartReceive
  <2>1. TypeOK' /\ IdleUnspawned' /\ Unsent' = Unsent /\ errC' = errC - 1
    BY <1>0, <1>2 DEF StartReceive, TypeOK, IdleUnspawned, Unsent
  <2>2. QED
    BY <2>1, <1>0, RoomKept DEF RoomInv, TypeOK
<1>3. CASE StartDefault \/ Shutdown \/ UNCHANGED vars
  BY <1>0, <1>3 DEF StartDefault, Shutdown, vars, RoomInv, TypeOK, IdleUnspawned,
                    ErrCRoom, Unsent
<1>4. ASSUME NEW p \in Procs, RunReturns(p)
      PROVE  RoomInv'
  <2>1. gpc[p] = "running" /\ gpc' \in {[gpc EXCEPT ![p] = "sending"], [gpc EXCEPT ![p] = "done"]}
        /\ UNCHANGED <<spawned, errC>>
    BY <1>4 DEF RunReturns
  <2>2. TypeOK' /\ IdleUnspawned'
    BY <1>0, <1>4, <2>1 DEF RunReturns, TypeOK, IdleUnspawned, GStates
  <2>3. Unsent' \subseteq Unsent
    BY <1>0, <2>1 DEF Unsent, TypeOK
  <2>4. QED
    BY <2>1, <2>2, <2>3, <1>0, RoomKept DEF RoomInv, TypeOK
<1>5. ASSUME NEW p \in Procs, SendErr(p)
      PROVE  RoomInv'
  <2>1. gpc[p] = "sending" /\ p \in Unsent
    BY <1>5 DEF SendErr, Unsent
  <2>2. TypeOK' /\ IdleUnspawned'
    BY <1>0, <1>5, <2>1 DEF SendErr, TypeOK, IdleUnspawned, GStates, ErrCRoom, ErrCCap
  <2>3. CASE closed
    <3>1. gpc' = [gpc EXCEPT ![p] = "panicked"] /\ errC' = errC
      BY <1>5, <2>3 DEF SendErr
    <3>2. Unsent' \subseteq Unsent
      BY <3>1, <1>0 DEF Unsent, TypeOK
    <3>3. QED
      BY <2>2, <3>1, <3>2, <1>0, RoomKept DEF RoomInv, TypeOK
  <2>4. CASE ~closed
    <3>4. gpc' = [gpc EXCEPT ![p] = "done"] /\ errC' = errC + 1
      BY <1>5, <2>4 DEF SendErr
    <3>5. Unsent' = Unsent \ {p}
      BY <3>4, <1>0 DEF Unsent, TypeOK
    <3>6. QED
      BY <2>1, <2>2, <3>4, <3>5, <1>0, RoomKept DEF RoomInv, TypeOK
  <2>5. QED
    BY <2>3, <2>4
<1>6. QED
  BY <1>1, <1>2, <1>3, <1>4, <1>5 DEF Next

\* Processes.Start sizes errC to len(p) and every goroutine sends on it at
\* most once, so for every number of processes no goroutine with an error
\* to report is ever left blocked on a full errC.
THEOREM SendsNeverBlock == Spec => []SendNeverBlocks
<1>1. RoomInv => SendNeverBlocks
  <2> SUFFICES ASSUME RoomInv, NEW p \in Procs, gpc[p] = "sending", ~closed
               PROVE  errC < ErrCCap
    BY DEF SendNeverBlocks
  <2>1. p \in Unsent
    BY DEF Unsent
  <2>2. IsFiniteSet(Unsent) /\ Cardinality(Unsent) \in Nat
    BY ProcSetFinite DEF Unsent
  <2>3. Cardinality(Unsent) # 0
    BY <2>1, <2>2, FS_EmptySet
  <2>4. QED
    BY <2>2, <2>3 DEF RoomInv, ErrCRoom, TypeOK, ErrCCap
<1>2. QED
  BY <1>1, InitRoom, NextRoom, PTL DEF Spec

\* Every step of Processes.Start and of the goroutines it spawns keeps the
\* state typed, for every number of processes.
THEOREM ProcessesTypeCorrect == Spec => []TypeOK
BY InitRoom, NextRoom, PTL DEF Spec, RoomInv

=============================================================================
