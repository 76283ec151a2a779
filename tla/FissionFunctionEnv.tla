--------------------------- MODULE FissionFunctionEnv ---------------------------
(***************************************************************************)
(* The Fission function runtime (src/unnamed/part_002: FunctionEnv).       *)
(*                                                                         *)
(* Executor workers call Invoke concurrently, one call per function here;  *)
(* a prewarm job calls Notify ahead of a call the scheduler expects at     *)
(* ExpectedAt, and Notify hands a tap to the timed execution pool.  Time   *)
(* is a clock in nanoseconds that jumps to the next instant at which       *)
(* something is due: a tap, the expected calls, or a response.  Payloads,  *)
(* URLs and tracing are left out; what is kept is the order of the steps   *)
(* of Invoke, which of them move the FnActive gauge and the FnExecTime     *)
(* histogram, and when the tap fires.                                      *)
(***************************************************************************)
EXTENDS Integers, FiniteSets, FiniteSetsExt

CONSTANTS
    Fns,            \* the functions called, one Invoke each
    ExpectedAt,     \* when the scheduler expects the calls (ns since start)
    RequestTime     \* how long a request takes to be answered (ns)

ASSUME FnsAssumption == IsFiniteSet(Fns) /\ Fns # {}
ASSUME ExpectedAtAssumption == ExpectedAt \in Nat
ASSUME RequestTimeAssumption == RequestTime \in Nat \ {0}

\* time.Duration is a count of nanoseconds.
Millisecond == 1000000

\* provisionDuration = time.Duration(500) - time.Millisecond.
provisionDuration == 500 - Millisecond

NoTime == -1

\* Where a call is in Invoke: not yet called, waiting for the response
\* (between FnActive.Inc and the end of client.Do), or returned.
PCs == {"waiting", "requesting", "done"}

VARIABLES
    now,            \* time.Now()
    pc,             \* pc[f]: where f's Invoke is
    fnActive,       \* the FnActive gauge
    timeStart,      \* timeStart[f], NoTime before line 98
    obsCount,       \* obsCount[f]: FnExecTime observations made by f's Invoke
    notifyPc,       \* "pending", "failed" (getFnURL error) or "submitted"
    pool,           \* the timed execution pool's taps: [fn, at]
    tapped          \* the functions the executor has been asked to tap

vars == <<now, pc, fnActive, timeStart, obsCount, notifyPc, pool, tapped>>

-----------------------------------------------------------------------------

Init ==
    /\ now = 0
    /\ pc = [f \in Fns |-> "waiting"]
    /\ fnActive = 0
    /\ timeStart = [f \in Fns |-> NoTime]
    /\ obsCount = [f \in Fns |-> 0]
    /\ notifyPc = [f \in Fns |-> "pending"]
    /\ pool = {}
    /\ tapped = {}

\* Invoke returns.
Return(f) == pc' = [pc EXCEPT ![f] = "done"]

\* Mutant: the early error returns taking the call off the gauge too.
InvokeStartDeferDec(f) ==
    /\ pc[f] = "waiting"
    /\ now >= ExpectedAt
    /\ \/ /\ Return(f)
          /\ fnActive' = fnActive - 1
          /\ UNCHANGED <<timeStart, obsCount>>
       \/ /\ pc' = [pc EXCEPT ![f] = "requesting"]
          /\ fnActive' = fnActive + 1
          /\ timeStart' = [timeStart EXCEPT ![f] = now]
          /\ UNCHANGED obsCount
    /\ UNCHANGED <<now, notifyPc, pool, tapped>>

\* Invoke up to client.Do: validation or FormatRequest fails and it returns
\* the error, or it takes timeStart, increments FnActive and defers
\* FnExecTime.Observe(float64(time.Since(timeStart))), whose argument Go
\* evaluates there and then.
InvokeStart(f) ==
    /\ pc[f] = "waiting"
    /\ now >= ExpectedAt
    /\ \/ /\ Return(f)
          /\ UNCHANGED <<fnActive, timeStart, obsCount>>
       \/ /\ pc' = [pc EXCEPT ![f] = "requesting"]
          /\ fnActive' = fnActive + 1
          /\ timeStart' = [timeStart EXCEPT ![f] = now]
          /\ UNCHANGED obsCount
    /\ UNCHANGED <<now, notifyPc, pool, tapped>>

\* Mutant: FnExecTime observed explicitly as well as by the defer.
InvokeDoObserveTwice(f) ==
    /\ pc[f] = "requesting"
    /\ now >= timeStart[f] + RequestTime
    /\ Return(f)
    /\ \/ /\ obsCount' = [obsCount EXCEPT ![f] = @ + 1]
          /\ UNCHANGED fnActive
       \/ /\ obsCount' = [obsCount EXCEPT ![f] = @ + 2]
          /\ fnActive' = fnActive - 1
    /\ UNCHANGED <<now, timeStart, notifyPc, pool, tapped>>

\* Mutant: FnExecTime observed on the success path only, not deferred.
InvokeDoObserveOnSuccess(f) ==
    /\ pc[f] = "requesting"
    /\ now >= timeStart[f] + RequestTime
    /\ Return(f)
    /\ \/ UNCHANGED <<fnActive, obsCount>>
       \/ /\ fnActive' = fnActive - 1
          /\ UNCHANGED obsCount
       \/ /\ fnActive' = fnActive - 1
          /\ obsCount' = [obsCount EXCEPT ![f] = @ + 1]
    /\ UNCHANGED <<now, timeStart, notifyPc, pool, tapped>>

\* client.Do returns.  A transport error (or the client's timeout) returns
\* at once; otherwise FnActive is decremented and the response parsed, an
\* unparsable one returned as an error, a status >= 400 as FAILED, any
\* other as SUCCEEDED.  Every return runs the deferred Observe.
InvokeDo(f) ==
    /\ pc[f] = "requesting"
    /\ now >= timeStart[f] + RequestTime
    /\ Return(f)
    /\ obsCount' = [obsCount EXCEPT ![f] = @ + 1]
    /\ \/ UNCHANGED fnActive
       \/ fnActive' = fnActive - 1
    /\ UNCHANGED <<now, timeStart, notifyPc, pool, tapped>>

\* Notify: getFnURL fails and the error is returned, or the tap is
\* submitted to the pool for expectedAt - provisionDuration.
Notify(f) ==
    /\ notifyPc[f] = "pending"
    /\ now < ExpectedAt
    /\ \/ /\ notifyPc' = [notifyPc EXCEPT ![f] = "failed"]
          /\ UNCHANGED pool
       \/ /\ notifyPc' = [notifyPc EXCEPT ![f] = "submitted"]
          /\ pool' = pool \cup {[fn |-> f, at |-> ExpectedAt - provisionDuration]}
    /\ UNCHANGED <<now, pc, fnActive, timeStart, obsCount, tapped>>

\* The timed execution pool runs a tap once its time has come.
TapFires(p) ==
    /\ p.at <= now
    /\ pool' = pool \ {p}
    /\ tapped' = tapped \cup {p.fn}
    /\ UNCHANGED <<now, pc, fnActive, timeStart, obsCount, notifyPc>>

\* The instants ahead at which something is due.
DueTimes ==
    {p.at : p \in pool}
    \cup (IF \E f \in Fns : pc[f] = "waiting" THEN {ExpectedAt} ELSE {})
    \cup {timeStart[f] + RequestTime : f \in {g \in Fns : pc[g] = "requesting"}}

\* Time advances to the next due instant, once the pool has run every tap
\* that was due.
Tick ==
    /\ \A p \in pool : p.at > now
    /\ {t \in DueTimes : t > now} # {}
    /\ now' = Min({t \in DueTimes : t > now})
    /\ UNCHANGED <<pc, fnActive, timeStart, obsCount, notifyPc, pool, tapped>>

Next ==
    \/ \E f \in Fns : InvokeStart(f) \/ InvokeDo(f) \/ Notify(f)
    \/ \E p \in pool : TapFires(p)
    \/ Tick

Spec == Init /\ [][Next]_vars

-----------------------------------------------------------------------------
(* Properties.                                                              *)

TypeOK ==
    /\ now \in Nat
    /\ pc \in [Fns -> PCs]
    /\ fnActive \in 0..Cardinality(Fns)
    /\ timeStart \in [Fns -> Nat \cup {NoTime}]
    /\ obsCount \in [Fns -> 0..1]
    /\ notifyPc \in [Fns -> {"pending", "failed", "submitted"}]
    /\ pool \subseteq [fn : Fns, at : Int]
    /\ tapped \subseteq Fns

Requesting == {f \in Fns : pc[f] = "requesting"}

\* FnActive is never below the number of calls whose request is in flight,
\* however the calls' returns interleave: the gauge never hides load.
GaugeNeverUnderCounts ==
    fnActive >= Cardinality(Requesting)

\* Every Invoke that got as far as sending its request makes exactly one
\* FnExecTime observation, on whichever path it returns.
ObservedOnce ==
    \A f \in Fns :
        obsCount[f] = IF pc[f] = "done" /\ timeStart[f] # NoTime THEN 1 ELSE 0

\* A prewarm hint Notify accepted well ahead of the expected call has
\* tapped the function by the time the call arrives (spec 8, scenario 6: the tap
\* comes 500 ms before the expected time).
TapBeforeCall ==
    \A f \in Fns :
        (notifyPc[f] = "submitted" /\ pc[f] # "waiting") => f \in tapped

=============================================================================
