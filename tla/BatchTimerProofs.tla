--------------------------- MODULE BatchTimerProofs --------------------------
(***************************************************************************)
(* The bounds of BatchTimer, for every length of a batch, a window, a      *)
(* message and a flush.  Each bound on a clock is inductive only with what *)
(* is known of it at every place of the loop, which the conjuncts of IInv  *)
(* say one by one.                                                         *)
(***************************************************************************)
EXTENDS BatchTimer, TLAPS

-----------------------------------------------------------------------------
(* A batch in the loop was young when it was last looked at, and that was  *)
(* no longer ago than a wake window and a message.                         *)
YoungAtLastLook ==
    /\ pending > 0 /\ at \in {"loop", "wait"}
         => \/ now - oldest < BatchMaxMs
            \/ lastYield - oldest < BatchMaxMs /\ now - lastYield <= Wake
    /\ pending > 0 /\ at = "handle" => lastYield - oldest < BatchMaxMs + Wake
    /\ pending > 0 /\ at = "flush" => since - oldest < BatchMaxMs + Wake + MaxHandle
    /\ at = "ended" => pending = 0

(* Nothing takes longer than it may.                                       *)
StepsBounded ==
    /\ at = "handle" => now - lastYield <= MaxHandle
    /\ at = "flush" => now - since <= MaxFlush
    /\ at = "wait" => lastYield <= idle /\ (now = idle \/ now - lastYield <= Wake)

(* A stop is noticed where it finds the process, or one step later.        *)
StopByPlace ==
    stopAt # None =>
        /\ at = "wait" => lastYield <= stopAt /\ now - stopAt <= Wake
        /\ at = "handle" => lastYield <= stopAt
        /\ at = "flush" => since - stopAt <= LongestStep
        /\ at = "loop" /\ pending > 0 => now - stopAt <= LongestStep
        /\ at = "loop" => now - stopAt <= LongestStep + MaxFlush

KeepaliveInTime == idle - lastFeedback < KeepaliveSeconds

IInv ==
    /\ TypeOK
    /\ YoungAtLastLook
    /\ StepsBounded
    /\ StopByPlace
    /\ KeepaliveInTime

-----------------------------------------------------------------------------
(* The wake window is a length of time, and no longer than the longest     *)
(* step.                                                                   *)
LEMMA WindowFacts ==
    /\ Wake \in Nat \ {0} /\ LongestStep \in Nat
    /\ Wake <= LongestStep /\ MaxHandle <= LongestStep
BY BatchTimerAssumption DEF Wake, LongestStep

LEMMA InitIInv == Init => IInv
BY BatchTimerAssumption, WindowFacts
   DEF Init, IInv, TypeOK, Time, Places, YoungAtLastLook, StepsBounded, StopByPlace,
       KeepaliveInTime

(* Every step keeps the types and the order of the times.                  *)
LEMMA TypeStep == IInv /\ [Next]_vars => TypeOK'
<1> SUFFICES ASSUME IInv, [Next]_vars PROVE TypeOK'
  OBVIOUS
<1> USE BatchTimerAssumption DEF IInv, TypeOK, Time, Places
<1>1. CASE Tick
  BY <1>1 DEF Tick
<1>2. CASE RequestStop
  BY <1>2 DEF RequestStop
<1>3. CASE ReadMessage
  BY <1>3 DEF ReadMessage
<1>4. CASE ReadNothing
  BY <1>4 DEF ReadNothing
<1>5. CASE WaitAgain
  BY <1>5 DEF WaitAgain
<1>6. CASE WakeUp
  BY <1>6 DEF WakeUp, BeginFlush
<1>7. CASE Handled
  BY <1>7 DEF Handled, BeginFlush, Due
<1>8. CASE Flushed
  BY <1>8 DEF Flushed
<1>9. CASE LoopEnds
  BY <1>9 DEF LoopEnds, BeginFlush
<1>10. CASE UNCHANGED vars
  BY <1>10 DEF vars
<1> QED
  BY <1>1, <1>2, <1>3, <1>4, <1>5, <1>6, <1>7, <1>8, <1>9, <1>10 DEF Next

LEMMA AgeStep == IInv /\ [Next]_vars => YoungAtLastLook'
<1> SUFFICES ASSUME IInv, [Next]_vars PROVE YoungAtLastLook'
  OBVIOUS
<1> USE BatchTimerAssumption, WindowFacts
    DEF IInv, TypeOK, Time, Places, YoungAtLastLook, StepsBounded
<1>1. CASE Tick
  BY <1>1 DEF Tick, MayLast
<1>2. CASE RequestStop
  BY <1>2 DEF RequestStop
<1>3. CASE ReadMessage
  BY <1>3 DEF ReadMessage
<1>4. CASE ReadNothing
  BY <1>4 DEF ReadNothing
<1>5. CASE WaitAgain
  BY <1>5 DEF WaitAgain
<1>6. CASE WakeUp
  BY <1>6 DEF WakeUp, BeginFlush
<1>7. CASE Handled
  BY <1>7 DEF Handled, BeginFlush, Due
<1>8. CASE Flushed
  BY <1>8 DEF Flushed
<1>9. CASE LoopEnds
  BY <1>9 DEF LoopEnds, BeginFlush
<1>10. CASE UNCHANGED vars
  BY <1>10 DEF vars
<1> QED
  BY <1>1, <1>2, <1>3, <1>4, <1>5, <1>6, <1>7, <1>8, <1>9, <1>10 DEF Next

LEMMA LengthStep == IInv /\ [Next]_vars => StepsBounded'
<1> SUFFICES ASSUME IInv, [Next]_vars PROVE StepsBounded'
  OBVIOUS
<1> USE BatchTimerAssumption, WindowFacts DEF IInv, TypeOK, Time, Places, StepsBounded
<1>1. CASE Tick
  BY <1>1 DEF Tick, MayLast
<1>2. CASE ReadMessage \/ ReadNothing \/ WaitAgain
  BY <1>2 DEF ReadMessage, ReadNothing, WaitAgain
<1>3. CASE WakeUp \/ Handled \/ LoopEnds
  BY <1>3 DEF WakeUp, Handled, LoopEnds, BeginFlush
<1>4. CASE RequestStop \/ Flushed \/ UNCHANGED vars
  BY <1>4 DEF RequestStop, Flushed, vars
<1> QED
  BY <1>1, <1>2, <1>3, <1>4 DEF Next

LEMMA StopStep == IInv /\ [Next]_vars => StopByPlace'
<1> SUFFICES ASSUME IInv, [Next]_vars PROVE StopByPlace'
  OBVIOUS
<1> USE BatchTimerAssumption, WindowFacts
    DEF IInv, TypeOK, Time, Places, StepsBounded, StopByPlace
<1>1. CASE Tick
  BY <1>1 DEF Tick, MayLast
<1>2. CASE RequestStop
  BY <1>2 DEF RequestStop
<1>3. CASE ReadMessage \/ ReadNothing \/ WaitAgain
  BY <1>3 DEF ReadMessage, ReadNothing, WaitAgain, Stopping
<1>4. CASE WakeUp
  BY <1>4 DEF WakeUp, BeginFlush, Stopping
<1>5. CASE Handled
  BY <1>5 DEF Handled, BeginFlush
<1>6. CASE Flushed
  BY <1>6 DEF Flushed
<1>7. CASE LoopEnds
  BY <1>7 DEF LoopEnds, BeginFlush, Stopping
<1>8. CASE UNCHANGED vars
  BY <1>8 DEF vars
<1> QED
  BY <1>1, <1>2, <1>3, <1>4, <1>5, <1>6, <1>7, <1>8 DEF Next

LEMMA KeepaliveStep == IInv /\ [Next]_vars => KeepaliveInTime'
<1> SUFFICES ASSUME IInv, [Next]_vars PROVE KeepaliveInTime'
  OBVIOUS
<1> USE BatchTimerAssumption DEF IInv, TypeOK, Time, KeepaliveInTime
<1>1. CASE ReadNothing
  BY <1>1 DEF ReadNothing, KeepaliveDue
<1>2. CASE Flushed
  BY <1>2 DEF Flushed
<1>3. CASE Tick \/ RequestStop \/ ReadMessage \/ WaitAgain \/ WakeUp \/ Handled \/ LoopEnds
  BY <1>3 DEF Tick, RequestStop, ReadMessage, WaitAgain, WakeUp, Handled, LoopEnds
<1>4. CASE UNCHANGED vars
  BY <1>4 DEF vars
<1> QED
  BY <1>1, <1>2, <1>3, <1>4 DEF Next

(* IInv is an invariant.                                                   *)
LEMMA Inductive == Spec => []IInv
<1>1. IInv /\ [Next]_vars => IInv'
  BY TypeStep, AgeStep, LengthStep, StopStep, KeepaliveStep DEF IInv
<1> QED
  BY <1>1, InitIInv, PTL DEF Spec

-----------------------------------------------------------------------------
(* The types, for every value of the constants.                            *)
THEOREM TimerTypes == Spec => []TypeOK
<1>1. IInv => TypeOK
  BY DEF IInv
<1> QED
  BY <1>1, Inductive, PTL

(* However a stream runs, pauses and trickles, a sealed transaction waits  *)
(* less than batch.max_ms, one wake window and one message for its flush.  *)
THEOREM BatchAge == Spec => []BatchAgeBounded
<1>1. IInv => BatchAgeBounded
  BY BatchTimerAssumption, WindowFacts
     DEF IInv, TypeOK, Time, Places, YoungAtLastLook, StepsBounded, BatchAgeBounded, Age
<1> QED
  BY <1>1, Inductive, PTL

(* Feedback is late only by the time the stream has not paused.            *)
THEOREM Keepalive == Spec => []KeepaliveUnlessBusy
<1>1. IInv => KeepaliveUnlessBusy
  BY BatchTimerAssumption, WindowFacts
     DEF IInv, TypeOK, Time, StepsBounded, KeepaliveInTime, KeepaliveUnlessBusy
<1> QED
  BY <1>1, Inductive, PTL

(* A stop takes one wake window or one message, and one flush.             *)
THEOREM StopInTime == Spec => []StopBounded
<1>1. IInv => StopBounded
  BY BatchTimerAssumption, WindowFacts
     DEF IInv, TypeOK, Time, Places, StepsBounded, StopByPlace, StopBounded
<1> QED
  BY <1>1, Inductive, PTL
=============================================================================
