------------------------------ MODULE PauseProofs ------------------------------
(***************************************************************************)
(* Theorems about the interpreter of programs that register no interrupt   *)
(* function: pauses hold, robot commands are finished, and the FSM says    *)
(* what executes.  An interrupt function is called while a program is      *)
(* paused, and outlives it: with interrupts none of these need hold (see   *)
(* README.md).                                                             *)
(***************************************************************************)
EXTENDS InterpreterProofs

Uninterrupted == MaxInterrupts = 0

-----------------------------------------------------------------------------
(* The state machine. *)

\* A command never leads to a pause but by way of on_pause.
LEMMA PausedArcs ==
  ASSUME NEW event \in Events, NEW s, NEW d, <<event, s, d>> \in Transitions
  PROVE  d \in Paused => event = "next"
BY DEF Events, Transitions, LoadArcs, StartArcs, StopProgramArcs, StopMdiArcs,
       StopArcs, PauseArcs, ContinueArcs, HandlerArcs, ErrorArcs, Updates,
       ReloadChecks, Arc, Loop, Paused, MdiRunning, MdiPaused, OnPaused,
       OnAborted, PrePausedStates

-----------------------------------------------------------------------------
(* The call stack. *)

\* No interrupt function executes, on_pause is called by a frame that is about
\* to churn the queue, and only robot commands are in spin_command.
WellShaped(s) ==
  /\ \A i \in 1..Len(s) : s[i].code # "interrupt"
  /\ \A i \in 2..Len(s) : s[i].code = "on_pause" => s[i - 1].at = "churn"
  /\ \A i \in 1..Len(s) :
       s[i].at \in {"poll", "polled", "reinsert"} => s[i].code \in Calls

LEMMA GotoShape ==
  ASSUME stack \in Seq(Frames), stack # <<>>, WellShaped(stack),
         NEW point \in Points,
         point \in {"poll", "polled", "reinsert"} => Top.code \in Calls
  PROVE  WellShaped(Goto(point))
<1>1. Len(stack) \in Nat /\ Len(stack) > 0
  OBVIOUS
<1>2. /\ Len(Goto(point)) = Len(stack)
      /\ \A i \in 1..Len(stack) :
           /\ Goto(point)[i].code = stack[i].code
           /\ Goto(point)[i].at = IF i = Len(stack) THEN point ELSE stack[i].at
  BY GotoStack
<1>3. \A i \in 2..Len(stack) : i - 1 \in 1..Len(stack) /\ i - 1 # Len(stack)
  BY <1>1
<1> QED
  BY <1>1, <1>2, <1>3 DEF WellShaped, Top

LEMMA CallShape ==
  ASSUME NEW s \in Seq(Frames), s # <<>>, WellShaped(s),
         NEW kind \in (UserCode \cup Calls) \ {"interrupt"},
         NEW point \in Points,
         kind = "on_pause" => s[Len(s)].at = "churn",
         point \in {"poll", "polled", "reinsert"} => kind \in Calls
  PROVE  WellShaped(Append(s, Frame(kind, point)))
<1> DEFINE t == Append(s, Frame(kind, point))
<1>1. Len(s) \in Nat /\ Len(s) > 0
  OBVIOUS
<1>2. /\ Frame(kind, point) \in Frames
      /\ Frame(kind, point).code = kind
      /\ Frame(kind, point).at = point
  BY FrameType
<1>3. /\ Len(t) = Len(s) + 1
      /\ \A i \in 1..Len(s) : t[i] = s[i]
      /\ t[Len(s) + 1] = Frame(kind, point)
  BY <1>2, CallStack
<1> HIDE DEF t
<1>4. \A i \in 1..Len(t) : i \in 1..Len(s) \/ i = Len(s) + 1
  BY <1>1, <1>3
<1>5. ASSUME NEW i \in 2..Len(t), t[i].code = "on_pause"
      PROVE  t[i - 1].at = "churn"
  <2>1. CASE i \in 1..Len(s)
    BY <1>1, <1>3, <1>5, <2>1 DEF WellShaped
  <2>2. CASE i = Len(s) + 1
    BY <1>1, <1>2, <1>3, <1>5, <2>2
  <2> QED
    BY <1>1, <1>3, <2>1, <2>2
<1>6. \A i \in 1..Len(t) :
        /\ t[i].code # "interrupt"
        /\ t[i].at \in {"poll", "polled", "reinsert"} => t[i].code \in Calls
  BY <1>2, <1>3, <1>4 DEF WellShaped
<1>7. WellShaped(t)
  BY <1>5, <1>6 DEF WellShaped
<1> QED
  BY <1>7 DEF t

LEMMA ReturnShape ==
  ASSUME stack \in Seq(Frames), Len(stack) > 1, WellShaped(stack)
  PROVE  WellShaped(Return)
BY ReturnStack DEF WellShaped

-----------------------------------------------------------------------------
(* Pauses hold.  PauseHolds alone is not inductive: a frame that on_pause     *)
(* returns to must be one that churns the queue, and no exception may be on   *)
(* its way when a pause begins, since user code could catch it.               *)

Quiet == interrupts = 0 /\ ~registered /\ WellShaped(stack)

HeldFast == fsm \in Paused => exc = "none" /\ Top.at \in {"churn", "test"}

PauseInv == ControlInv /\ Quiet /\ HeldFast

LEMMA StackFacts ==
  ASSUME PauseInv
  PROVE  /\ stack \in Seq(Frames) /\ stack # <<>>
         /\ Len(stack) \in Nat /\ Len(stack) > 0
         /\ queue \in Seq(InterpreterCommand)
         /\ queue # <<>> => Head(queue) \in InterpreterCommand
         /\ WellShaped(stack)
         /\ Top.code = "worker" <=> Len(stack) = 1
         /\ Top.at # "churn" => Len(stack) > 1
         /\ TypeInv
<1>1. TypeInv /\ WellShaped(stack)
  BY DEF PauseInv, ControlInv, Quiet
<1>2. /\ stack \in Seq(Frames) /\ stack # <<>>
      /\ queue \in Seq(InterpreterCommand)
  BY <1>1 DEF TypeInv, TypeOK
<1> QED
  BY <1>1, <1>2, LoopAlone

\* A command that is executed begins no pause.
LEMMA ExecuteKeepsPause ==
  ASSUME PauseInv, UNCHANGED interrupts,
         NEW command \in InterpreterCommand, NEW caller \in Seq(Frames),
         caller # <<>>, WellShaped(caller), Execute(command, caller)
  PROVE  /\ Quiet'
         /\ fsm' \in Paused => UNCHANGED <<fsm, exc>> /\ stack' = caller
<1> DEFINE event == EventOf[command]
<1>1. event \in Events /\ event # "next"
  BY DEF InterpreterCommand, EventOf, Events
<1>2. CASE ~Can(event, fsm)
  BY <1>2 DEF Execute, PauseInv, Quiet
<1>3. CASE Can(event, fsm)
  <2>1. fsm' \notin Paused
    BY <1>1, <1>3, FireIsArc, PausedArcs DEF Execute, Enter
  <2>2. WellShaped(stack')
    <3>1. \/ stack' = caller
          \/ stack' = Append(caller, Frame("program", "imports"))
          \/ stack' = Append(caller, Frame("mdi", "imports"))
      BY <1>3 DEF Execute, Running
    <3> QED
      BY <3>1, CallShape DEF UserCode, Points
  <2>3. interrupts' = 0 /\ ~registered'
    BY <1>3 DEF Execute, PauseInv, Quiet
  <2> QED
    BY <2>1, <2>2, <2>3 DEF Quiet, WellShaped
<1> QED
  BY <1>2, <1>3

LEMMA ChurnKeepsPause ==
  ASSUME PauseInv, Uninterrupted,
         HandleInterrupt \/ Churn \/ SpinWhilePaused \/ PeekCommand \/ PutBack
  PROVE  (Quiet /\ HeldFast)'
<1> USE StackFacts DEF Points
<1>1. \A point \in Points :
        /\ Goto(point) \in Seq(Frames)
        /\ Goto(point) # <<>>
        /\ Len(Goto(point)) = Len(stack)
        /\ Goto(point)[Len(stack)].at = point
        /\ (point \in {"poll", "polled", "reinsert"} => Top.code \in Calls)
             => WellShaped(Goto(point))
  <2> TAKE point \in Points
  <2>1. /\ Goto(point) \in Seq(Frames)
        /\ Len(Goto(point)) = Len(stack)
        /\ Goto(point)[Len(stack)].at = point
    <3>1. Len(stack) \in 1..Len(stack)
      OBVIOUS
    <3> QED
      BY GotoStack, <3>1
  <2>2. Goto(point) # <<>>
    BY <2>1
  <2>3. (point \in {"poll", "polled", "reinsert"} => Top.code \in Calls)
          => WellShaped(Goto(point))
    BY GotoShape
  <2> QED
    BY <2>1, <2>2, <2>3
<1>2. Top.at \in {"poll", "polled", "reinsert"} => Top.code \in Calls
  BY DEF WellShaped, Top
<1>3. CASE HandleInterrupt
  BY <1>3 DEF HandleInterrupt, PauseInv, Quiet
<1>4. CASE Churn
  <2> DEFINE caller == IF Top.code = "worker" THEN stack ELSE Goto("test")
  <2>1. /\ caller \in Seq(Frames) /\ caller # <<>> /\ WellShaped(caller)
        /\ caller[Len(caller)].at \in {"churn", "test"}
    BY <1>1, <1>4 DEF Churn, At, Top
  <2>2. CASE queue = <<>>
    <3>1. /\ stack' = caller
          /\ UNCHANGED <<fsm, exc, interrupts, registered>>
          /\ exc = "none"
      BY <1>4, <2>2 DEF Churn, At
    <3> QED
      BY <2>1, <3>1 DEF PauseInv, Quiet, HeldFast, WellShaped, Top
  <2>3. CASE queue # <<>>
    <3>1. /\ Execute(Head(queue), caller) /\ UNCHANGED interrupts
          /\ exc = "none"
      BY <1>4, <2>3 DEF Churn, At
    <3>2. /\ Quiet'
          /\ fsm' \in Paused => UNCHANGED <<fsm, exc>> /\ stack' = caller
      BY <2>1, <2>3, <3>1, ExecuteKeepsPause
    <3> QED
      BY <2>1, <3>1, <3>2 DEF HeldFast, Top
  <2> QED
    BY <2>2, <2>3
<1>5. CASE SpinWhilePaused
  <2>1. CASE fsm \in PrePausedStates
    <3>1. stack' = Append(Goto("churn"), Frame("on_pause", "code"))
          /\ UNCHANGED <<interrupts, registered>>
      BY <1>5, <2>1
      DEF SpinWhilePaused, PrePausedStates, PausedStates, Paused, MdiPaused
    <3>2. WellShaped(stack')
      BY <1>1, <3>1, CallShape DEF UserCode
    <3>3. fsm' \in OnPaused
      <4>1. Can("next", fsm)
        BY <2>1 DEF PrePausedStates, Can, States, Transitions, HandlerArcs, Arc, OnPaused
      <4>2. <<"next", fsm, fsm'>> \in Transitions
        BY <1>5, <2>1, <4>1, FireIsArc DEF SpinWhilePaused, Enter,
           PrePausedStates, PausedStates, Paused, MdiPaused
      <4> QED
        BY <2>1, <4>2, HandlerArcsLead
    <3> QED
      BY <3>1, <3>2, <3>3 DEF PauseInv, Quiet, HeldFast, WellShaped, OnPaused, Paused
  <2>2. CASE fsm \notin PrePausedStates
    <3>1. /\ UNCHANGED <<fsm, exc, interrupts, registered>>
          /\ exc = "none"
          /\ \/ stack' = Goto("churn")
             \/ fsm \notin Paused /\ stack' = Goto("code")
             \/ /\ fsm \notin Paused /\ stack' = Goto("poll")
                /\ Top.code \notin UserCode
      BY <1>5, <2>2 DEF SpinWhilePaused, At, PausedStates
    <3>2. Top.code # "worker" /\ Top \in Frames
      BY <1>5 DEF SpinWhilePaused, At, Top
    <3>3. Top.code \notin UserCode => Top.code \in Calls
      BY <3>2 DEF Frames
    <3>4. WellShaped(stack')
      BY <1>1, <3>1, <3>3
    <3>5. stack' = Goto("churn") => Top'.at = "churn"
      BY <1>1 DEF Top
    <3> QED
      BY <3>1, <3>4, <3>5 DEF PauseInv, Quiet, HeldFast, WellShaped
  <2> QED
    BY <2>1, <2>2
<1>6. CASE PeekCommand
  <2>1. fsm \notin Paused
    BY <1>6 DEF PeekCommand, At, PauseInv, HeldFast
  <2>2. CASE queue # <<>> /\ Head(queue) \in Peek
    <3>1. Execute(Head(queue), Goto("polled")) /\ UNCHANGED interrupts
      BY <1>6, <2>2 DEF PeekCommand
    <3> QED
      BY <1>1, <1>2, <1>6, <2>1, <2>2, <3>1, ExecuteKeepsPause
      DEF PeekCommand, At, HeldFast
  <2>3. CASE ~(queue # <<>> /\ Head(queue) \in Peek)
    <3>1. /\ UNCHANGED <<fsm, interrupts, registered>>
          /\ (stack' = Goto("polled") \/ stack' = Goto("reinsert"))
      BY <1>6, <2>3 DEF PeekCommand
    <3> QED
      BY <1>1, <1>2, <1>6, <2>1, <3>1
      DEF PeekCommand, At, PauseInv, Quiet, HeldFast, WellShaped
  <2> QED
    BY <2>2, <2>3
<1>7. CASE PutBack
  <2>1. fsm \notin Paused
    BY <1>7 DEF PutBack, At, PauseInv, HeldFast
  <2> QED
    BY <1>1, <1>2, <1>7, <2>1
    DEF PutBack, At, PauseInv, Quiet, HeldFast, WellShaped
<1> QED
  BY <1>3, <1>4, <1>5, <1>6, <1>7

LEMMA CodeKeepsPause ==
  ASSUME PauseInv, Uninterrupted,
         \/ PauseCommandRaised \/ CommandWaits \/ CommandReturns
         \/ ImportModules \/ NextLine \/ CallCommand \/ CallPause
         \/ RegisterInterrupt \/ CodeRaises \/ InterruptReturns \/ HandlerReturns
  PROVE  (Quiet /\ HeldFast)'
<1> USE StackFacts DEF Points
<1>1. Top.at \in {"polled", "imports", "code"} /\ exc = "none"
  BY DEF PauseCommandRaised, CommandWaits, CommandReturns, ImportModules,
     NextLine, CallCommand, CallPause, RegisterInterrupt, CodeRaises,
     InterruptReturns, HandlerReturns, At
<1>2. fsm \notin Paused /\ Len(stack) > 1
  BY <1>1 DEF PauseInv, HeldFast
<1>3. CASE HandlerReturns
  <2>1. /\ WellShaped(Return)
        /\ Len(Return) = Len(stack) - 1
        /\ \A i \in 1..Len(Return) : Return[i] = stack[i]
    BY <1>2, ReturnShape, ReturnStack
  <2>2. /\ stack' = Return /\ exc' = "none"
        /\ UNCHANGED <<interrupts, registered>>
        /\ <<"next", fsm, fsm'>> \in Transitions
    BY <1>3, <1>1, FireIsArc DEF HandlerReturns, Enter
  <2>3. CASE Top.code = "on_pause"
    <3>1. stack[Len(stack) - 1].at = "churn"
      BY <1>2, <2>3 DEF WellShaped, Top
    <3>2. Top'.at = "churn"
      BY <1>2, <2>1, <2>2, <3>1 DEF Top
    <3> QED
      BY <2>1, <2>2, <3>2 DEF PauseInv, Quiet, HeldFast, WellShaped
  <2>4. CASE Top.code = "on_abort"
    <3>1. fsm \in OnAborted
      BY <1>1, <2>4 DEF PauseInv, ControlInv, Control, Executing, Top
    <3>2. fsm' \notin Paused
      BY <2>2, <3>1, HandlerArcsLead DEF Paused
    <3> QED
      BY <2>1, <2>2, <3>2 DEF PauseInv, Quiet, HeldFast, WellShaped
  <2> QED
    BY <1>3, <2>3, <2>4 DEF HandlerReturns
<1>4. CASE ~HandlerReturns
  <2>1. fsm' = fsm /\ UNCHANGED interrupts
    BY <1>4 DEF PauseCommandRaised, CommandWaits, CommandReturns, ImportModules,
       NextLine, CallCommand, CallPause, RegisterInterrupt, CodeRaises,
       InterruptReturns
  <2>2. ~registered'
    BY <1>4 DEF PauseCommandRaised, CommandWaits, CommandReturns, ImportModules,
       NextLine, CallCommand, CallPause, RegisterInterrupt, CodeRaises,
       InterruptReturns, Uninterrupted, PauseInv, Quiet
  <2>3. WellShaped(stack')
    <3>1. CASE CallCommand
      BY <3>1, CallShape DEF CallCommand, Calls
    <3>2. CASE CommandWaits
      <4>1. Top.code \in Calls
        BY <3>2 DEF CommandWaits, At, Top, WellShaped
      <4> QED
        BY <3>2, <4>1, GotoShape DEF CommandWaits
    <3>3. CASE ImportModules \/ NextLine
      BY <3>3, GotoShape DEF ImportModules, NextLine
    <3>4. CASE CommandReturns \/ InterruptReturns
      BY <1>2, <3>4, ReturnShape DEF CommandReturns, InterruptReturns
    <3>5. CASE PauseCommandRaised \/ CallPause \/ RegisterInterrupt \/ CodeRaises
      BY <3>5 DEF PauseCommandRaised, CallPause, RegisterInterrupt, CodeRaises
    <3> QED
      BY <1>4, <3>1, <3>2, <3>3, <3>4, <3>5
  <2> QED
    BY <1>2, <2>1, <2>2, <2>3 DEF PauseInv, Quiet, HeldFast, WellShaped
<1> QED
  BY <1>3, <1>4

LEMMA LoopKeepsPause ==
  ASSUME PauseInv, Uninterrupted,
         \/ Unwind \/ CatchInLoop \/ RunOnAbortHandler \/ WorkerExits
         \/ TriggerInterrupt \/ SafetyInputTripped
  PROVE  (Quiet /\ HeldFast)'
<1> USE StackFacts DEF Points
<1>1. CASE Unwind
  <2>1. /\ fsm \notin Paused /\ fsm' = fsm
        /\ UNCHANGED <<interrupts, registered>>
    BY <1>1 DEF Unwind, PauseInv, HeldFast
  <2>2. WellShaped(stack')
    <3>1. stack' \in {Goto("churn"), Goto("code"), Return} /\ Len(stack) > 1
      BY <1>1 DEF Unwind
    <3> QED
      BY <3>1, GotoShape, ReturnShape
  <2> QED
    BY <2>1, <2>2 DEF PauseInv, Quiet, HeldFast, WellShaped
<1>2. CASE CatchInLoop
  <2>1. fsm \notin Paused /\ UNCHANGED <<stack, interrupts, registered>>
    BY <1>2 DEF CatchInLoop, PauseInv, HeldFast
  <2>2. fsm' \notin Paused
    <3>1. LoopEvent[exc] \in {"none", "stop", "runtime_error"}
      BY <1>2 DEF CatchInLoop, LoopEvent, TypeInv, TypeOK, Exceptions
    <3>2. LoopEvent[exc] # "none" /\ Can(LoopEvent[exc], fsm)
            /\ Enter(LoopEvent[exc]) => fsm' \notin Paused
      BY <3>1, FireIsArc, PausedArcs DEF Enter, Events
    <3> QED
      BY <1>2, <2>1, <3>2 DEF CatchInLoop
  <2> QED
    BY <2>1, <2>2 DEF PauseInv, Quiet, HeldFast, WellShaped
<1>3. CASE RunOnAbortHandler
  <2>1. UNCHANGED <<exc, interrupts, registered>> /\ exc = "none"
    BY <1>3 DEF RunOnAbortHandler, InLoop, At
  <2>2. CASE fsm \in PreAbortStates
    <3>1. WellShaped(stack')
      BY <1>3, <2>2, CallShape DEF RunOnAbortHandler, UserCode
    <3>2. fsm' \in OnAborted
      <4>1. Can("next", fsm)
        BY <2>2 DEF PreAbortStates, Can, States, Transitions, HandlerArcs, Arc, OnAborted
      <4> QED
        BY <1>3, <2>2, <4>1, FireIsArc, HandlerArcsLead DEF RunOnAbortHandler, Enter
    <3> QED
      BY <2>1, <3>1, <3>2 DEF PauseInv, Quiet, HeldFast, WellShaped, OnAborted, Paused
  <2>3. CASE fsm \notin PreAbortStates
    <3>1. UNCHANGED <<fsm, stack>>
      BY <1>3, <2>3 DEF RunOnAbortHandler
    <3> QED
      BY <2>1, <3>1 DEF PauseInv, Quiet, HeldFast, WellShaped, Top
  <2> QED
    BY <2>2, <2>3
<1>4. CASE WorkerExits
  BY <1>4 DEF WorkerExits, PauseInv, Quiet, HeldFast, WellShaped, Top
<1>5. CASE TriggerInterrupt
  BY <1>5 DEF TriggerInterrupt, PauseInv, Quiet
<1>6. CASE SafetyInputTripped
  BY <1>6 DEF SafetyInputTripped, PauseInv, Quiet, HeldFast, WellShaped, Top
<1> QED
  BY <1>1, <1>2, <1>3, <1>4, <1>5, <1>6

LEMMA InitPause == Init => PauseInv
<1> SUFFICES ASSUME Init PROVE PauseInv
  OBVIOUS
<1>1. ControlInv
  BY InitControl
<1>2. /\ stack = <<Frame("worker", "churn")>>
      /\ Frame("worker", "churn") \in Frames
      /\ Frame("worker", "churn").code = "worker"
      /\ Frame("worker", "churn").at = "churn"
  BY FrameType DEF Init, ProcessInit, Points
<1>3. WellShaped(stack)
  BY <1>2 DEF WellShaped
<1> QED
  BY <1>1, <1>3 DEF PauseInv, Quiet, HeldFast, Init, ProcessInit, Paused

LEMMA StepKeepsPause ==
  ASSUME Uninterrupted
  PROVE  PauseInv /\ [Next]_vars => PauseInv'
<1> SUFFICES ASSUME PauseInv, [Next]_vars PROVE (Quiet /\ HeldFast)'
  BY StepKeepsControl DEF PauseInv
<1>1. CASE ProcessNext /\ UNCHANGED hostVars
  BY <1>1, ChurnKeepsPause, CodeKeepsPause, LoopKeepsPause
  DEF ProcessNext, ProcessStep
<1>2. CASE HostNext
  BY <1>2, HostKeepsWork DEF workVars, PauseInv, Quiet, HeldFast, WellShaped, Top
<1>3. CASE UNCHANGED vars
  BY <1>3 DEF vars, processVars, PauseInv, Quiet, HeldFast, WellShaped, Top
<1> QED
  BY <1>1, <1>2, <1>3 DEF Next

LEMMA PauseInvariant ==
  ASSUME Uninterrupted
  PROVE  Spec => []PauseInv
<1>1. PauseInv /\ [Next]_vars => PauseInv'
  BY StepKeepsPause
<1> QED
  BY <1>1, InitPause, PTL DEF Spec

\* A paused program does not advance, whatever it was doing when it was paused
\* and whatever commands arrive meanwhile.
THEOREM PausesHold ==
  ASSUME Uninterrupted
  PROVE  Spec => []PauseHolds
<1>1. PauseInv => PauseHolds
  BY DEF PauseInv, HeldFast, PauseHolds
<1> QED
  BY <1>1, PauseInvariant, PTL

\* A robot command of a program is not taken for done because it was paused:
\* while it looks at the state, the state is Running.
THEOREM CommandsAreFinished ==
  ASSUME Uninterrupted
  PROVE  Spec => []CommandNotAbandoned
<1>1. PauseInv /\ HostInv => CommandNotAbandoned
  <2> SUFFICES ASSUME PauseInv, HostInv, At("polled"), Executing("program"),
                      fsm \notin PrePausedStates
               PROVE  reported = "Running"
    BY DEF CommandNotAbandoned
  <2>1. fsm \in ProgramStates /\ fsm \notin Paused
    BY DEF At, PauseInv, ControlInv, Control, HeldFast
  <2>2. fsm \in {"running", "running_step"} \cup OnPaused
    BY <2>1 DEF ProgramStates
  <2>3. fsm \notin Unreported /\ Report(fsm) = "Running"
    BY <2>2 DEF Unreported, PrePausedStates, PreAbortStates, OnPaused, Report,
       ReportedPaused, MdiPaused
  <2> QED
    BY <2>3 DEF HostInv, HostCatchesUp
<1>2. Spec => []HostInv
  BY InitHost, StepKeepsHost, PTL DEF Spec
<1> QED
  BY <1>1, <1>2, PauseInvariant, PTL

-----------------------------------------------------------------------------
(* The FSM says what executes, as long as user code catches nothing either: a *)
(* program that goes on after an error on its way may have lost an on_pause.  *)

Uncaught == Catching = {}

Roots == {"program", "mdi", "on_abort"}

\* What the loop calls is a program, an MDI command or on_abort, and it calls
\* them again only when the FSM has left their states.
Matched ==
  /\ Len(stack) > 1 => stack[2].code \in Roots
  /\ exc = "none" /\ Len(stack) = 1 => fsm \notin Active
  /\ exc = "none" /\ fsm \in PrePausedStates
       => Top.at \in {"churn", "test", "polled"}
  /\ exc = "ProgramExit" => fsm \notin Active
  /\ exc = "SystemExit"  => fsm \notin PrePausedStates

StateInv == PauseInv /\ Matched

LEMMA ArcsBetweenPrograms ==
  ASSUME NEW event \in CommandEvents \ {"start", "mdi"}, NEW s, NEW d,
         <<event, s, d>> \in Transitions, s \notin Active
  PROVE  d \notin Active
BY DEF CommandEvents, Events, Transitions, LoadArcs, StartArcs, StopProgramArcs,
       StopMdiArcs, StopArcs, PauseArcs, ContinueArcs, HandlerArcs, ErrorArcs,
       Updates, ReloadChecks, Arc, Loop, Active, ProgramStates, MdiStates, Paused,
       MdiRunning, MdiPaused, OnPaused, OnAborted, PrePausedStates

LEMMA ArcsThatEnd ==
  ASSUME NEW event \in {"stop", "runtime_error"}, NEW s, NEW d,
         <<event, s, d>> \in Transitions
  PROVE  d \notin Active
BY DEF Events, Transitions, LoadArcs, StartArcs, StopProgramArcs,
       StopMdiArcs, StopArcs, PauseArcs, ContinueArcs, HandlerArcs, ErrorArcs,
       Updates, ReloadChecks, Arc, Loop, Active, ProgramStates, MdiStates, Paused,
       MdiRunning, MdiPaused, OnPaused, OnAborted, PrePausedStates

LEMMA ExecuteKeepsMatched ==
  ASSUME StateInv, exc = "none",
         NEW command \in InterpreterCommand, NEW caller \in Seq(Frames),
         Len(caller) = Len(stack), Len(caller) > 0,
         Len(caller) > 1 =>
           /\ caller[2].code \in Roots
           /\ caller[Len(caller)].at \in {"test", "polled"},
         Execute(command, caller)
  PROVE  Matched'
<1> DEFINE event == EventOf[command]
<1>1. event \in CommandEvents
  BY DEF InterpreterCommand, EventOf, CommandEvents, Events
<1>2. CASE ~Can(event, fsm)
  <2>1. stack' = caller /\ UNCHANGED <<fsm, exc>>
    BY <1>2 DEF Execute
  <2>2. Len(stack) = 1 => fsm \notin PrePausedStates
    BY DEF StateInv, Matched, Active, ProgramStates
  <2> QED
    BY <2>1, <2>2, StackFacts DEF StateInv, Matched, Top
<1>3. CASE Can(event, fsm)
  <2>1. <<event, fsm, fsm'>> \in Transitions
    BY <1>3, FireIsArc DEF Execute, Enter
  <2>2. exc' \in Raised(event) /\ stack' = Running(event, caller)
    BY <1>3 DEF Execute
  <2>3. CASE event \in {"start", "mdi"}
    <3> DEFINE kind == IF event = "start" THEN "program" ELSE "mdi"
    <3>1. stack' = Append(caller, Frame(kind, "imports"))
      BY <2>2, <2>3 DEF Running
    <3>2. Frame(kind, "imports") \in Frames /\ Frame(kind, "imports").code = kind
      BY FrameType DEF Points, UserCode
    <3>3. Len(stack') > 1 /\ stack'[2].code \in Roots
      BY <3>1, <3>2, CallStack DEF Roots
    <3>4. exc' = "none"
      BY <2>2, <2>3 DEF Raised
    <3>5. fsm' \notin PrePausedStates
      BY <2>1, <2>3, StartArcsLead DEF PrePausedStates, MdiRunning
    <3> QED
      BY <3>3, <3>4, <3>5 DEF Matched
  <2>4. CASE event \notin {"start", "mdi"}
    <3>1. stack' = caller
      BY <2>2, <2>4 DEF Running
    <3>2. Len(stack) = 1 => fsm' \notin Active
      BY <1>1, <2>1, <2>4, ArcsBetweenPrograms DEF StateInv, Matched
    <3>3. exc' = "ProgramExit" => fsm' \notin Active
      BY <2>1, <2>2, ArcsThatEnd DEF Raised
    <3>4. exc' # "SystemExit"
      BY <2>2 DEF Raised
    <3>5. PrePausedStates \subseteq Active
      BY DEF Active, ProgramStates
    <3> QED
      BY <3>1, <3>2, <3>3, <3>4, <3>5, StackFacts DEF StateInv, Matched, Top
  <2> QED
    BY <2>3, <2>4
<1> QED
  BY <1>2, <1>3

LEMMA ChurnKeepsMatched ==
  ASSUME StateInv, Uninterrupted,
         HandleInterrupt \/ Churn \/ SpinWhilePaused \/ PeekCommand \/ PutBack
  PROVE  Matched'
<1> USE DEF Points, StateInv
<1> /\ stack \in Seq(Frames) /\ stack # <<>>
    /\ Len(stack) \in Nat /\ Len(stack) > 0
    /\ queue \in Seq(InterpreterCommand)
    /\ queue # <<>> => Head(queue) \in InterpreterCommand
    /\ WellShaped(stack)
    /\ Top.code = "worker" <=> Len(stack) = 1
    /\ Top.at # "churn" => Len(stack) > 1
    /\ TypeInv
  BY StackFacts
<1>0. stack \in Seq(Frames) /\ stack # <<>> /\ Len(stack) \in Nat /\ Len(stack) > 0
  OBVIOUS
<1>1. \A point \in Points :
        /\ Goto(point) \in Seq(Frames)
        /\ Len(Goto(point)) = Len(stack)
        /\ Goto(point)[Len(stack)].at = point
        /\ Len(stack) > 1 => Goto(point)[2].code = stack[2].code
  <2> TAKE point \in Points
  <2>1. Len(stack) \in 1..Len(stack) /\ (Len(stack) > 1 => 2 \in 1..Len(stack))
    OBVIOUS
  <2>2. /\ Goto(point) \in Seq(Frames)
        /\ Len(Goto(point)) = Len(stack)
        /\ \A i \in 1..Len(stack) :
             /\ Goto(point)[i].code = stack[i].code
             /\ Goto(point)[i].at = IF i = Len(stack) THEN point ELSE stack[i].at
    BY ONLY <1>0, GotoStack
  <2> QED
    BY ONLY <2>1, <2>2
<1>2. CASE HandleInterrupt
  BY <1>2 DEF HandleInterrupt, PauseInv, Quiet
<1>3. CASE Churn
  <2> DEFINE caller == IF Top.code = "worker" THEN stack ELSE Goto("test")
  <2>1. /\ caller \in Seq(Frames) /\ Len(caller) = Len(stack)
        /\ Len(caller) > 1 => /\ caller[2].code \in Roots
                              /\ caller[Len(caller)].at = "test"
    <3>1. CASE Top.code = "worker"
      <4>1. caller = stack /\ Len(stack) = 1
        BY <3>1
      <4> QED
        BY ONLY <1>0, <4>1
    <3>2. CASE Top.code # "worker"
      <4>1. caller = Goto("test") /\ Len(stack) > 1
        <5>1. caller = Goto("test") /\ Len(stack) # 1
          BY <3>2
        <5>2. \A n \in Nat : n > 0 /\ n # 1 => n > 1
          OBVIOUS
        <5> QED
          BY ONLY <1>0, <5>1, <5>2, Zenon
      <4>2. stack[2].code \in Roots
        BY <4>1 DEF Matched
      <4> QED
        BY ONLY <1>0, <1>1, <4>1, <4>2 DEF Points
    <3> QED
      BY ONLY <3>1, <3>2
  <2>2. exc = "none"
    BY <1>3 DEF Churn, At
  <2>3. CASE queue = <<>>
    <3>1. stack' = caller /\ UNCHANGED <<fsm, exc>>
      BY <1>3, <2>3 DEF Churn
    <3>2. Len(stack) = 1 => fsm \notin PrePausedStates
      BY <2>2 DEF Matched, Active, ProgramStates
    <3> HIDE DEF caller
    <3>3. Len(stack) > 1 => Top'.at = "test"
      BY <2>1, <3>1 DEF Top
    <3>4. exc' = "none" /\ fsm' = fsm
      BY <2>2, <3>1
    <3>5. Len(stack') = Len(stack) /\ (Len(stack) > 1 => stack'[2].code \in Roots)
      BY <2>1, <3>1
    <3>6. Len(stack) = 1 => fsm \notin Active
      BY <2>2 DEF Matched
    <3> QED
      BY <3>2, <3>3, <3>4, <3>5, <3>6 DEF Matched
  <2>4. CASE queue # <<>>
    BY <1>3, <2>1, <2>2, <2>4, ExecuteKeepsMatched DEF Churn
  <2> QED
    BY <2>3, <2>4
<1>4. CASE SpinWhilePaused
  <2>1. exc = "none" /\ UNCHANGED exc /\ Len(stack) > 1
    BY <1>4 DEF SpinWhilePaused, At
  <2>2. CASE fsm \in PrePausedStates
    <3>1. /\ stack' = Append(Goto("churn"), Frame("on_pause", "code"))
          /\ Enter("next")
      BY <1>4, <2>2
      DEF SpinWhilePaused, PrePausedStates, PausedStates, Paused, MdiPaused
    <3>2. fsm' \notin PrePausedStates
      <4>1. Can("next", fsm)
        BY <2>2 DEF PrePausedStates, Can, States, Transitions, HandlerArcs, Arc, OnPaused
      <4> QED
        BY <2>2, <3>1, <4>1, FireIsArc, HandlerArcsLead
        DEF Enter, OnPaused, PrePausedStates
    <3>3. Len(stack') > 1 /\ stack'[2].code = stack[2].code
      BY <1>1, <2>1, <3>1, CallStack, FrameType DEF UserCode
    <3> QED
      BY <2>1, <3>2, <3>3 DEF Matched
  <2>3. CASE fsm \notin PrePausedStates
    <3>1. fsm' = fsm /\ \E point \in Points : stack' = Goto(point)
      BY <1>4, <2>3 DEF SpinWhilePaused
    <3> QED
      BY <1>1, <2>1, <2>3, <3>1 DEF Matched
  <2> QED
    BY <2>2, <2>3
<1>5. CASE PeekCommand
  <2>1. exc = "none" /\ Len(stack) > 1 /\ fsm \notin PrePausedStates
    BY <1>5 DEF PeekCommand, At, Matched
  <2>2. CASE queue # <<>> /\ Head(queue) \in Peek
    <3>1. Execute(Head(queue), Goto("polled"))
      BY <1>5, <2>2 DEF PeekCommand
    <3> QED
      BY <1>1, <2>1, <2>2, <3>1, ExecuteKeepsMatched DEF Matched
  <2>3. CASE ~(queue # <<>> /\ Head(queue) \in Peek)
    <3>1. /\ UNCHANGED <<fsm, exc>>
          /\ (stack' = Goto("polled") \/ stack' = Goto("reinsert"))
      BY <1>5, <2>3 DEF PeekCommand
    <3> QED
      BY <1>1, <2>1, <3>1 DEF Matched
  <2> QED
    BY <2>2, <2>3
<1>6. CASE PutBack
  <2>1. stack' = Goto("polled") /\ UNCHANGED <<fsm, exc>> /\ Len(stack) > 1
    BY <1>6 DEF PutBack, At
  <2> QED
    BY <1>1, <2>1 DEF Matched, Top
<1> QED
  BY <1>2, <1>3, <1>4, <1>5, <1>6

LEMMA CodeKeepsMatched ==
  ASSUME StateInv, Uninterrupted,
         \/ PauseCommandRaised \/ CommandWaits \/ CommandReturns
         \/ ImportModules \/ NextLine \/ CallCommand \/ CallPause
         \/ RegisterInterrupt \/ CodeRaises \/ InterruptReturns \/ HandlerReturns
  PROVE  Matched'
<1> USE DEF Points, StateInv
<1> /\ stack \in Seq(Frames) /\ stack # <<>>
    /\ Len(stack) \in Nat /\ Len(stack) > 0
    /\ queue \in Seq(InterpreterCommand)
    /\ queue # <<>> => Head(queue) \in InterpreterCommand
    /\ WellShaped(stack)
    /\ Top.code = "worker" <=> Len(stack) = 1
    /\ Top.at # "churn" => Len(stack) > 1
    /\ TypeInv
  BY StackFacts
<1>0. stack \in Seq(Frames) /\ stack # <<>> /\ Len(stack) \in Nat /\ Len(stack) > 0
  OBVIOUS
<1>1. /\ Top.at \in {"polled", "imports", "code"} /\ exc = "none"
      /\ Len(stack) > 1 /\ stack[2].code \in Roots
  BY DEF PauseCommandRaised, CommandWaits, CommandReturns, ImportModules,
     NextLine, CallCommand, CallPause, RegisterInterrupt, CodeRaises,
     InterruptReturns, HandlerReturns, At, Matched
<1>2. \A point \in Points :
        Len(Goto(point)) = Len(stack) /\ Goto(point)[2].code = stack[2].code
  <2> TAKE point \in Points
  <2>1. 2 \in 1..Len(stack)
    BY <1>1
  <2>2. /\ Len(Goto(point)) = Len(stack)
        /\ \A i \in 1..Len(stack) : Goto(point)[i].code = stack[i].code
    BY ONLY <1>0, GotoStack
  <2> QED
    BY <2>1, <2>2
<1>3. /\ Len(Return) = Len(stack) - 1
      /\ Len(Return) > 1 => Return[2] = stack[2]
  BY <1>1, ReturnStack
<1>4. Len(Return) = 1 => Top.code \in Roots
  <2>1. Len(Return) = 1 => Len(stack) = 2
    <3>1. Len(stack) \in Nat /\ Len(Return) = Len(stack) - 1
      BY ONLY <1>0, <1>3
    <3>2. \A n \in Nat : n - 1 = 1 => n = 2
      OBVIOUS
    <3> QED
      BY ONLY <3>1, <3>2, Zenon
  <2> QED
    BY <1>1, <2>1 DEF Top
<1>5. CASE HandlerReturns
  <2>1. /\ stack' = Return /\ exc' = "none"
        /\ <<"next", fsm, fsm'>> \in Transitions
        /\ Top.code \in {"on_pause", "on_abort"}
    BY <1>5, <1>1, FireIsArc DEF HandlerReturns, Enter
  <2>2. fsm \in OnPaused \cup OnAborted /\ (Top.code = "on_abort" => fsm \in OnAborted)
    BY <1>1, <2>1 DEF PauseInv, ControlInv, Control, Executing, Top
  <2>3. fsm' \in Paused \cup {"stopped", "errored"}
    BY <2>1, <2>2, HandlerArcsLead
  <2>4. fsm \in OnAborted => fsm' \notin Active
    <3>1. fsm \in OnAborted => fsm' \in {"stopped", "errored"}
      BY <2>1, HandlerArcsLead
    <3> QED
      BY <3>1 DEF Active, ProgramStates, MdiStates, Paused, PrePausedStates,
         OnPaused, OnAborted, MdiRunning, MdiPaused
  <2>5. fsm' \notin PrePausedStates
    BY <2>3 DEF Paused, PrePausedStates
  <2> QED
    BY <1>1, <1>3, <1>4, <2>1, <2>2, <2>4, <2>5 DEF Matched, Roots
<1>6. CASE CommandReturns
  <2>1. Len(Return) > 1
    BY <1>1, <1>3, <1>4, <1>6 DEF CommandReturns, At, WellShaped, Top, Calls, Roots
  <2> QED
    BY <1>1, <1>3, <1>6, <2>1 DEF CommandReturns, Matched
<1>7. CASE InterruptReturns
  BY <1>7 DEF InterruptReturns, WellShaped, Top
<1>8. CASE CommandWaits \/ ImportModules \/ NextLine
  <2>1. /\ fsm' = fsm /\ exc' \in {"none", "Error"}
        /\ fsm \notin PrePausedStates
        /\ stack' = stack \/ \E point \in Points : stack' = Goto(point)
    BY <1>1, <1>8 DEF CommandWaits, ImportModules, NextLine, At, Matched
  <2> QED
    BY <1>1, <1>2, <2>1 DEF Matched
<1>9. CASE CallCommand
  <2>1. Len(stack') > 1 /\ stack'[2].code = stack[2].code
    BY <1>1, <1>9, CallStack, FrameType DEF CallCommand, Calls
  <2> QED
    BY <1>1, <1>9, <2>1 DEF CallCommand, At, Matched
<1>10. CASE PauseCommandRaised \/ CallPause \/ RegisterInterrupt \/ CodeRaises
  BY <1>1, <1>10 DEF PauseCommandRaised, CallPause, RegisterInterrupt, CodeRaises,
     At, Matched, Top
<1> QED
  BY <1>5, <1>6, <1>7, <1>8, <1>9, <1>10

LEMMA LoopKeepsMatched ==
  ASSUME StateInv, Uncaught,
         \/ Unwind \/ CatchInLoop \/ RunOnAbortHandler \/ WorkerExits
         \/ TriggerInterrupt \/ SafetyInputTripped
  PROVE  Matched'
<1> USE DEF Points, StateInv
<1> /\ stack \in Seq(Frames) /\ stack # <<>>
    /\ Len(stack) \in Nat /\ Len(stack) > 0
    /\ queue \in Seq(InterpreterCommand)
    /\ queue # <<>> => Head(queue) \in InterpreterCommand
    /\ WellShaped(stack)
    /\ Top.code = "worker" <=> Len(stack) = 1
    /\ Top.at # "churn" => Len(stack) > 1
    /\ TypeInv
  BY StackFacts
<1>0. stack \in Seq(Frames) /\ stack # <<>> /\ Len(stack) \in Nat /\ Len(stack) > 0
  OBVIOUS
<1>1. CASE Unwind
  <2>1. Len(stack) > 1 /\ stack[2].code \in Roots /\ exc # "none" /\ fsm' = fsm
    BY <1>1 DEF Unwind, Matched
  <2>2. CASE stack' = Return /\ exc' = exc
    <3>1. Len(stack') > 1 => stack'[2] = stack[2]
      BY <2>1, <2>2, ReturnStack
    <3> QED
      BY <2>1, <2>2, <3>1 DEF Matched
  <2>3. CASE stack' = Goto("churn") /\ exc' = "none"
    <3>1. 2 \in 1..Len(stack) /\ Len(stack) \in 1..Len(stack)
      BY <2>1
    <3>2. /\ Len(stack') = Len(stack) /\ stack'[2].code = stack[2].code
          /\ stack'[Len(stack)].at = "churn"
      BY <2>3, <3>1, GotoStack
    <3> QED
      BY <2>1, <2>3, <3>2 DEF Matched, Top
  <2> QED
    BY <1>1, <2>2, <2>3 DEF Unwind, Uncaught
<1>2. CASE CatchInLoop
  <2>1. /\ stack' = stack /\ Len(stack) = 1 /\ exc # "none"
        /\ exc \in Exceptions
    BY <1>2 DEF CatchInLoop, TypeInv, TypeOK
  <2>2. CASE LoopEvent[exc] # "none" /\ Can(LoopEvent[exc], fsm)
    <3>1. LoopEvent[exc] \in {"stop", "runtime_error"}
      BY <2>1, <2>2 DEF LoopEvent, Exceptions
    <3>2. Enter(LoopEvent[exc]) /\ exc' = "none"
      BY <1>2, <2>2, <3>1 DEF CatchInLoop
    <3>3. fsm' \notin Active
      BY <2>2, <3>1, <3>2, FireIsArc, ArcsThatEnd DEF Enter
    <3> QED
      BY <2>1, <3>2, <3>3 DEF Matched, Active, ProgramStates
  <2>3. CASE ~(LoopEvent[exc] # "none" /\ Can(LoopEvent[exc], fsm))
    <3>1. fsm' = fsm
      BY <1>2, <2>3 DEF CatchInLoop
    <3>2. exc' = "none" => exc \in {"ProgramExit", "SystemExit"}
      BY <1>2, <2>1, <2>3 DEF CatchInLoop, LoopEvent, Exceptions
    <3>3. exc = "SystemExit" => fsm \notin Active
      <4>1. exc = "SystemExit" => ~Can("stop", fsm)
        BY <2>3 DEF LoopEvent
      <4> QED
        BY <4>1, StopIsTaken DEF Matched
    <3>4. exc' = "none" => fsm \notin Active
      BY <3>2, <3>3 DEF Matched
    <3>5. exc' # "none" => exc' = exc
      BY <1>2, <2>3 DEF CatchInLoop
    <3>6. PrePausedStates \subseteq Active
      BY DEF Active, ProgramStates
    <3> QED
      BY <2>1, <3>1, <3>4, <3>5, <3>6 DEF Matched
  <2> QED
    BY <2>2, <2>3
<1>3. CASE RunOnAbortHandler
  <2>1. exc = "none" /\ exc' = "none" /\ Len(stack) = 1
    BY <1>3 DEF RunOnAbortHandler, InLoop, At
  <2>2. CASE fsm \in PreAbortStates
    <3>1. stack' = Append(stack, Frame("on_abort", "code")) /\ Enter("next")
      BY <1>3, <2>2 DEF RunOnAbortHandler
    <3>2. Len(stack') = 2 /\ stack'[2].code = "on_abort"
      <4>1. /\ Frame("on_abort", "code") \in Frames
            /\ Frame("on_abort", "code").code = "on_abort"
        BY FrameType DEF UserCode
      <4> QED
        <5>1. /\ Len(stack') = Len(stack) + 1
              /\ stack'[Len(stack) + 1] = Frame("on_abort", "code")
          BY ONLY <1>0, <3>1, <4>1, CallStack
        <5> QED
          BY ONLY <2>1, <4>1, <5>1
    <3>3. fsm' \in OnAborted
      <4>1. Can("next", fsm)
        BY <2>2 DEF PreAbortStates, Can, States, Transitions, HandlerArcs, Arc, OnAborted
      <4> QED
        BY <2>2, <3>1, <4>1, FireIsArc, HandlerArcsLead DEF Enter
    <3> QED
      BY <2>1, <3>2, <3>3 DEF Matched, Roots, OnAborted, PrePausedStates
  <2>3. CASE fsm \notin PreAbortStates
    BY <1>3, <2>1, <2>3 DEF RunOnAbortHandler, Matched, Top
  <2> QED
    BY <2>2, <2>3
<1>4. CASE WorkerExits
  BY <1>4 DEF WorkerExits, Matched, Top
<1>5. CASE TriggerInterrupt
  BY <1>5 DEF TriggerInterrupt, PauseInv, Quiet
<1>6. CASE SafetyInputTripped
  BY <1>6 DEF SafetyInputTripped, Matched, Top
<1> QED
  BY <1>1, <1>2, <1>3, <1>4, <1>5, <1>6

LEMMA InitMatched == Init => StateInv
<1> SUFFICES ASSUME Init PROVE StateInv
  OBVIOUS
<1>1. Len(stack) = 1 /\ fsm = "idle" /\ exc = "none"
  BY DEF Init, ProcessInit
<1>2. fsm \notin Active
  BY <1>1 DEF Active, ProgramStates, MdiStates, Paused, PrePausedStates, OnPaused,
     OnAborted, MdiRunning, MdiPaused
<1> QED
  BY <1>1, <1>2, InitPause DEF StateInv, Matched, Active, ProgramStates

LEMMA StepKeepsMatched ==
  ASSUME Uninterrupted, Uncaught
  PROVE  StateInv /\ [Next]_vars => StateInv'
<1> SUFFICES ASSUME StateInv, [Next]_vars PROVE Matched'
  BY StepKeepsPause DEF StateInv
<1>1. CASE ProcessNext /\ UNCHANGED hostVars
  BY <1>1, ChurnKeepsMatched, CodeKeepsMatched, LoopKeepsMatched
  DEF ProcessNext, ProcessStep
<1>2. CASE HostNext
  BY <1>2, HostKeepsWork DEF workVars, StateInv, Matched, Top
<1>3. CASE UNCHANGED vars
  BY <1>3 DEF vars, processVars, StateInv, Matched, Top
<1> QED
  BY <1>1, <1>2, <1>3 DEF Next

\* The FSM claims that a program, an MDI command or on_abort executes only while
\* its code is on the stack.
THEOREM StateIsTrue ==
  ASSUME Uninterrupted, Uncaught
  PROVE  Spec => []StateMatchesControl
<1>1. StateInv => StateMatchesControl
  <2> SUFFICES ASSUME StateInv, exc = "none", fsm \in Active
               PROVE  /\ fsm \in ProgramStates => Executing("program")
                      /\ fsm \in MdiStates     => Executing("mdi")
                      /\ fsm \in OnAborted     => Executing("on_abort")
    BY DEF StateMatchesControl, Active
  <2>1. Len(stack) > 1
    <3>1. Len(stack) \in Nat /\ Len(stack) > 0
      BY StackFacts DEF StateInv
    <3>2. Len(stack) # 1
      BY DEF StateInv, Matched
    <3> QED
      BY <3>1, <3>2
  <2>2. 2 \in 1..Len(stack) /\ stack[2].code \in Roots
    BY <2>1, StackFacts DEF StateInv, Matched
  <2>3. Executing("program") \/ Executing("mdi") \/ Executing("on_abort")
    BY <2>2 DEF Executing, Roots
  <2>4. Control
    BY DEF StateInv, PauseInv, ControlInv
  <2>5. /\ fsm \in ProgramStates => fsm \notin MdiStates \cup OnAborted
        /\ fsm \in MdiStates => fsm \notin OnAborted
    BY DEF ProgramStates, MdiStates, Paused, PrePausedStates, OnPaused, OnAborted,
       MdiRunning, MdiPaused
  <2> QED
    BY <2>3, <2>4, <2>5 DEF Control
<1>2. StateInv /\ [Next]_vars => StateInv'
  BY StepKeepsMatched
<1> QED
  BY <1>1, <1>2, InitMatched, PTL DEF Spec

=============================================================================
