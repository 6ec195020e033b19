-------------------------- MODULE InterpreterProofs --------------------------
(***************************************************************************)
(* Theorems about the interpreter, for every choice of user code, requests *)
(* and bounds.                                                             *)
(***************************************************************************)
EXTENDS ProgramInterpreter, TLAPS

-----------------------------------------------------------------------------
(* The state machine. *)

\* The events a command can fire; the others are fired by the process itself.
CommandEvents == Events \ {"next", "runtime_error"}

\* Fire takes one of the arcs of the table.
LEMMA FireIsArc ==
  ASSUME NEW event, NEW s, Can(event, s)
  PROVE  /\ Fire(event, s) \in States
         /\ <<event, s, Fire(event, s)>> \in Transitions
BY DEF Can, Fire

\* A command leaves a program, an MDI command or a handler in the states that
\* are its own, or stops it.
LEMMA CommandArcs ==
  ASSUME NEW event \in CommandEvents, NEW s, NEW d,
         <<event, s, d>> \in Transitions, event # "stop"
  PROVE  /\ s \in ProgramStates => d \in ProgramStates
         /\ s \in MdiStates => d \in MdiStates
         /\ s \in OnPaused => d \in OnPaused
         /\ s \in OnAborted => d \in OnAborted
         /\ d \notin PreAbortStates
BY DEF Transitions, LoadArcs, StartArcs, StopProgramArcs, StopMdiArcs,
       StopArcs, PauseArcs, ContinueArcs, HandlerArcs, ErrorArcs, Updates,
       ReloadChecks, Arc, Loop, CommandEvents, Events, ProgramStates,
       MdiStates, Paused, MdiRunning, MdiPaused, OnPaused, OnAborted,
       PrePausedStates, PreAbortStates

\* User code starts in a state in which none executes.
LEMMA StartArcsLead ==
  ASSUME NEW event, NEW s, NEW d, <<event, s, d>> \in Transitions
  PROVE  /\ event = "start" => s = "stopped" /\ d = "running"
         /\ event = "mdi" => s \in {"idle", "stopped"} /\ d \in MdiRunning
BY DEF Transitions, LoadArcs, StartArcs, StopProgramArcs, StopMdiArcs,
       StopArcs, PauseArcs, ContinueArcs, HandlerArcs, ErrorArcs, Updates,
       ReloadChecks, Arc, Loop, Paused, MdiRunning, MdiPaused, OnPaused,
       OnAborted

\* The way from a pause or an abort through its handler.
LEMMA HandlerArcsLead ==
  ASSUME NEW s, NEW d, <<"next", s, d>> \in Transitions
  PROVE  /\ s \in PrePausedStates => d \in OnPaused
         /\ s \in OnPaused => d \in Paused
         /\ s \in PreAbortStates => d \in OnAborted
         /\ s \in OnAborted => d \in {"stopped", "errored"}
BY DEF Transitions, LoadArcs, StartArcs, StopProgramArcs, StopMdiArcs,
       StopArcs, PauseArcs, ContinueArcs, HandlerArcs, ErrorArcs, Updates,
       ReloadChecks, Arc, Loop, Paused, OnPaused, OnAborted, PrePausedStates,
       PreAbortStates

\* on_abort is not called again for what happens in on_abort, or after it.
LEMMA EndArcs ==
  ASSUME NEW event \in {"stop", "runtime_error"}, NEW s, NEW d,
         <<event, s, d>> \in Transitions,
         s \in OnAborted \cup {"stopped", "errored"}
  PROVE  d \in {"stopped", "errored"}
BY DEF Transitions, LoadArcs, StartArcs, StopProgramArcs, StopMdiArcs,
       StopArcs, PauseArcs, ContinueArcs, HandlerArcs, ErrorArcs, Updates,
       ReloadChecks, Arc, Loop, Paused, OnPaused, OnAborted, MdiRunning,
       MdiPaused

-----------------------------------------------------------------------------
(* The call stack. *)

LEMMA FrameType ==
  ASSUME NEW kind \in UserCode \cup Calls \cup {"worker"}, NEW point \in Points
  PROVE  /\ Frame(kind, point) \in Frames
         /\ Frame(kind, point).code = kind
         /\ Frame(kind, point).at = point
BY DEF Frame, Frames

\* Moving the innermost frame to another point.
LEMMA GotoStack ==
  ASSUME stack \in Seq(Frames), stack # <<>>, NEW point \in Points
  PROVE  /\ Goto(point) \in Seq(Frames)
         /\ Len(Goto(point)) = Len(stack)
         /\ \A i \in 1..Len(stack) :
              /\ Goto(point)[i].code = stack[i].code
              /\ Goto(point)[i].at = IF i = Len(stack) THEN point ELSE stack[i].at
              /\ i # Len(stack) => Goto(point)[i] = stack[i]
<1>1. Len(stack) \in Nat /\ Len(stack) > 0
  OBVIOUS
<1>2. \A i \in 1..Len(stack) : stack[i] \in Frames
  OBVIOUS
<1>3. Goto(point) = [i \in 1..Len(stack) |->
                      IF i = Len(stack) THEN [stack[i] EXCEPT !.at = point]
                                        ELSE stack[i]]
  BY <1>1 DEF Goto
<1>4. \A i \in 1..Len(stack) :
        /\ [stack[i] EXCEPT !.at = point] \in Frames
        /\ [stack[i] EXCEPT !.at = point].at = point
        /\ [stack[i] EXCEPT !.at = point].code = stack[i].code
  BY <1>2 DEF Frames
<1>5. Goto(point) \in Seq(Frames) /\ Len(Goto(point)) = Len(stack)
  BY <1>1, <1>2, <1>3, <1>4
<1> QED
  BY <1>1, <1>3, <1>4, <1>5

\* Leaving the innermost frame.
LEMMA ReturnStack ==
  ASSUME stack \in Seq(Frames), Len(stack) > 1
  PROVE  /\ Return \in Seq(Frames)
         /\ Len(Return) = Len(stack) - 1
         /\ \A i \in 1..Len(Return) : Return[i] = stack[i]
BY DEF Return

\* Calling something.
LEMMA CallStack ==
  ASSUME NEW s \in Seq(Frames), NEW f \in Frames
  PROVE  /\ Append(s, f) \in Seq(Frames)
         /\ Len(Append(s, f)) = Len(s) + 1
         /\ \A i \in 1..Len(s) : Append(s, f)[i] = s[i]
         /\ Append(s, f)[Len(s) + 1] = f
OBVIOUS

-----------------------------------------------------------------------------
(* Types.  A frame is left only above the loop of worker(), and a command    *)
(* that is to be put back is held by the innermost frame.                    *)

WorkerAtBottom ==
  /\ stack[1] = Frame("worker", "churn")
  /\ \A i \in 2..Len(stack) : stack[i].code # "worker"

HeldByTop ==
  \A i \in 1..Len(stack) :
    stack[i].at = "reinsert" => i = Len(stack) /\ held # "none"

TypeInv == TypeOK /\ WorkerAtBottom /\ HeldByTop

LEMMA AtMostOneMessage ==
  ASSUME NEW s, s = <<>> \/ \E m \in Messages : s = <<m>>
  PROVE  s \in Seq(Messages)
<1>1. CASE s = <<>>
  BY <1>1
<1>2. ASSUME NEW m \in Messages, s = <<m>> PROVE s \in Seq(Messages)
  BY <1>2
<1> QED
  BY <1>1, <1>2

LEMMA ReportType == \A s : Report(s) \in ReportStates
BY DEF Report, ReportStates

LEMMA EnterType ==
  ASSUME TypeOK, NEW event, Can(event, fsm), Enter(event)
  PROVE  /\ fsm' = Fire(event, fsm)
         /\ fsm' \in States
         /\ reported' \in ReportStates
         /\ status' \in Seq(Messages)
<1> DEFINE dst == Fire(event, fsm)
<1>1. fsm' = dst /\ dst \in States
  BY FireIsArc DEF Enter
<1>2. Told(dst) \in ReportStates
  BY ReportType DEF Told, TypeOK
<1>3. StateReports(dst) \in Seq(Messages)
  <2>1. StateReports(dst) = <<>> \/ \E m \in Messages : StateReports(dst) = <<m>>
    BY <1>2 DEF StateReports, Messages
  <2> QED
    BY <2>1, AtMostOneMessage
<1>4. ReloadReports(event, dst) \in Seq(Messages)
  <2>1. \/ ReloadReports(event, dst) = <<>>
        \/ \E m \in Messages : ReloadReports(event, dst) = <<m>>
    BY DEF ReloadReports, Messages
  <2> QED
    BY <2>1, AtMostOneMessage
<1> QED
  BY <1>1, <1>2, <1>3, <1>4 DEF Enter, TypeOK

\* Executing a command leaves the caller on the stack, or calls a program or an
\* MDI command from it.
LEMMA ExecuteType ==
  ASSUME TypeOK, NEW command \in InterpreterCommand, NEW caller \in Seq(Frames),
         Execute(command, caller)
  PROVE  /\ fsm' \in States
         /\ reported' \in ReportStates
         /\ status' \in Seq(Messages)
         /\ exc' \in Exceptions \cup {"none"}
         /\ registered' \in BOOLEAN
         /\ \/ stack' = caller
            \/ \E kind \in {"program", "mdi"} :
                 stack' = Append(caller, Frame(kind, "imports"))
<1> DEFINE event == EventOf[command]
<1>1. CASE Can(event, fsm) /\ Enter(event)
  <2>1. exc' \in Raised(event) /\ stack' = Running(event, caller)
    BY <1>1 DEF Execute
  <2>2. Raised(event) \subseteq Exceptions \cup {"none"}
    BY DEF Raised, Exceptions
  <2>3. registered' \in BOOLEAN
    BY <1>1 DEF Execute, TypeOK
  <2> QED
    BY <1>1, <2>1, <2>2, <2>3, EnterType DEF Running
<1>2. CASE ~Can(event, fsm)
  BY <1>2 DEF Execute, TypeOK
<1> QED
  BY <1>1, <1>2 DEF Execute

\* A stack on which no command is to be put back.
Settled(s) ==
  /\ s \in Seq(Frames)
  /\ Len(s) > 0
  /\ s[1] = Frame("worker", "churn")
  /\ \A i \in 2..Len(s) : s[i].code # "worker"
  /\ \A i \in 1..Len(s) : s[i].at # "reinsert"

LEMMA SettledStack ==
  ASSUME TypeInv
  PROVE  /\ Top.at # "reinsert" => Settled(stack)
         /\ Len(stack) > 1 => Settled(Return)
         /\ \A point \in Points \ {"reinsert"} :
              Len(stack) > 1 => Settled(Goto(point))
<1>1. Len(stack) \in Nat /\ Len(stack) > 0
  BY DEF TypeInv, TypeOK
<1>2. \A i \in 1..Len(stack) : i # Len(stack) => stack[i].at # "reinsert"
  BY DEF TypeInv, HeldByTop
<1>3. Top.at # "reinsert" => Settled(stack)
  BY <1>1, <1>2 DEF Settled, Top, TypeInv, TypeOK, WorkerAtBottom
<1>4. ASSUME Len(stack) > 1 PROVE Settled(Return)
  BY <1>1, <1>2, <1>4, ReturnStack DEF Settled, TypeInv, TypeOK, WorkerAtBottom
<1>5. ASSUME NEW point \in Points \ {"reinsert"}, Len(stack) > 1
      PROVE  Settled(Goto(point))
  BY <1>1, <1>2, <1>5, GotoStack DEF Settled, TypeInv, TypeOK, WorkerAtBottom
<1> QED
  BY <1>3, <1>4, <1>5

LEMMA SettledCall ==
  ASSUME NEW s, Settled(s),
         NEW kind \in UserCode \cup Calls, NEW point \in Points \ {"reinsert"}
  PROVE  Settled(Append(s, Frame(kind, point)))
<1>1. /\ Frame(kind, point) \in Frames
      /\ Frame(kind, point).code = kind
      /\ Frame(kind, point).at = point
  BY FrameType
<1>2. kind # "worker"
  BY DEF UserCode, Calls
<1> QED
  BY <1>1, <1>2, CallStack DEF Settled

\* The loop is the innermost frame only when it is the only one.
LEMMA LoopAlone ==
  ASSUME TypeInv
  PROVE  /\ Top.code = "worker" <=> Len(stack) = 1
         /\ Top.at # "churn" => Len(stack) > 1
         /\ Top.code = "worker" => Top = Frame("worker", "churn")
<1>1. Len(stack) \in Nat /\ Len(stack) > 0
  BY DEF TypeInv, TypeOK
<1>2. Frame("worker", "churn").code = "worker" /\ Frame("worker", "churn").at = "churn"
  BY FrameType DEF Points
<1> QED
  BY <1>1, <1>2 DEF TypeInv, WorkerAtBottom, Top

LEMMA SettledKeepsStack ==
  ASSUME Settled(stack)'
  PROVE  (stack \in Seq(Frames) /\ stack # <<>> /\ WorkerAtBottom /\ HeldByTop)'
BY DEF Settled, WorkerAtBottom, HeldByTop

\* What a step must show: the stack settled again, and the other variables.
LEMMA TypeFromSettled ==
  ASSUME TypeInv, UNCHANGED hostVars, Settled(stack)',
         queue' \in Seq(InterpreterCommand),
         held' \in InterpreterCommand \cup {"none"},
         fsm' \in States,
         exc' \in Exceptions \cup {"none"},
         abort' \in BOOLEAN,
         interrupts' \in Nat,
         registered' \in BOOLEAN,
         reported' \in ReportStates,
         status' \in Seq(Messages),
         stopEvent' \in BOOLEAN,
         process' \in {"up", "dead", "exited"}
  PROVE  TypeInv'
BY SettledKeepsStack DEF TypeInv, TypeOK, hostVars

\* Churn and PeekCommand: a command is executed by a settled caller.
LEMMA ExecuteKeepsTypes ==
  ASSUME TypeInv, NEW caller, Settled(caller), queue # <<>>,
         queue' = Tail(queue), Execute(Head(queue), caller),
         UNCHANGED <<held, abort, interrupts, stopEvent, process, hostVars>>
  PROVE  TypeInv'
<1>1. Head(queue) \in InterpreterCommand /\ queue' \in Seq(InterpreterCommand)
  BY DEF TypeInv, TypeOK
<1>2. /\ fsm' \in States
      /\ reported' \in ReportStates
      /\ status' \in Seq(Messages)
      /\ exc' \in Exceptions \cup {"none"}
      /\ registered' \in BOOLEAN
      /\ \/ stack' = caller
         \/ \E kind \in {"program", "mdi"} :
              stack' = Append(caller, Frame(kind, "imports"))
  BY <1>1, ExecuteType DEF TypeInv, Settled
<1>3. Settled(stack)'
  <2>1. "imports" \in Points \ {"reinsert"} /\ {"program", "mdi"} \subseteq UserCode
    BY DEF Points, UserCode
  <2>2. Settled(stack')
    BY <1>2, <2>1, SettledCall
  <2> QED
    BY <2>2 DEF Settled
<1> QED
  BY <1>1, <1>2, <1>3, TypeFromSettled DEF TypeInv, TypeOK

LEMMA ChurnKeepsTypes ==
  ASSUME TypeInv, UNCHANGED hostVars,
         HandleInterrupt \/ Churn \/ SpinWhilePaused \/ PeekCommand \/ PutBack
  PROVE  TypeInv'
<1> USE DEF Points
<1>1. CASE HandleInterrupt
  <2>1. Settled(stack)
    BY <1>1, SettledStack DEF HandleInterrupt, At
  <2>2. Settled(stack)'
    <3>1. Settled(stack')
      BY <1>1, <2>1, SettledCall DEF HandleInterrupt, UserCode
    <3> QED
      BY <3>1 DEF Settled
  <2>3. interrupts' \in Nat
    BY <1>1 DEF HandleInterrupt, TypeInv, TypeOK
  <2> QED
    BY <1>1, <2>2, <2>3, TypeFromSettled DEF HandleInterrupt, TypeInv, TypeOK
<1>2. CASE Churn
  <2> DEFINE caller == IF Top.code = "worker" THEN stack ELSE Goto("test")
  <2>1. Settled(caller)
    <3>1. Len(stack) \in Nat /\ Len(stack) > 0
      BY DEF TypeInv, TypeOK
    <3>2. CASE Top.code = "worker"
      BY <1>2, <3>2, SettledStack DEF Churn, At
    <3>3. CASE Top.code # "worker"
      BY <3>1, <3>3, SettledStack, LoopAlone
    <3> QED
      BY <3>2, <3>3
  <2>2. CASE queue = <<>>
    BY <1>2, <2>1, <2>2, TypeFromSettled DEF Churn, Settled, TypeInv, TypeOK
  <2>3. CASE queue # <<>>
    BY <1>2, <2>1, <2>3, ExecuteKeepsTypes DEF Churn
  <2> QED
    BY <2>2, <2>3
<1>3. CASE SpinWhilePaused
  <2>1. Len(stack) > 1
    BY <1>3, LoopAlone DEF SpinWhilePaused, At
  <2>2. Settled(stack)'
    <3>1. Settled(stack')
      BY <1>3, <2>1, SettledStack, SettledCall DEF SpinWhilePaused, UserCode
    <3> QED
      BY <3>1 DEF Settled
  <2>3. fsm' \in States /\ reported' \in ReportStates /\ status' \in Seq(Messages)
    <3>1. CASE fsm \in PrePausedStates
      <4>1. Can("next", fsm)
        BY <3>1 DEF PrePausedStates, Can, States, Transitions, HandlerArcs, Arc, OnPaused
      <4> QED
        BY <1>3, <3>1, <4>1, EnterType DEF SpinWhilePaused, TypeInv, PrePausedStates,
           PausedStates, Paused, MdiPaused
    <3>2. CASE fsm \notin PrePausedStates
      BY <1>3, <3>2 DEF SpinWhilePaused, TypeInv, TypeOK
    <3> QED
      BY <3>1, <3>2
  <2> QED
    BY <1>3, <2>2, <2>3, TypeFromSettled DEF SpinWhilePaused, TypeInv, TypeOK
<1>4. CASE PeekCommand
  <2>1. Len(stack) > 1
    BY <1>4, LoopAlone DEF PeekCommand, At
  <2>2. CASE queue = <<>>
    BY <1>4, <2>1, <2>2, SettledStack, TypeFromSettled
    DEF PeekCommand, Settled, TypeInv, TypeOK
  <2>3. CASE queue # <<>> /\ Head(queue) \in Peek
    BY <1>4, <2>1, <2>3, SettledStack, ExecuteKeepsTypes DEF PeekCommand
  <2>4. CASE queue # <<>> /\ Head(queue) \notin Peek
    <3>1. stack' = Goto("reinsert") /\ held' = Head(queue) /\ queue' = Tail(queue)
      BY <1>4, <2>4 DEF PeekCommand
    <3>2. /\ held' \in InterpreterCommand
          /\ held' # "none"
          /\ queue' \in Seq(InterpreterCommand)
      BY <2>4, <3>1 DEF TypeInv, TypeOK, InterpreterCommand
    <3>3. /\ stack' \in Seq(Frames) /\ stack' # <<>>
          /\ WorkerAtBottom' /\ HeldByTop'
      <4>1. /\ stack \in Seq(Frames) /\ stack # <<>>
            /\ Len(stack) \in Nat /\ WorkerAtBottom /\ HeldByTop
        BY DEF TypeInv, TypeOK
      <4>2. /\ stack' \in Seq(Frames)
            /\ Len(stack') = Len(stack)
            /\ \A i \in 1..Len(stack) :
                 /\ stack'[i].code = stack[i].code
                 /\ stack'[i].at = IF i = Len(stack) THEN "reinsert" ELSE stack[i].at
                 /\ i # Len(stack) => stack'[i] = stack[i]
        BY <3>1, <4>1, GotoStack
      <4>3. WorkerAtBottom'
        BY <2>1, <4>1, <4>2 DEF WorkerAtBottom
      <4>4. HeldByTop'
        BY <3>2, <4>1, <4>2 DEF HeldByTop
      <4> QED
        BY <2>1, <4>1, <4>2, <4>3, <4>4
    <3> QED
      BY <1>4, <2>4, <3>2, <3>3 DEF PeekCommand, TypeInv, TypeOK, hostVars
  <2> QED
    BY <2>2, <2>3, <2>4
<1>5. CASE PutBack
  <2>1. Len(stack) > 1
    BY <1>5, LoopAlone DEF PutBack, At
  <2>2. held \in InterpreterCommand
    BY <1>5 DEF PutBack, At, Top, TypeInv, TypeOK, HeldByTop
  <2>3. queue' \in Seq(InterpreterCommand)
    BY <1>5, <2>2 DEF PutBack, TypeInv, TypeOK
  <2>4. Settled(stack')
    BY <1>5, <2>1, SettledStack DEF PutBack
  <2> QED
    BY <1>5, <2>3, <2>4, TypeFromSettled DEF PutBack, TypeInv, TypeOK, Settled
<1> QED
  BY <1>1, <1>2, <1>3, <1>4, <1>5

\* The steps of commands and of user code.
LEMMA CodeKeepsTypes ==
  ASSUME TypeInv, UNCHANGED hostVars,
         \/ PauseCommandRaised \/ CommandWaits \/ CommandReturns
         \/ ImportModules \/ NextLine \/ CallCommand \/ CallPause
         \/ RegisterInterrupt \/ CodeRaises \/ InterruptReturns \/ HandlerReturns
  PROVE  TypeInv'
<1> USE DEF Points
<1>1. /\ Len(stack) > 1
      /\ Settled(stack)
      /\ Settled(Return)
      /\ \A point \in Points \ {"reinsert"} : Settled(Goto(point))
  <2>1. Top.at \notin {"churn", "reinsert"}
    BY DEF PauseCommandRaised, CommandWaits, CommandReturns, ImportModules,
       NextLine, CallCommand, CallPause, RegisterInterrupt, CodeRaises,
       InterruptReturns, HandlerReturns, At
  <2> QED
    BY <2>1, LoopAlone, SettledStack
<1>2. \A s : stack' = s /\ Settled(s) => Settled(stack)'
  BY DEF Settled
<1>3. CASE PauseCommandRaised
  BY <1>1, <1>2, <1>3, TypeFromSettled
  DEF PauseCommandRaised, Exceptions, TypeInv, TypeOK
<1>4. CASE CommandWaits
  BY <1>1, <1>2, <1>4, TypeFromSettled DEF CommandWaits, TypeInv, TypeOK
<1>5. CASE CommandReturns
  BY <1>1, <1>2, <1>5, TypeFromSettled DEF CommandReturns, TypeInv, TypeOK
<1>6. CASE ImportModules
  <2>1. status' \in Seq(Messages)
    BY <1>6 DEF ImportModules, Messages, TypeInv, TypeOK
  <2>2. Settled(stack)'
    BY <1>1, <1>2, <1>6 DEF ImportModules
  <2> QED
    BY <1>6, <2>1, <2>2, TypeFromSettled
    DEF ImportModules, Exceptions, TypeInv, TypeOK
<1>7. CASE NextLine
  <2>1. queue' \in Seq(InterpreterCommand)
    <3>1. queue \in Seq(InterpreterCommand) /\ "Pause" \in InterpreterCommand
      BY DEF InterpreterCommand, TypeInv, TypeOK
    <3>2. queue' = <<"Pause">> \o queue \/ queue' = queue
      BY <1>7 DEF NextLine, StepPause
    <3> QED
      BY <3>1, <3>2
  <2> QED
    BY <1>1, <1>2, <1>7, <2>1, TypeFromSettled DEF NextLine, TypeInv, TypeOK
<1>8. CASE CallCommand
  <2>1. Settled(stack')
    BY <1>1, <1>8, SettledCall DEF CallCommand, Calls
  <2> QED
    BY <1>2, <1>8, <2>1, TypeFromSettled DEF CallCommand, TypeInv, TypeOK
<1>9. CASE CallPause
  <2>1. queue' \in Seq(InterpreterCommand)
    BY <1>9 DEF CallPause, InterpreterCommand, TypeInv, TypeOK
  <2> QED
    BY <1>1, <1>2, <1>9, <2>1, TypeFromSettled DEF CallPause, TypeInv, TypeOK
<1>10. CASE RegisterInterrupt
  BY <1>1, <1>2, <1>10, TypeFromSettled DEF RegisterInterrupt, TypeInv, TypeOK
<1>11. CASE CodeRaises
  BY <1>1, <1>2, <1>11, TypeFromSettled DEF CodeRaises, Exceptions, TypeInv, TypeOK
<1>12. CASE InterruptReturns
  BY <1>1, <1>2, <1>12, TypeFromSettled DEF InterruptReturns, TypeInv, TypeOK
<1>13. CASE HandlerReturns
  <2>1. fsm' \in States /\ reported' \in ReportStates /\ status' \in Seq(Messages)
    BY <1>13, EnterType DEF HandlerReturns, TypeInv
  <2>2. abort' \in BOOLEAN
    BY <1>13 DEF HandlerReturns, TypeInv, TypeOK
  <2> QED
    BY <1>1, <1>2, <1>13, <2>1, <2>2, TypeFromSettled
    DEF HandlerReturns, TypeInv, TypeOK
<1> QED
  BY <1>3, <1>4, <1>5, <1>6, <1>7, <1>8, <1>9, <1>10, <1>11, <1>12, <1>13

\* Exceptions, the loop, and the other threads of the process.
LEMMA LoopKeepsTypes ==
  ASSUME TypeInv, UNCHANGED hostVars,
         \/ Unwind \/ CatchInLoop \/ RunOnAbortHandler \/ WorkerExits
         \/ TriggerInterrupt \/ SafetyInputTripped
  PROVE  TypeInv'
<1> USE DEF Points
<1>1. \A s : stack' = s /\ Settled(s) => Settled(stack)'
  BY DEF Settled
<1>2. CASE Unwind
  <2>1. Settled(stack')
    BY <1>2, SettledStack DEF Unwind
  <2>2. exc' \in Exceptions \cup {"none"}
    BY <1>2 DEF Unwind, TypeInv, TypeOK
  <2> QED
    BY <1>1, <1>2, <2>1, <2>2, TypeFromSettled DEF Unwind, TypeInv, TypeOK
<1>3. CASE CatchInLoop
  <2>1. Settled(stack)
    BY <1>3, LoopAlone, SettledStack, FrameType DEF CatchInLoop
  <2>2. abort' \in BOOLEAN /\ exc' \in Exceptions \cup {"none"}
        /\ process' \in {"up", "dead", "exited"}
    BY <1>3 DEF CatchInLoop, Toggled, TypeInv, TypeOK
  <2>3. fsm' \in States /\ reported' \in ReportStates /\ status' \in Seq(Messages)
    BY <1>3, EnterType DEF CatchInLoop, TypeInv, TypeOK
  <2> QED
    BY <1>1, <1>3, <2>1, <2>2, <2>3, TypeFromSettled
    DEF CatchInLoop, TypeInv, TypeOK
<1>4. CASE RunOnAbortHandler
  <2>1. Settled(stack)
    BY <1>4, SettledStack DEF RunOnAbortHandler, InLoop, At
  <2>2. Settled(stack')
    BY <1>4, <2>1, SettledCall DEF RunOnAbortHandler, UserCode
  <2>3. fsm' \in States /\ reported' \in ReportStates /\ status' \in Seq(Messages)
    <3>1. fsm \in PreAbortStates => Can("next", fsm)
      BY DEF PreAbortStates, Can, States, Transitions, HandlerArcs, Arc, OnAborted
    <3> QED
      BY <1>4, <3>1, EnterType DEF RunOnAbortHandler, TypeInv, TypeOK
  <2> QED
    BY <1>1, <1>4, <2>2, <2>3, TypeFromSettled
    DEF RunOnAbortHandler, TypeInv, TypeOK
<1>5. CASE WorkerExits
  BY <1>1, <1>5, SettledStack, TypeFromSettled
  DEF WorkerExits, InLoop, At, TypeInv, TypeOK
<1>6. CASE TriggerInterrupt
  BY <1>6 DEF TriggerInterrupt, TypeInv, TypeOK, WorkerAtBottom, HeldByTop, hostVars
<1>7. CASE SafetyInputTripped
  <2>1. queue' \in Seq(InterpreterCommand)
    BY <1>7 DEF SafetyInputTripped, InterpreterCommand, TypeInv, TypeOK
  <2> QED
    BY <1>7, <2>1
    DEF SafetyInputTripped, TypeInv, TypeOK, WorkerAtBottom, HeldByTop, hostVars
<1> QED
  BY <1>2, <1>3, <1>4, <1>5, <1>6, <1>7

LEMMA HostKeepsTypes ==
  ASSUME TypeInv, HostNext
  PROVE  TypeInv'
<1> USE DEF TypeInv, TypeOK, WorkerAtBottom, HeldByTop, workVars, hostVars
<1>1. ASSUME NEW command \in InterpreterCommand, Request(command) PROVE TypeInv'
  BY <1>1 DEF Request
<1>2. CASE StepProgram
  <2>1. queue' \in Seq(InterpreterCommand)
    <3>1. "Start" \in InterpreterCommand /\ "Step" \in InterpreterCommand
      BY DEF InterpreterCommand
    <3>2. CASE ProgramRunning
      BY <1>2, <3>1, <3>2 DEF StepProgram
    <3>3. CASE ~ProgramRunning
      BY <1>2, <3>1, <3>3 DEF StepProgram
    <3> QED
      BY <3>2, <3>3
  <2> QED
    BY <1>2, <2>1 DEF StepProgram
<1>3. CASE StopProgram
  BY <1>3 DEF StopProgram
<1>4. CASE AppendStop
  BY <1>4 DEF AppendStop, InterpreterCommand
<1>5. CASE StopWorkerProcess
  BY <1>5 DEF StopWorkerProcess
<1>6. CASE CheckReloadRequired
  <2>1. "ReloadCheck" \in InterpreterCommand
    BY DEF InterpreterCommand
  <2>2. queue' \in Seq(InterpreterCommand)
    BY <1>6, <2>1 DEF CheckReloadRequired
  <2> QED
    BY <1>6, <2>2 DEF CheckReloadRequired
<1>7. CASE ReloadChecked
  BY <1>7 DEF ReloadChecked
<1>8. CASE StatusThread
  BY <1>8 DEF StatusThread, Messages
<1> QED
  BY <1>1, <1>2, <1>3, <1>4, <1>5, <1>6, <1>7, <1>8 DEF HostNext

LEMMA InitTypes == Init => TypeInv
<1> SUFFICES ASSUME Init PROVE TypeInv
  OBVIOUS
<1>1. /\ Frame("worker", "churn") \in Frames
      /\ Frame("worker", "churn").at = "churn"
  BY FrameType DEF Points
<1>2. /\ stack \in Seq(Frames) /\ stack # <<>> /\ Len(stack) = 1
      /\ stack[1] = Frame("worker", "churn")
  BY <1>1 DEF Init, ProcessInit
<1>3. status \in Seq(Messages)
  <2>1. "Idle" \in Messages /\ status = <<"Idle">>
    BY DEF Init, ProcessInit, Messages, ReportStates
  <2> QED
    BY <2>1
<1>4. TypeOK
  <2>1. queue \in Seq(InterpreterCommand)
    BY DEF Init, ProcessInit
  <2> QED
    BY <1>2, <1>3, <2>1 DEF TypeOK, Init, ProcessInit, States, ReportStates
<1>5. WorkerAtBottom /\ HeldByTop
  BY <1>1, <1>2 DEF WorkerAtBottom, HeldByTop
<1> QED
  BY <1>4, <1>5 DEF TypeInv

LEMMA StepKeepsTypes == TypeInv /\ [Next]_vars => TypeInv'
<1> SUFFICES ASSUME TypeInv, [Next]_vars PROVE TypeInv'
  OBVIOUS
<1>1. CASE ProcessNext /\ UNCHANGED hostVars
  BY <1>1, ChurnKeepsTypes, CodeKeepsTypes, LoopKeepsTypes
  DEF ProcessNext, ProcessStep
<1>2. CASE HostNext
  BY <1>2, HostKeepsTypes
<1>3. CASE UNCHANGED vars
  BY <1>3 DEF vars, processVars, hostVars, TypeInv, TypeOK, WorkerAtBottom,
     HeldByTop
<1> QED
  BY <1>1, <1>2, <1>3 DEF Next

\* The process and its host keep the types of their state.
THEOREM TypeCorrectness == Spec => []TypeOK
<1>1. TypeInv => TypeOK
  BY DEF TypeInv
<1> QED
  BY <1>1, InitTypes, StepKeepsTypes, PTL DEF Spec

-----------------------------------------------------------------------------
(* What executes is what the FSM says.  ControlMatchesState is not inductive: *)
(* while an exception is on its way up, user code can catch it and go on, so  *)
(* Control must hold then too, but for ProgramExit, which no program catches. *)

Exclusive == OneProgram /\ OnlyOne({"on_pause"}) /\ OnlyOne({"on_abort"})

ControlInv == /\ TypeInv
              /\ Exclusive
              /\ exc # "ProgramExit" => Control

Kinds == {"program", "mdi", "on_pause", "on_abort"}

\* A step that leaves frames, or calls code of another kind.
LEMMA StackKeepsExclusive ==
  ASSUME TypeInv, TypeInv', Exclusive,
         \A i \in 1..Len(stack') :
           \/ i \in 1..Len(stack) /\ stack'[i].code = stack[i].code
           \/ stack'[i].code \notin Kinds
  PROVE  /\ Exclusive'
         /\ \A kind \in Kinds : Executing(kind)' => Executing(kind)
<1>1. Exclusive'
  BY DEF Exclusive, OneProgram, OnlyOne, Kinds
<1>2. ASSUME NEW kind \in Kinds, Executing(kind)' PROVE Executing(kind)
  BY <1>2 DEF Executing
<1> QED
  BY <1>1, <1>2

LEMMA StackKeepsControl ==
  ASSUME ControlInv, TypeInv',
         \A i \in 1..Len(stack') :
           \/ i \in 1..Len(stack) /\ stack'[i].code = stack[i].code
           \/ stack'[i].code \notin Kinds,
         fsm' = fsm,
         exc = "ProgramExit" => exc' = "ProgramExit"
  PROVE  ControlInv'
BY StackKeepsExclusive DEF ControlInv, Control, Kinds

\* A step that leaves the stack alone.
LEMMA SameStackKeepsControl ==
  ASSUME ControlInv, TypeInv', stack' = stack, fsm' = fsm,
         exc = "ProgramExit" => exc' = "ProgramExit"
  PROVE  ControlInv'
BY StackKeepsControl DEF TypeInv, TypeOK

\* Where nothing executes, a program or an MDI command may start.
LEMMA StartKeepsControl ==
  ASSUME ControlInv, TypeInv', exc = "none",
         fsm \in {"idle", "stopped"},
         NEW kind \in {"program", "mdi"}, NEW caller \in Seq(Frames),
         Len(caller) = Len(stack),
         \A i \in 1..Len(stack) : caller[i].code = stack[i].code,
         stack' = Append(caller, Frame(kind, "imports")),
         kind = "program" => fsm' = "running",
         kind = "mdi" => fsm' \in MdiRunning
  PROVE  ControlInv'
<1>1. ASSUME NEW i \in 1..Len(stack) PROVE stack[i].code \notin Kinds
  BY <1>1 DEF ControlInv, Control, Executing, Kinds, ProgramStates, MdiStates,
     MdiRunning, MdiPaused, Paused, PrePausedStates, OnPaused, OnAborted
<1>2. /\ Len(stack') = Len(stack) + 1
      /\ \A i \in 1..Len(stack) : stack'[i].code \notin Kinds
      /\ stack'[Len(stack) + 1].code = kind
  BY <1>1, CallStack, FrameType DEF Points, UserCode
<1>3. Len(stack) \in Nat
  BY DEF ControlInv, TypeInv, TypeOK
<1>4. \A i \in 1..Len(stack') : stack'[i].code \in Kinds => i = Len(stack) + 1
  BY <1>2, <1>3
<1>5. Exclusive'
  BY <1>3, <1>4 DEF Exclusive, OneProgram, OnlyOne, Kinds
<1>6. \A k \in Kinds : Executing(k)' => k = kind
  BY <1>2, <1>3, <1>4 DEF Executing
<1>7. Control'
  BY <1>6 DEF Control, Kinds, ProgramStates, MdiStates
<1> QED
  BY <1>5, <1>7 DEF ControlInv

LEMMA ExecuteKeepsControl ==
  ASSUME ControlInv, TypeInv', exc = "none",
         NEW command \in InterpreterCommand, NEW caller \in Seq(Frames),
         Len(caller) = Len(stack),
         \A i \in 1..Len(stack) : caller[i].code = stack[i].code,
         Execute(command, caller)
  PROVE  ControlInv'
<1> DEFINE event == EventOf[command]
<1>1. event \in CommandEvents
  BY DEF InterpreterCommand, EventOf, CommandEvents, Events
<1>2. CASE ~Can(event, fsm)
  BY <1>2, StackKeepsControl DEF Execute
<1>3. CASE Can(event, fsm)
  <2>1. /\ <<event, fsm, fsm'>> \in Transitions
        /\ exc' \in Raised(event)
        /\ stack' = Running(event, caller)
    BY <1>3, FireIsArc DEF Execute, Enter
  <2>2. CASE event \in {"start", "mdi"}
    <3>1. \/ event = "start" /\ stack' = Append(caller, Frame("program", "imports"))
          \/ event = "mdi" /\ stack' = Append(caller, Frame("mdi", "imports"))
      BY <2>1, <2>2 DEF Running
    <3> QED
      BY <2>1, <3>1, StartArcsLead, StartKeepsControl
  <2>3. CASE event \notin {"start", "mdi"}
    <3>1. stack' = caller
      BY <2>1, <2>3 DEF Running
    <3>2. /\ Exclusive'
          /\ \A kind \in Kinds : Executing(kind)' => Executing(kind)
      BY <3>1, StackKeepsExclusive DEF ControlInv
    <3>3. CASE event = "stop"
      BY <2>1, <3>2, <3>3 DEF Raised, ControlInv
    <3>4. CASE event # "stop"
      <4>1. Control'
        BY <1>1, <2>1, <3>2, <3>4, CommandArcs DEF ControlInv, Control, Kinds
      <4> QED
        BY <3>2, <4>1 DEF ControlInv
    <3> QED
      BY <3>3, <3>4
  <2> QED
    BY <2>2, <2>3
<1> QED
  BY <1>2, <1>3

LEMMA ChurnKeepsControl ==
  ASSUME ControlInv, TypeInv',
         HandleInterrupt \/ Churn \/ SpinWhilePaused \/ PeekCommand \/ PutBack
  PROVE  ControlInv'
<1>1. /\ stack \in Seq(Frames) /\ stack # <<>>
      /\ Len(stack) \in Nat /\ Len(stack) > 0
      /\ queue \in Seq(InterpreterCommand)
      /\ TypeInv
  BY DEF ControlInv, TypeInv, TypeOK
<1>2. \A point \in Points :
        /\ Goto(point) \in Seq(Frames)
        /\ Len(Goto(point)) = Len(stack)
        /\ \A i \in 1..Len(stack) : Goto(point)[i].code = stack[i].code
  BY <1>1, GotoStack
<1> USE DEF Points
<1>3. queue # <<>> => Head(queue) \in InterpreterCommand
  BY <1>1
<1>4. CASE HandleInterrupt
  <2>1. CASE registered
    <3>1. Frame("interrupt", "code") \in Frames
          /\ Frame("interrupt", "code").code = "interrupt"
      BY FrameType DEF UserCode
    <3>2. stack' = Append(stack, Frame("interrupt", "code"))
      BY <1>4, <2>1 DEF HandleInterrupt
    <3>3. \A i \in 1..Len(stack') :
            \/ i \in 1..Len(stack) /\ stack'[i].code = stack[i].code
            \/ stack'[i].code \notin Kinds
      BY <1>1, <3>1, <3>2, CallStack DEF Kinds
    <3> QED
      BY <1>4, <3>3, StackKeepsControl DEF HandleInterrupt
  <2>2. CASE ~registered
    BY <1>4, <2>2, SameStackKeepsControl DEF HandleInterrupt
  <2> QED
    BY <2>1, <2>2
<1>5. CASE Churn
  <2> DEFINE caller == IF Top.code = "worker" THEN stack ELSE Goto("test")
  <2>1. /\ caller \in Seq(Frames)
        /\ Len(caller) = Len(stack)
        /\ \A i \in 1..Len(stack) : caller[i].code = stack[i].code
    BY <1>1, <1>2
  <2>2. CASE queue = <<>>
    BY <1>5, <2>1, <2>2, StackKeepsControl DEF Churn
  <2>3. CASE queue # <<>>
    <3>1. Execute(Head(queue), caller) /\ exc = "none"
      BY <1>5, <2>3 DEF Churn, At
    <3> QED
      BY <1>3, <2>1, <2>3, <3>1, ExecuteKeepsControl
  <2> QED
    BY <2>2, <2>3
<1>6. CASE SpinWhilePaused
  <2>1. CASE fsm \in PrePausedStates
    <3>1. /\ stack' = Append(Goto("churn"), Frame("on_pause", "code"))
          /\ Enter("next")
          /\ exc = "none" /\ exc' = exc
      BY <1>6, <2>1
      DEF SpinWhilePaused, At, PrePausedStates, PausedStates, Paused, MdiPaused
    <3>2. fsm' \in OnPaused
      <4>1. Can("next", fsm)
        BY <2>1 DEF PrePausedStates, Can, States, Transitions, HandlerArcs, Arc, OnPaused
      <4>2. <<"next", fsm, fsm'>> \in Transitions
        BY <3>1, <4>1, FireIsArc DEF Enter
      <4> QED
        BY <2>1, <4>2, HandlerArcsLead
    <3>3. \A kind \in Kinds : Executing(kind) => kind = "program"
      BY <2>1, <3>1 DEF ControlInv, Control, Kinds, PrePausedStates, MdiStates,
         MdiRunning, MdiPaused, OnPaused, OnAborted
    <3>4. \A i \in 1..Len(stack') :
            \/ /\ i \in 1..Len(stack)
               /\ stack'[i].code = stack[i].code
               /\ stack[i].code \notin Kinds \ {"program"}
            \/ i = Len(stack) + 1 /\ stack'[i].code = "on_pause"
      <4>1. /\ Frame("on_pause", "code") \in Frames
            /\ Frame("on_pause", "code").code = "on_pause"
        BY FrameType DEF UserCode
      <4>2. \A i \in 1..Len(stack) : stack[i].code \notin Kinds \ {"program"}
        BY <3>3 DEF Executing
      <4>3. /\ Goto("churn") \in Seq(Frames)
            /\ Len(Goto("churn")) = Len(stack)
            /\ \A i \in 1..Len(stack) : Goto("churn")[i].code = stack[i].code
        BY <1>2
      <4>4. /\ Len(stack') = Len(stack) + 1
            /\ \A i \in 1..Len(stack) : stack'[i] = Goto("churn")[i]
            /\ stack'[Len(stack) + 1] = Frame("on_pause", "code")
        BY <3>1, <4>1, <4>3, CallStack
      <4> QED
        BY <1>1, <4>1, <4>2, <4>3, <4>4
    <3>5. Exclusive'
      BY <1>1, <3>4 DEF ControlInv, Exclusive, OneProgram, OnlyOne, Kinds
    <3>6. Control'
      BY <3>2, <3>4 DEF Control, Executing, Kinds, ProgramStates
    <3> QED
      BY <3>5, <3>6 DEF ControlInv
  <2>2. CASE fsm \notin PrePausedStates
    <3>1. fsm' = fsm /\ exc' = exc
          /\ \E point \in Points : stack' = Goto(point)
      BY <1>6, <2>2 DEF SpinWhilePaused
    <3> QED
      BY <1>2, <3>1, StackKeepsControl
  <2> QED
    BY <2>1, <2>2
<1>7. CASE PeekCommand
  <2>1. CASE queue # <<>> /\ Head(queue) \in Peek
    <3>1. Execute(Head(queue), Goto("polled")) /\ exc = "none"
      BY <1>7, <2>1 DEF PeekCommand, At
    <3> QED
      BY <1>2, <1>3, <2>1, <3>1, ExecuteKeepsControl
  <2>2. CASE ~(queue # <<>> /\ Head(queue) \in Peek)
    <3>1. fsm' = fsm /\ exc' = exc
          /\ (stack' = Goto("polled") \/ stack' = Goto("reinsert"))
      BY <1>7, <2>2 DEF PeekCommand
    <3> QED
      BY <1>2, <3>1, StackKeepsControl
  <2> QED
    BY <2>1, <2>2
<1>8. CASE PutBack
  BY <1>2, <1>8, StackKeepsControl DEF PutBack
<1> QED
  BY <1>4, <1>5, <1>6, <1>7, <1>8

\* A handler that returns: nothing else executes but the program it pauses.
LEMMA HandlerReturnKeepsControl ==
  ASSUME ControlInv, TypeInv', HandlerReturns
  PROVE  ControlInv'
<1>1. /\ stack \in Seq(Frames) /\ Len(stack) \in Nat /\ Len(stack) > 1
      /\ exc = "none" /\ exc' = exc /\ stack' = Return
  BY LoopAlone DEF HandlerReturns, At, ControlInv, TypeInv, TypeOK
<1>2. /\ Len(stack') = Len(stack) - 1
      /\ \A i \in 1..Len(stack') : stack'[i] = stack[i]
  BY <1>1, ReturnStack
<1>3. <<"next", fsm, fsm'>> \in Transitions
  BY FireIsArc DEF HandlerReturns, Enter
<1>4. /\ Exclusive'
      /\ \A kind \in Kinds : Executing(kind)' => Executing(kind)
  BY <1>1, <1>2, StackKeepsExclusive DEF ControlInv
<1>5. /\ Executing(Top.code)
      /\ \A i \in 1..Len(stack') : stack'[i].code # Top.code
  <2>1. Executing(Top.code)
    BY <1>1 DEF Executing, Top
  <2>2. \A i \in 1..Len(stack') : stack[i].code # Top.code
    BY <1>1, <1>2 DEF HandlerReturns, ControlInv, Exclusive, OnlyOne, Top
  <2> QED
    BY <1>2, <2>1, <2>2
<1>6. Control
  BY <1>1 DEF ControlInv
<1>7. CASE Top.code = "on_pause"
  <2>1. fsm \in OnPaused /\ fsm' \in Paused
    BY <1>3, <1>5, <1>6, <1>7, HandlerArcsLead DEF Control
  <2>2. ~Executing("mdi") /\ ~Executing("on_abort")
    BY <1>6, <2>1 DEF Control, OnPaused, OnAborted, MdiStates, MdiRunning, MdiPaused
  <2>3. Control'
    BY <1>4, <1>5, <1>7, <2>1, <2>2
    DEF Control, Kinds, Executing, ProgramStates
  <2> QED
    BY <1>4, <2>3 DEF ControlInv
<1>8. CASE Top.code = "on_abort"
  <2>1. fsm \in OnAborted
    BY <1>5, <1>6, <1>8 DEF Control
  <2>2. ~Executing("mdi") /\ ~Executing("on_pause") /\ ~Executing("program")
    BY <1>6, <2>1 DEF Control, OnPaused, OnAborted, MdiStates, MdiRunning,
       MdiPaused, ProgramStates, Paused, PrePausedStates
  <2>3. Control'
    BY <1>4, <1>5, <1>8, <2>2 DEF Control, Kinds, Executing
  <2> QED
    BY <1>4, <2>3 DEF ControlInv
<1> QED
  BY <1>7, <1>8 DEF HandlerReturns

LEMMA CodeKeepsControl ==
  ASSUME ControlInv, TypeInv',
         \/ PauseCommandRaised \/ CommandWaits \/ CommandReturns
         \/ ImportModules \/ NextLine \/ CallCommand \/ CallPause
         \/ RegisterInterrupt \/ CodeRaises \/ InterruptReturns \/ HandlerReturns
  PROVE  ControlInv'
<1>1. CASE HandlerReturns
  BY <1>1, HandlerReturnKeepsControl
<1>2. CASE ~HandlerReturns
  <2>1. /\ stack \in Seq(Frames) /\ stack # <<>>
        /\ Len(stack) \in Nat /\ Len(stack) > 1
    <3>1. Top.at # "churn"
      BY DEF PauseCommandRaised, CommandWaits, CommandReturns, ImportModules,
         NextLine, CallCommand, CallPause, RegisterInterrupt, CodeRaises,
         InterruptReturns, HandlerReturns, At
    <3> QED
      BY <3>1, LoopAlone DEF ControlInv, TypeInv, TypeOK
  <2>2. /\ fsm' = fsm
        /\ exc = "none"
        /\ \/ stack' = stack
           \/ stack' = Return
           \/ \E point \in Points : stack' = Goto(point)
           \/ \E point \in Points, kind \in Calls :
                stack' = Append(stack, Frame(kind, point))
    <3>1. fsm' = fsm /\ exc = "none"
      BY <1>2 DEF PauseCommandRaised, CommandWaits, CommandReturns,
         ImportModules, NextLine, CallCommand, CallPause, RegisterInterrupt,
         CodeRaises, InterruptReturns, At
    <3>2. CASE CallCommand
      BY <3>1, <3>2 DEF CallCommand, Calls, Points
    <3>3. CASE ~CallCommand
      BY <1>2, <3>1, <3>3 DEF Points, PauseCommandRaised, CommandWaits, CommandReturns,
         ImportModules, NextLine, CallPause, RegisterInterrupt, CodeRaises,
         InterruptReturns
    <3> QED
      BY <3>2, <3>3
  <2>3. \A i \in 1..Len(stack') :
          \/ i \in 1..Len(stack) /\ stack'[i].code = stack[i].code
          \/ stack'[i].code \notin Kinds
    <3>1. CASE stack' = stack
      BY <3>1
    <3>2. CASE stack' = Return
      BY <2>1, <3>2, ReturnStack
    <3>3. ASSUME NEW point \in Points, stack' = Goto(point)
          PROVE  \A i \in 1..Len(stack') :
                   i \in 1..Len(stack) /\ stack'[i].code = stack[i].code
      BY <2>1, <3>3, GotoStack
    <3>4. ASSUME NEW point \in Points, NEW kind \in Calls,
                 stack' = Append(stack, Frame(kind, point))
          PROVE  \A i \in 1..Len(stack') :
                   \/ i \in 1..Len(stack) /\ stack'[i].code = stack[i].code
                   \/ stack'[i].code \notin Kinds
      <4>1. Frame(kind, point) \in Frames /\ Frame(kind, point).code = kind
        BY FrameType DEF Calls
      <4>2. kind \notin Kinds
        BY DEF Calls, Kinds
      <4> QED
        BY <2>1, <3>4, <4>1, <4>2, CallStack
    <3> QED
      BY <2>2, <3>1, <3>2, <3>3, <3>4
  <2> QED
    BY <2>2, <2>3, StackKeepsControl
<1> QED
  BY <1>1, <1>2

\* At the bottom of the stack nothing executes.
LEMMA LoopControl ==
  ASSUME TypeInv, Len(stack) = 1
  PROVE  Control /\ Exclusive
<1>1. \A i \in 1..Len(stack) : stack[i].code = "worker"
  BY LoopAlone DEF TypeInv, TypeOK, Top
<1> QED
  BY <1>1 DEF Control, Executing, Exclusive, OneProgram, OnlyOne

LEMMA LoopKeepsControl ==
  ASSUME ControlInv, TypeInv',
         \/ Unwind \/ CatchInLoop \/ RunOnAbortHandler \/ WorkerExits
         \/ TriggerInterrupt \/ SafetyInputTripped
  PROVE  ControlInv'
<1> USE DEF Points
<1>1. /\ stack \in Seq(Frames) /\ stack # <<>> /\ Len(stack) \in Nat
      /\ Len(stack) > 0
  BY DEF ControlInv, TypeInv, TypeOK
<1>2. CASE Unwind
  <2>1. \/ stack' = Return
        \/ exc # "ProgramExit" /\ \E point \in Points : stack' = Goto(point)
    BY <1>2 DEF Unwind
  <2>2. \A i \in 1..Len(stack') :
          i \in 1..Len(stack) /\ stack'[i].code = stack[i].code
    BY <1>1, <1>2, <2>1, ReturnStack, GotoStack DEF Unwind
  <2> QED
    BY <1>2, <2>2, StackKeepsControl DEF Unwind
<1>3. CASE CatchInLoop
  <2>1. \A i \in 1..Len(stack') : stack'[i].code = "worker"
    <3>1. Len(stack) = 1 /\ stack' = stack
      BY <1>3 DEF CatchInLoop
    <3>2. stack[1].code = "worker"
      BY <3>1, LoopAlone DEF ControlInv, Top
    <3> QED
      BY <3>1, <3>2
  <2> QED
    BY <2>1 DEF ControlInv, Control, Executing, Exclusive, OneProgram, OnlyOne
<1>4. CASE RunOnAbortHandler
  <2>1. Len(stack) = 1
    BY <1>4, LoopAlone DEF RunOnAbortHandler, InLoop, ControlInv
  <2>2. CASE fsm \in PreAbortStates
    <3>1. /\ stack' = Append(stack, Frame("on_abort", "code"))
          /\ <<"next", fsm, fsm'>> \in Transitions
      <4>1. Can("next", fsm)
        BY <2>2 DEF PreAbortStates, Can, States, Transitions, HandlerArcs, Arc, OnAborted
      <4> QED
        BY <1>4, <2>2, <4>1, FireIsArc DEF RunOnAbortHandler, Enter
    <3>2. fsm' \in OnAborted
      BY <2>2, <3>1, HandlerArcsLead
    <3>3. /\ Frame("on_abort", "code") \in Frames
          /\ Frame("on_abort", "code").code = "on_abort"
      BY FrameType DEF UserCode
    <3>4. /\ Len(stack') = 2
          /\ stack'[1].code = "worker"
          /\ stack'[2].code = "on_abort"
      <4>1. stack[1].code = "worker"
        BY <2>1, LoopAlone DEF Top, ControlInv
      <4>2. /\ Len(stack') = Len(stack) + 1
            /\ stack'[1] = stack[1]
            /\ stack'[Len(stack) + 1] = Frame("on_abort", "code")
        BY <1>1, <3>1, <3>3, CallStack
      <4> QED
        BY <2>1, <3>3, <4>1, <4>2
    <3>5. Control' /\ Exclusive'
      BY <3>2, <3>4
      DEF Control, Executing, Exclusive, OneProgram, OnlyOne
    <3> QED
      BY <3>5 DEF ControlInv
  <2>3. CASE fsm \notin PreAbortStates
    BY <1>4, <2>3, SameStackKeepsControl DEF RunOnAbortHandler
  <2> QED
    BY <2>2, <2>3
<1>5. CASE WorkerExits
  BY <1>5, SameStackKeepsControl DEF WorkerExits
<1>6. CASE TriggerInterrupt
  BY <1>6, SameStackKeepsControl DEF TriggerInterrupt
<1>7. CASE SafetyInputTripped
  BY <1>7, SameStackKeepsControl DEF SafetyInputTripped
<1> QED
  BY <1>2, <1>3, <1>4, <1>5, <1>6, <1>7

LEMMA HostKeepsWork ==
  ASSUME HostNext
  PROVE  UNCHANGED workVars
BY DEF HostNext, Request, StepProgram, StopProgram, AppendStop,
       StopWorkerProcess, CheckReloadRequired, ReloadChecked, StatusThread

LEMMA InitControl == Init => ControlInv
<1> SUFFICES ASSUME Init PROVE ControlInv
  OBVIOUS
<1>1. Len(stack) = 1
  BY DEF Init, ProcessInit
<1> QED
  BY <1>1, InitTypes, LoopControl DEF ControlInv

LEMMA StepKeepsControl == ControlInv /\ [Next]_vars => ControlInv'
<1> SUFFICES ASSUME ControlInv, [Next]_vars PROVE ControlInv'
  OBVIOUS
<1>1. TypeInv'
  BY StepKeepsTypes DEF ControlInv
<1>2. CASE ProcessNext /\ UNCHANGED hostVars
  BY <1>1, <1>2, ChurnKeepsControl, CodeKeepsControl, LoopKeepsControl
  DEF ProcessNext, ProcessStep
<1>3. CASE HostNext
  BY <1>1, <1>3, HostKeepsWork, SameStackKeepsControl DEF workVars
<1>4. CASE UNCHANGED vars
  BY <1>1, <1>4, SameStackKeepsControl DEF vars, processVars
<1> QED
  BY <1>2, <1>3, <1>4 DEF Next

\* No program and no MDI command ever starts inside another, however deep in
\* user code, handlers and robot commands the queue is churned.
THEOREM ProgramsDoNotNest == Spec => []OneProgram
<1>1. ControlInv => OneProgram
  BY DEF ControlInv, Exclusive
<1> QED
  BY <1>1, InitControl, StepKeepsControl, PTL DEF Spec

\* Whenever Python code executes, the FSM is in a state of that code.
THEOREM ControlIsTracked == Spec => []ControlMatchesState
<1>1. ControlInv => ControlMatchesState
  BY DEF ControlInv, ControlMatchesState, Exceptions
<1> QED
  BY <1>1, InitControl, StepKeepsControl, PTL DEF Spec
-----------------------------------------------------------------------------
(* Aborts.  The flag of worker() is toggled whenever an exception reaches the *)
(* loop, so AbortPending rests on the parity: the flag is up only on the way  *)
(* to on_abort and in it, and then no event leads to another abort.           *)

AbortInv ==
  /\ abort /\ Len(stack) > 1 => stack[2].code = "on_abort"
  /\ abort /\ exc # "none" => fsm \in OnAborted \cup {"stopped", "errored"}
  /\ fsm \in PreAbortStates => IF exc = "none" THEN abort /\ Len(stack) = 1
                                               ELSE ~abort /\ exc = "ProgramExit"

FullInv == ControlInv /\ AbortInv

\* What the flag says while code executes.
LEMMA AbortingCode ==
  ASSUME FullInv
  PROVE  /\ stack \in Seq(Frames) /\ Len(stack) \in Nat /\ Len(stack) > 0
         /\ abort /\ exc = "none" /\ Len(stack) > 1 => fsm \in OnAborted
         /\ exc = "none" /\ Len(stack) > 1 => fsm \notin PreAbortStates
         /\ OnAborted \cap PreAbortStates = {}
         /\ {"stopped", "errored"} \cap PreAbortStates = {}
<1>1. stack \in Seq(Frames) /\ Len(stack) \in Nat /\ Len(stack) > 0
  BY DEF FullInv, ControlInv, TypeInv, TypeOK
<1>2. ASSUME abort, exc = "none", Len(stack) > 1 PROVE fsm \in OnAborted
  <2>1. Executing("on_abort")
    BY <1>1, <1>2 DEF Executing, FullInv, AbortInv
  <2> QED
    BY <1>2, <2>1 DEF FullInv, ControlInv, Control
<1>3. exc = "none" /\ Len(stack) > 1 => fsm \notin PreAbortStates
  BY <1>1 DEF FullInv, AbortInv
<1> QED
  BY <1>1, <1>2, <1>3 DEF OnAborted, PreAbortStates

\* Steps of code: the frame above the loop stays, no abort begins.
LEMMA CodeKeepsAbort ==
  ASSUME FullInv, exc = "none", Len(stack) > 1,
         Len(stack') > 1 => stack'[2].code = stack[2].code,
         fsm' \notin PreAbortStates,
         abort' = abort,
         exc' = "none" \/ fsm' = fsm
  PROVE  AbortInv'
BY AbortingCode DEF AbortInv, FullInv

LEMMA ExecuteKeepsAbort ==
  ASSUME FullInv, exc = "none", abort' = abort, abort => Len(stack) > 1,
         NEW command \in InterpreterCommand, NEW caller \in Seq(Frames),
         Len(caller) = Len(stack),
         \A i \in 1..Len(stack) : caller[i].code = stack[i].code,
         Execute(command, caller)
  PROVE  AbortInv'
<1> DEFINE event == EventOf[command]
<1>1. event \in CommandEvents
  BY DEF InterpreterCommand, EventOf, CommandEvents, Events
<1>2. abort => fsm \in OnAborted
  BY AbortingCode
<1>3. fsm \notin PreAbortStates
  BY AbortingCode DEF FullInv, AbortInv
<1>4. abort => stack'[2].code = "on_abort"
  <2>1. ASSUME abort PROVE /\ caller[2].code = "on_abort"
                           /\ Len(caller) \in Nat /\ Len(caller) > 1
    BY <2>1, AbortingCode DEF FullInv, AbortInv
  <2>2. \/ stack' = caller
        \/ \E kind \in {"program", "mdi"} :
             stack' = Append(caller, Frame(kind, "imports"))
    BY DEF Execute, Running
  <2>3. ASSUME NEW kind \in {"program", "mdi"}, abort
        PROVE  Append(caller, Frame(kind, "imports"))[2] = caller[2]
    <3>1. Frame(kind, "imports") \in Frames
      BY FrameType DEF UserCode, Points
    <3> QED
      BY <2>1, <2>3, <3>1, CallStack
  <2> QED
    BY <2>1, <2>2, <2>3
<1>5. CASE ~Can(event, fsm)
  BY <1>3, <1>4, <1>5 DEF Execute, AbortInv
<1>6. CASE Can(event, fsm)
  <2>1. /\ <<event, fsm, fsm'>> \in Transitions
        /\ exc' \in Raised(event)
    BY <1>6, FireIsArc DEF Execute, Enter
  <2>2. CASE event = "stop"
    <3>1. exc' = "ProgramExit"
      BY <2>1, <2>2 DEF Raised
    <3>2. abort => fsm' \in {"stopped", "errored"}
      BY <1>2, <2>1, <2>2, EndArcs
    <3> QED
      BY <1>4, <3>1, <3>2, AbortingCode DEF AbortInv
  <2>3. CASE event # "stop"
    <3>1. fsm' \notin PreAbortStates /\ (abort => fsm' \in OnAborted)
      BY <1>1, <1>2, <2>1, <2>3, CommandArcs
    <3> QED
      BY <1>4, <3>1 DEF AbortInv
  <2> QED
    BY <2>2, <2>3
<1> QED
  BY <1>5, <1>6

LEMMA ChurnKeepsAbort ==
  ASSUME FullInv,
         HandleInterrupt \/ Churn \/ SpinWhilePaused \/ PeekCommand \/ PutBack
  PROVE  AbortInv'
<1>1. /\ TypeInv
      /\ stack \in Seq(Frames) /\ stack # <<>>
      /\ Len(stack) \in Nat /\ Len(stack) > 0
      /\ queue \in Seq(InterpreterCommand)
  BY DEF FullInv, ControlInv, TypeInv, TypeOK
<1>2. \A point \in Points :
        /\ Goto(point) \in Seq(Frames)
        /\ Len(Goto(point)) = Len(stack)
        /\ \A i \in 1..Len(stack) : Goto(point)[i].code = stack[i].code
  BY <1>1, GotoStack
<1>3. queue # <<>> => Head(queue) \in InterpreterCommand
  BY <1>1
<1>4. /\ Len(stack) = 1 <=> Top.code = "worker"
      /\ Top.at = "poll" => Top.code # "worker"
      /\ Len(stack) # 1 => Len(stack) > 1
  <2>1. Frame("worker", "churn").at # "poll"
    BY DEF Frame
  <2>2. Top.code = "worker" => Top.at # "poll"
    BY <1>1, <2>1, LoopAlone
  <2>3. Len(stack) = 1 <=> Top.code = "worker"
    BY <1>1, LoopAlone
  <2>4. Len(stack) # 1 => Len(stack) > 1
    <3>1. \A n \in Nat : n > 0 /\ n # 1 => n > 1
      OBVIOUS
    <3>2. Len(stack) \in Nat /\ Len(stack) > 0
      BY <1>1
    <3> QED
      BY <3>1, <3>2
  <2> QED
    BY <2>2, <2>3, <2>4
<1>5. ASSUME exc = "none", exc' = "none", fsm' = fsm, abort' = abort,
             Len(stack) > 1, NEW point \in Points, stack' = Goto(point)
      PROVE  AbortInv'
  BY <1>1, <1>2, <1>5, AbortingCode, CodeKeepsAbort
<1> USE DEF Points
<1>6. CASE HandleInterrupt
  <2>1. exc = "none" /\ exc' = exc /\ fsm' = fsm /\ abort' = abort
    BY <1>6 DEF HandleInterrupt, At
  <2>2. abort => Len(stack) > 1
    <3>1. CASE Len(stack) = 1
      BY <1>4, <1>6, <3>1 DEF HandleInterrupt, InLoop, At
    <3> QED
      BY <1>4, <3>1
  <2>3. Len(stack) > 1 => stack'[2] = stack[2]
    <3>1. Frame("interrupt", "code") \in Frames
      BY FrameType DEF UserCode
    <3>2. stack' = stack \/ stack' = Append(stack, Frame("interrupt", "code"))
      BY <1>6 DEF HandleInterrupt
    <3> QED
      BY <1>1, <3>1, <3>2, CallStack
  <2>4. fsm \notin PreAbortStates
    BY <2>1, <2>2, AbortingCode DEF FullInv, AbortInv
  <2> QED
    BY <2>1, <2>2, <2>3, <2>4, AbortingCode DEF AbortInv, FullInv
<1>7. CASE Churn
  <2> DEFINE caller == IF Top.code = "worker" THEN stack ELSE Goto("test")
  <2>1. /\ caller \in Seq(Frames)
        /\ Len(caller) = Len(stack)
        /\ \A i \in 1..Len(stack) : caller[i].code = stack[i].code
    BY <1>1, <1>2
  <2>2. exc = "none" /\ abort' = abort /\ (abort => Len(stack) > 1)
    <3>1. exc = "none" /\ abort' = abort
      BY <1>7 DEF Churn, At
    <3>2. Len(stack) = 1 => ~abort
      BY <1>4, <1>7 DEF Churn, InLoop
    <3> QED
      BY <1>4, <3>1, <3>2
  <2>3. CASE queue = <<>>
    <3>1. Top.code # "worker" /\ Len(stack) > 1
      BY <1>4, <1>7, <2>3 DEF Churn, InLoop
    <3>2. exc' = exc /\ fsm' = fsm /\ stack' = Goto("test")
      BY <1>7, <2>3, <3>1 DEF Churn
    <3> QED
      BY <1>5, <2>2, <3>1, <3>2
  <2>4. CASE queue # <<>>
    <3>1. Execute(Head(queue), caller)
      BY <1>7, <2>4 DEF Churn
    <3> QED
      BY <1>3, <2>1, <2>2, <2>4, <3>1, ExecuteKeepsAbort
  <2> QED
    BY <2>3, <2>4
<1>8. CASE SpinWhilePaused
  <2>1. Len(stack) > 1 /\ exc = "none" /\ exc' = exc /\ abort' = abort
    BY <1>8, LoopAlone, <1>1 DEF SpinWhilePaused, At
  <2>2. CASE fsm \in PrePausedStates
    <3>1. stack' = Append(Goto("churn"), Frame("on_pause", "code"))
      BY <1>8, <2>2
      DEF SpinWhilePaused, PrePausedStates, PausedStates, Paused, MdiPaused
    <3>2. stack'[2].code = stack[2].code
      <4>1. Frame("on_pause", "code") \in Frames
        BY FrameType DEF UserCode
      <4>2. /\ Goto("churn") \in Seq(Frames)
            /\ Len(Goto("churn")) = Len(stack)
            /\ Goto("churn")[2].code = stack[2].code
        BY <1>1, <1>2, <2>1
      <4>3. Append(Goto("churn"), Frame("on_pause", "code"))[2] = Goto("churn")[2]
        BY <1>1, <2>1, <4>1, <4>2, CallStack
      <4> QED
        BY <3>1, <4>2, <4>3
    <3>3. fsm' \in OnPaused
      <4>1. Can("next", fsm)
        BY <2>2 DEF PrePausedStates, Can, States, Transitions, HandlerArcs, Arc, OnPaused
      <4>2. <<"next", fsm, fsm'>> \in Transitions
        BY <1>8, <2>2, <4>1, FireIsArc DEF SpinWhilePaused, Enter,
           PrePausedStates, PausedStates, Paused, MdiPaused
      <4> QED
        BY <2>2, <4>2, HandlerArcsLead
    <3>4. fsm' \notin PreAbortStates
      BY <3>3 DEF OnPaused, PreAbortStates
    <3> QED
      BY <2>1, <3>2, <3>4, CodeKeepsAbort
  <2>3. CASE fsm \notin PrePausedStates
    <3>1. fsm' = fsm /\ \E point \in Points : stack' = Goto(point)
      BY <1>8, <2>3 DEF SpinWhilePaused
    <3> QED
      BY <1>5, <2>1, <3>1
  <2> QED
    BY <2>2, <2>3
<1>9. CASE PeekCommand
  <2>1. Len(stack) > 1 /\ exc = "none" /\ abort' = abort
    BY <1>1, <1>9, LoopAlone DEF PeekCommand, At
  <2>2. CASE queue # <<>> /\ Head(queue) \in Peek
    <3>1. Execute(Head(queue), Goto("polled"))
      BY <1>9, <2>2 DEF PeekCommand
    <3> QED
      BY <1>2, <1>3, <2>1, <2>2, <3>1, ExecuteKeepsAbort
  <2>3. CASE ~(queue # <<>> /\ Head(queue) \in Peek)
    <3>1. fsm' = fsm /\ exc' = exc
          /\ (stack' = Goto("polled") \/ stack' = Goto("reinsert"))
      BY <1>9, <2>3 DEF PeekCommand
    <3> QED
      BY <1>5, <2>1, <3>1
  <2> QED
    BY <2>2, <2>3
<1>10. CASE PutBack
  BY <1>1, <1>5, <1>10, LoopAlone DEF PutBack, At
<1> QED
  BY <1>6, <1>7, <1>8, <1>9, <1>10

LEMMA StepOfCodeKeepsAbort ==
  ASSUME FullInv,
         \/ PauseCommandRaised \/ CommandWaits \/ CommandReturns
         \/ ImportModules \/ NextLine \/ CallCommand \/ CallPause
         \/ RegisterInterrupt \/ CodeRaises \/ InterruptReturns \/ HandlerReturns
  PROVE  AbortInv'
<1>1. /\ TypeInv
      /\ stack \in Seq(Frames) /\ stack # <<>>
      /\ Len(stack) \in Nat /\ Len(stack) > 1
      /\ exc = "none"
  <2>1. Top.at # "churn" /\ exc = "none"
    BY DEF PauseCommandRaised, CommandWaits, CommandReturns, ImportModules,
       NextLine, CallCommand, CallPause, RegisterInterrupt, CodeRaises,
       InterruptReturns, HandlerReturns, At
  <2> QED
    BY <2>1, LoopAlone DEF FullInv, ControlInv, TypeInv, TypeOK
<1>2. Len(stack') > 1 => stack'[2].code = stack[2].code
  <2>1. \/ stack' = stack
        \/ stack' = Return
        \/ \E point \in Points : stack' = Goto(point)
        \/ \E point \in Points, kind \in Calls :
             stack' = Append(stack, Frame(kind, point))
    <3>1. CASE CallCommand
      BY <3>1 DEF CallCommand, Calls, Points
    <3>2. CASE ~CallCommand
      BY <3>2 DEF Points, PauseCommandRaised, CommandWaits, CommandReturns,
         ImportModules, NextLine, CallPause, RegisterInterrupt, CodeRaises,
         InterruptReturns, HandlerReturns
    <3> QED
      BY <3>1, <3>2
  <2>2. stack' = Return /\ Len(stack') > 1 => stack'[2] = stack[2]
    <3>1. /\ Len(Return) = Len(stack) - 1
          /\ \A i \in 1..Len(Return) : Return[i] = stack[i]
      BY <1>1, ReturnStack
    <3> QED
      BY <1>1, <3>1
  <2>3. ASSUME NEW point \in Points, stack' = Goto(point)
        PROVE  stack'[2].code = stack[2].code
    BY <1>1, <2>3, GotoStack
  <2>4. ASSUME NEW point \in Points, NEW kind \in Calls,
               stack' = Append(stack, Frame(kind, point))
        PROVE  stack'[2] = stack[2]
    <3>1. Frame(kind, point) \in Frames
      BY FrameType DEF Calls
    <3> QED
      BY <1>1, <2>4, <3>1, CallStack
  <2> QED
    BY <2>1, <2>2, <2>3, <2>4
<1>3. CASE HandlerReturns
  <2>1. /\ <<"next", fsm, fsm'>> \in Transitions
        /\ exc' = "none"
    BY <1>1, <1>3, FireIsArc DEF HandlerReturns, Enter
  <2>2. Executing(Top.code)
    BY <1>1 DEF Executing, Top
  <2>3. Control
    BY <1>1 DEF FullInv, ControlInv
  <2>4. CASE Top.code = "on_pause"
    <3>1. fsm \in OnPaused /\ fsm' \in Paused
      BY <2>1, <2>2, <2>3, <2>4, HandlerArcsLead DEF Control
    <3>2. ~abort
      BY <1>1, <3>1, AbortingCode DEF OnPaused, OnAborted
    <3> QED
      BY <1>3, <2>1, <3>1, <3>2
      DEF HandlerReturns, AbortInv, Paused, PreAbortStates
  <2>5. CASE Top.code = "on_abort"
    <3>1. fsm' \in {"stopped", "errored"}
      BY <2>1, <2>2, <2>3, <2>5, HandlerArcsLead DEF Control
    <3>2. ~abort'
      BY <1>3, <2>5 DEF HandlerReturns
    <3> QED
      BY <3>1, <3>2 DEF AbortInv, PreAbortStates
  <2> QED
    BY <1>3, <2>4, <2>5 DEF HandlerReturns
<1>4. CASE ~HandlerReturns
  <2>1. fsm' = fsm /\ abort' = abort
    BY <1>4 DEF PauseCommandRaised, CommandWaits, CommandReturns, ImportModules,
       NextLine, CallCommand, CallPause, RegisterInterrupt, CodeRaises,
       InterruptReturns
  <2> QED
    BY <1>1, <1>2, <2>1, AbortingCode, CodeKeepsAbort
<1> QED
  BY <1>3, <1>4

LEMMA LoopKeepsAbort ==
  ASSUME FullInv,
         \/ Unwind \/ CatchInLoop \/ RunOnAbortHandler \/ WorkerExits
         \/ TriggerInterrupt \/ SafetyInputTripped
  PROVE  AbortInv'
<1>1. /\ TypeInv /\ AbortInv
      /\ stack \in Seq(Frames) /\ stack # <<>>
      /\ Len(stack) \in Nat /\ Len(stack) > 0
      /\ exc \in Exceptions \cup {"none"} /\ abort \in BOOLEAN
  BY DEF FullInv, ControlInv, TypeInv, TypeOK
<1>2. CASE Unwind
  <2>1. /\ fsm' = fsm /\ abort' = abort /\ exc # "none" /\ Len(stack) > 1
        /\ \/ /\ exc' = "none" /\ exc # "ProgramExit"
              /\ \E point \in Points : stack' = Goto(point)
           \/ stack' = Return /\ exc' = exc
    BY <1>2 DEF Unwind, Points
  <2>2. Len(stack') > 1 => stack'[2].code = stack[2].code
    <3>1. /\ Len(Return) = Len(stack) - 1
          /\ \A i \in 1..Len(Return) : Return[i] = stack[i]
      BY <1>1, <2>1, ReturnStack
    <3>2. \A point \in Points : Goto(point)[2].code = stack[2].code
      BY <1>1, <2>1, GotoStack
    <3> QED
      BY <1>1, <2>1, <3>1, <3>2
  <2> QED
    BY <1>1, <2>1, <2>2, AbortingCode DEF AbortInv
<1>3. CASE CatchInLoop
  <2>1. Len(stack) = 1 /\ stack' = stack /\ exc # "none"
    BY <1>3 DEF CatchInLoop
  <2>2. Len(stack') = 1 /\ ~(Len(stack') > 1)
    BY <2>1
  <2>3. CASE abort' = abort /\ fsm' = fsm /\ exc' = exc
    BY <1>1, <2>1, <2>3 DEF AbortInv
  <2>4. CASE abort' = ~abort /\ fsm' = fsm /\ exc' = "none" /\ LoopEvent[exc] \in {"none", "stop"}
    <3>1. (abort' <=> ~abort) /\ (fsm \in PreAbortStates => ~abort)
      BY <1>1, <2>1, <2>4 DEF AbortInv
    <3> QED
      BY <2>4, <2>2, <3>1 DEF AbortInv
  <2>5. CASE /\ abort' = ~abort /\ exc' = "none"
             /\ LoopEvent[exc] \in {"stop", "runtime_error"}
             /\ <<LoopEvent[exc], fsm, fsm'>> \in Transitions
    <3>1. abort => fsm' \notin PreAbortStates
      <4>1. abort => fsm' \in {"stopped", "errored"}
        BY <2>1, <2>5, <1>1, EndArcs DEF AbortInv
      <4> QED
        BY <4>1 DEF PreAbortStates
    <3> QED
      <4>1. fsm' \in PreAbortStates => abort'
        BY <2>5, <3>1
      <4> QED
        BY <2>5, <2>2, <4>1 DEF AbortInv
  <2>6. \/ abort' = abort /\ fsm' = fsm /\ exc' = exc
        \/ /\ abort' = ~abort /\ fsm' = fsm /\ exc' = "none"
           /\ LoopEvent[exc] \in {"none", "stop"}
        \/ /\ abort' = ~abort /\ exc' = "none"
           /\ LoopEvent[exc] \in {"stop", "runtime_error"}
           /\ <<LoopEvent[exc], fsm, fsm'>> \in Transitions
    <3>1. LoopEvent[exc] \in {"none", "stop", "runtime_error"}
      BY <1>1, <2>1 DEF LoopEvent, Exceptions
    <3> QED
      BY <1>3, <3>1, FireIsArc DEF CatchInLoop, Enter, Toggled
  <2> QED
    BY <2>3, <2>4, <2>5, <2>6
<1>4. CASE RunOnAbortHandler
  <2>1. Len(stack) = 1 /\ exc = "none" /\ exc' = exc
    BY <1>1, <1>4, LoopAlone DEF RunOnAbortHandler, InLoop, At
  <2>2. CASE fsm \in PreAbortStates
    <3>1. /\ stack' = Append(stack, Frame("on_abort", "code"))
          /\ <<"next", fsm, fsm'>> \in Transitions
      <4>1. Can("next", fsm)
        BY <2>2 DEF PreAbortStates, Can, States, Transitions, HandlerArcs, Arc, OnAborted
      <4> QED
        BY <1>4, <2>2, <4>1, FireIsArc DEF RunOnAbortHandler, Enter
    <3>2. fsm' \in OnAborted
      BY <2>2, <3>1, HandlerArcsLead
    <3>3. stack'[2].code = "on_abort"
      <4>1. /\ Frame("on_abort", "code") \in Frames
            /\ Frame("on_abort", "code").code = "on_abort"
        BY FrameType DEF UserCode, Points
      <4>2. stack'[Len(stack) + 1] = Frame("on_abort", "code")
        BY <1>1, <3>1, <4>1, CallStack
      <4> QED
        BY <2>1, <4>1, <4>2
    <3> QED
      BY <2>1, <3>2, <3>3, AbortingCode DEF AbortInv
  <2>3. CASE fsm \notin PreAbortStates
    BY <1>4, <2>1, <2>3 DEF RunOnAbortHandler, AbortInv
  <2> QED
    BY <2>2, <2>3
<1>5. CASE WorkerExits
  BY <1>1, <1>5 DEF WorkerExits, AbortInv
<1>6. CASE TriggerInterrupt
  BY <1>1, <1>6 DEF TriggerInterrupt, AbortInv
<1>7. CASE SafetyInputTripped
  BY <1>1, <1>7 DEF SafetyInputTripped, AbortInv
<1> QED
  BY <1>2, <1>3, <1>4, <1>5, <1>6, <1>7

LEMMA StepKeepsAbort == FullInv /\ [Next]_vars => FullInv'
<1> SUFFICES ASSUME FullInv, [Next]_vars PROVE FullInv'
  OBVIOUS
<1>1. ControlInv'
  BY StepKeepsControl DEF FullInv
<1>2. AbortInv'
  <2>1. CASE ProcessNext /\ UNCHANGED hostVars
    BY <2>1, ChurnKeepsAbort, StepOfCodeKeepsAbort, LoopKeepsAbort
    DEF ProcessNext, ProcessStep
  <2>2. CASE HostNext
    BY <2>2, HostKeepsWork DEF workVars, FullInv, AbortInv
  <2>3. CASE UNCHANGED vars
    BY <2>3 DEF vars, processVars, FullInv, AbortInv
  <2> QED
    BY <2>1, <2>2, <2>3 DEF Next
<1> QED
  BY <1>1, <1>2 DEF FullInv

LEMMA InitAbort == Init => FullInv
<1>1. Init => AbortInv
  BY DEF Init, ProcessInit, AbortInv, PreAbortStates
<1> QED
  BY <1>1, InitControl DEF FullInv

\* An abort that has begun is carried out: the flag worker() toggles never
\* comes out wrong, whatever exceptions meet on the way.
THEOREM AbortsAreCarriedOut == Spec => []AbortPending
<1>1. FullInv => AbortPending
  BY DEF FullInv, AbortInv, AbortPending
<1> QED
  BY <1>1, InitAbort, StepKeepsAbort, PTL DEF Spec
-----------------------------------------------------------------------------
(* What the host believes.  HostCatchesUp is inductive: a state that enters   *)
(* the status queue is the state reported, and reloads change neither.        *)

\* The process takes an event, and reports it.
TakesEvent == \E event \in Events : Can(event, fsm) /\ Enter(event)

ReportsReload == /\ status' = Append(status, "ReloadRequired")
                 /\ UNCHANGED <<fsm, reported>>

LEMMA ExecuteReports ==
  ASSUME NEW command \in InterpreterCommand, NEW caller, Execute(command, caller)
  PROVE  TakesEvent \/ UNCHANGED <<fsm, reported, status>>
<1>1. EventOf[command] \in Events
  BY DEF InterpreterCommand, EventOf, Events
<1> QED
  BY <1>1 DEF Execute, TakesEvent

\* What a step of the process does to the reports.
LEMMA ProcessReports ==
  ASSUME TypeOK, ProcessNext
  PROVE  TakesEvent \/ ReportsReload \/ UNCHANGED <<fsm, reported, status>>
<1>1. queue # <<>> => Head(queue) \in InterpreterCommand
  BY DEF TypeOK
<1>2. {"next", "stop", "runtime_error"} \subseteq Events
  BY DEF Events
<1>3. CASE Churn
  BY <1>1, <1>3, ExecuteReports DEF Churn
<1>4. CASE PeekCommand
  BY <1>1, <1>4, ExecuteReports DEF PeekCommand
<1>5. CASE SpinWhilePaused
  <2>1. fsm \in PrePausedStates => Can("next", fsm)
    BY DEF PrePausedStates, Can, States, Transitions, HandlerArcs, Arc, OnPaused
  <2> QED
    BY <1>2, <1>5, <2>1 DEF SpinWhilePaused, TakesEvent
<1>6. CASE HandlerReturns
  BY <1>2, <1>6 DEF HandlerReturns, TakesEvent
<1>7. CASE RunOnAbortHandler
  <2>1. fsm \in PreAbortStates => Can("next", fsm)
    BY DEF PreAbortStates, Can, States, Transitions, HandlerArcs, Arc, OnAborted
  <2> QED
    BY <1>2, <1>7, <2>1 DEF RunOnAbortHandler, TakesEvent
<1>8. CASE CatchInLoop
  <2>1. LoopEvent[exc] \in {"none", "stop", "runtime_error"}
    BY <1>8 DEF CatchInLoop, LoopEvent, TypeOK, Exceptions
  <2> QED
    BY <1>2, <1>8, <2>1 DEF CatchInLoop, TakesEvent
<1>9. CASE ImportModules
  BY <1>9 DEF ImportModules, ReportsReload
<1>10. CASE ~(\/ Churn \/ PeekCommand \/ SpinWhilePaused \/ HandlerReturns
              \/ RunOnAbortHandler \/ CatchInLoop \/ ImportModules)
  BY <1>10 DEF ProcessNext, ProcessStep, HandleInterrupt, PutBack,
     PauseCommandRaised, CommandWaits, CommandReturns, NextLine, CallCommand,
     CallPause, RegisterInterrupt, CodeRaises, InterruptReturns, Unwind,
     WorkerExits, TriggerInterrupt, SafetyInputTripped
<1> QED
  BY <1>3, <1>4, <1>5, <1>6, <1>7, <1>8, <1>9, <1>10

\* The part of HostCatchesUp about the messages under way.
UnderWay ==
  /\ NoStateAfter(0) => hostState = reported
  /\ \A i \in 1..Len(status) :
       status[i] \in ReportStates /\ NoStateAfter(i) => status[i] = reported

LEMMA ReloadIsNoState == "ReloadRequired" \notin ReportStates
BY DEF ReportStates

LEMMA AppendReload ==
  ASSUME UnderWay, status \in Seq(Messages),
         status' = Append(status, "ReloadRequired"),
         UNCHANGED <<reported, hostState>>
  PROVE  UnderWay'
<1>1. Len(status) \in Nat /\ Len(status') = Len(status) + 1
  OBVIOUS
<1>2. /\ \A j \in 1..Len(status) : status'[j] = status[j]
      /\ status'[Len(status) + 1] = "ReloadRequired"
  OBVIOUS
<1>3. \A i \in Nat : NoStateAfter(i)' => NoStateAfter(i)
  BY <1>1, <1>2 DEF NoStateAfter
<1>4. NoStateAfter(0)' => hostState' = reported'
  BY <1>3 DEF UnderWay
<1>5. ASSUME NEW i \in 1..Len(status'), status'[i] \in ReportStates,
             NoStateAfter(i)'
      PROVE  status'[i] = reported'
  <2>1. i \in 1..Len(status) /\ status'[i] = status[i]
    BY <1>1, <1>2, <1>5, ReloadIsNoState
  <2>2. NoStateAfter(i)
    BY <1>3, <1>5
  <2> QED
    BY <1>5, <2>1, <2>2 DEF UnderWay
<1> QED
  BY <1>4, <1>5 DEF UnderWay

LEMMA AppendState ==
  ASSUME NEW s \in Seq(Messages), reported' \in ReportStates,
         status' = Append(s, reported')
  PROVE  UnderWay'
<1>1. /\ Len(status') = Len(s) + 1 /\ Len(s) \in Nat
      /\ status'[Len(s) + 1] = reported'
  OBVIOUS
<1>2. \A i \in Nat : NoStateAfter(i)' => i >= Len(s) + 1
  BY <1>1 DEF NoStateAfter
<1> QED
  BY <1>1, <1>2 DEF UnderWay

LEMMA EventKeepsHost ==
  ASSUME TypeOK, HostCatchesUp, TakesEvent, hostState' = hostState
  PROVE  HostCatchesUp'
<1>1. PICK event \in Events : Can(event, fsm) /\ Enter(event)
  BY DEF TakesEvent
<1> DEFINE dst == Fire(event, fsm)
<1>2. /\ fsm' = dst
      /\ reported' = Told(dst)
      /\ status' = status \o ReloadReports(event, dst) \o StateReports(dst)
  BY <1>1 DEF Enter
<1>3. Told(dst) \in ReportStates
  BY ReportType DEF Told, TypeOK
<1>4. fsm' \notin Unreported => reported' = Report(fsm')
  BY <1>2 DEF Told
<1>5. UnderWay /\ status \in Seq(Messages)
  BY DEF UnderWay, HostCatchesUp, TypeOK
<1> HIDE DEF dst
<1>6. CASE Told(dst) = reported
  <2>1. status' = status \o ReloadReports(event, dst) /\ reported' = reported
    <3>1. StateReports(dst) = <<>>
      BY <1>6 DEF StateReports
    <3>2. status \o ReloadReports(event, dst) \in Seq(Messages)
      <4>1. ReloadReports(event, dst) = <<>> \/ ReloadReports(event, dst) = <<"ReloadRequired">>
        BY DEF ReloadReports
      <4> QED
        BY <1>5, <4>1, AtMostOneMessage DEF Messages
    <3> QED
      BY <1>2, <1>6, <3>1, <3>2
  <2>2. CASE ReloadReports(event, dst) = <<"ReloadRequired">>
    <3>1. status' = Append(status, "ReloadRequired")
      BY <1>5, <2>1, <2>2 DEF Messages
    <3> QED
      BY <1>4, <1>5, <2>1, <3>1, AppendReload DEF UnderWay, HostCatchesUp
  <2>3. CASE ReloadReports(event, dst) = <<>>
    <3>1. status' = status
      BY <1>5, <2>1, <2>3
    <3> QED
      BY <1>4, <2>1, <3>1 DEF HostCatchesUp, NoStateAfter
  <2> QED
    BY <2>2, <2>3 DEF ReloadReports
<1>7. CASE Told(dst) # reported
  <2> DEFINE s == status \o ReloadReports(event, dst)
  <2>1. s \in Seq(Messages)
    <3>1. ReloadReports(event, dst) = <<>> \/ ReloadReports(event, dst) = <<"ReloadRequired">>
      BY DEF ReloadReports
    <3> QED
      BY <1>5, <3>1, AtMostOneMessage DEF Messages
  <2>2. status' = Append(s, reported')
    <3>1. StateReports(dst) = <<reported'>>
      BY <1>2, <1>7 DEF StateReports
    <3>2. reported' \in Messages
      BY <1>2, <1>3 DEF Messages
    <3> HIDE DEF s
    <3>3. status' = s \o <<reported'>>
      BY <1>2, <3>1 DEF s
    <3> QED
      BY <2>1, <3>2, <3>3
  <2>3. UnderWay'
    BY <1>2, <1>3, <2>1, <2>2, AppendState
  <2> QED
    BY <1>4, <2>3 DEF UnderWay, HostCatchesUp
<1> QED
  BY <1>6, <1>7

LEMMA StatusKeepsHost ==
  ASSUME TypeOK, HostCatchesUp, StatusThread
  PROVE  HostCatchesUp'
<1>1. /\ status \in Seq(Messages) /\ status # <<>> /\ status' = Tail(status)
      /\ UNCHANGED <<fsm, reported>>
  BY DEF StatusThread, TypeOK, workVars
<1>2. /\ Len(status) \in Nat /\ Len(status) > 0
      /\ Len(status') = Len(status) - 1
      /\ \A j \in 1..Len(status') : status'[j] = status[j + 1]
      /\ Head(status) = status[1]
  BY <1>1
<1>3. \A i \in Nat : NoStateAfter(i)' => NoStateAfter(i + 1)
  <2>1. ASSUME NEW i \in Nat, NoStateAfter(i)', NEW j \in 1..Len(status), j > i + 1
        PROVE  status[j] \notin ReportStates
    <3>1. j - 1 \in 1..Len(status') /\ j - 1 > i
      BY <1>2, <2>1
    <3>2. status'[j - 1] = status[j]
      BY <1>2, <3>1
    <3> QED
      BY <2>1, <3>1, <3>2 DEF NoStateAfter
  <2> QED
    BY <2>1 DEF NoStateAfter
<1>4. ASSUME NoStateAfter(0)' PROVE hostState' = reported'
  <2>1. NoStateAfter(1)
    BY <1>3, <1>4
  <2>2. CASE status[1] \in ReportStates
    BY <1>1, <1>2, <2>1, <2>2 DEF StatusThread, HostCatchesUp
  <2>3. CASE status[1] \notin ReportStates
    <3>1. NoStateAfter(0)
      BY <1>2, <2>1, <2>3 DEF NoStateAfter
    <3> QED
      BY <1>1, <1>2, <2>3, <3>1 DEF StatusThread, HostCatchesUp
  <2> QED
    BY <2>2, <2>3
<1>5. ASSUME NEW i \in 1..Len(status'), status'[i] \in ReportStates,
             NoStateAfter(i)'
      PROVE  status'[i] = reported'
  <2>1. NoStateAfter(i + 1) /\ status'[i] = status[i + 1] /\ i + 1 \in 1..Len(status)
    BY <1>2, <1>3, <1>5
  <2> QED
    BY <1>1, <1>5, <2>1 DEF HostCatchesUp
<1> QED
  BY <1>1, <1>4, <1>5 DEF HostCatchesUp

HostInv == TypeInv /\ HostCatchesUp

LEMMA StepKeepsHost == HostInv /\ [Next]_vars => HostInv'
<1> SUFFICES ASSUME HostInv, [Next]_vars PROVE HostInv'
  OBVIOUS
<1>1. TypeInv' /\ TypeOK
  BY StepKeepsTypes DEF HostInv, TypeInv
<1>2. ASSUME UNCHANGED <<fsm, reported, status, hostState>> PROVE HostCatchesUp'
  BY <1>2 DEF HostInv, HostCatchesUp, NoStateAfter
<1>3. CASE ProcessNext /\ UNCHANGED hostVars
  <2>1. hostState' = hostState
    BY <1>3 DEF hostVars
  <2>2. CASE TakesEvent
    BY <1>1, <2>1, <2>2, EventKeepsHost DEF HostInv
  <2>3. CASE ReportsReload
    <3>1. UnderWay /\ status \in Seq(Messages)
      BY <1>1 DEF UnderWay, HostCatchesUp, HostInv, TypeOK
    <3> QED
      BY <1>1, <2>1, <2>3, <3>1, AppendReload
      DEF HostInv, HostCatchesUp, UnderWay, ReportsReload
  <2> QED
    BY <1>1, <1>2, <1>3, <2>1, <2>2, <2>3, ProcessReports DEF HostInv
<1>4. CASE HostNext
  <2>1. CASE StatusThread
    BY <1>1, <2>1, StatusKeepsHost DEF HostInv
  <2>2. CASE ~StatusThread
    BY <1>1, <1>2, <1>4, <2>2
    DEF HostInv, HostNext, Request, StepProgram, StopProgram, AppendStop,
        StopWorkerProcess, CheckReloadRequired, ReloadChecked, hostVars, workVars
  <2> QED
    BY <2>1, <2>2
<1>5. CASE UNCHANGED vars
  BY <1>1, <1>2, <1>5 DEF vars, processVars, hostVars, HostInv
<1> QED
  BY <1>3, <1>4, <1>5 DEF Next

LEMMA InitHost == Init => HostInv
<1> SUFFICES ASSUME Init PROVE HostInv
  OBVIOUS
<1>1. /\ status = <<"Idle">> /\ Len(status) = 1 /\ status[1] = "Idle"
      /\ fsm = "idle" /\ reported = "Idle" /\ hostState = "Idle"
  BY DEF Init, ProcessInit
<1>2. Report("idle") = "Idle"
  <2>1. "idle" \notin ReportedPaused
    BY DEF ReportedPaused, MdiPaused
  <2> QED
    BY <2>1 DEF Report
<1> QED
  BY <1>1, <1>2, InitTypes DEF HostInv, HostCatchesUp

\* Once the status thread has caught up, the host believes what is the case.
THEOREM HostIsTold == Spec => []HostCatchesUp
<1>1. HostInv => HostCatchesUp
  BY DEF HostInv
<1> QED
  BY <1>1, InitHost, StepKeepsHost, PTL DEF Spec

-----------------------------------------------------------------------------
(* Stops.  A Stop is popped where it is executed, and what executes tells     *)
(* that the FSM takes it.                                                     *)

Active == ProgramStates \cup MdiStates \cup OnAborted

\* A stop is refused only between a pause and on_pause.
LEMMA StopIsTaken ==
  ASSUME NEW s \in Active \ PrePausedStates
  PROVE  Can("stop", s)
BY DEF Can, States, Transitions, StopProgramArcs, StopMdiArcs, StopArcs, Arc,
       Active, ProgramStates, MdiStates, Paused, MdiRunning, MdiPaused, OnPaused,
       OnAborted, PreAbortStates, PrePausedStates

LEMMA ExecutedStop ==
  ASSUME ControlInv, StopPopped, fsm \notin PrePausedStates,
         NEW caller, Execute(Head(queue), caller)
  PROVE  exc' = "ProgramExit"
<1>1. fsm \in Active \ PrePausedStates
  BY DEF StopPopped, ControlInv, Control, Active
<1>2. Can("stop", fsm)
  BY <1>1, StopIsTaken
<1>3. EventOf[Head(queue)] = "stop"
  BY DEF StopPopped, EventOf
<1> QED
  BY <1>2, <1>3 DEF Execute, Raised

\* Nothing but a churn shortens the queue, unless a stop request empties it.
LEMMA OnlyChurnsPop ==
  ASSUME TypeOK, [Next]_vars, queue # <<>>, queue' = Tail(queue),
         stopping' = stopping
  PROVE  Churn \/ PeekCommand
<1>1. queue \in Seq(InterpreterCommand) /\ Len(queue) \in Nat
  BY DEF TypeOK
<1>2. Len(queue') = Len(queue) - 1
  BY <1>1
<1>3. queue' # queue /\ ~(Len(queue') > Len(queue))
  <2>1. \A n \in Nat : n - 1 # n /\ ~(n - 1 > n)
    OBVIOUS
  <2>2. Len(queue') # Len(queue) /\ ~(Len(queue') > Len(queue))
    BY <1>1, <1>2, <2>1, Zenon
  <2> QED
    BY <2>2
<1>4. ASSUME NEW s \in Seq(InterpreterCommand), s # <<>>,
             queue' = s \o queue \/ queue' = queue \o s
      PROVE  FALSE
  <2>1. Len(s) > 0 /\ Len(s) \in Nat
    BY <1>4
  <2>2. Len(queue') = Len(s) + Len(queue) \/ Len(queue') = Len(queue) + Len(s)
    BY <1>1, <1>4
  <2> QED
    BY <1>1, <1>3, <2>1, <2>2
<1>5. ~HostNext
  <2>1. ASSUME NEW command \in InterpreterCommand,
               queue' = Append(queue, command)
        PROVE  FALSE
    <3>1. queue' = queue \o <<command>>
      BY <1>1, <2>1
    <3> QED
      BY <1>4, <3>1
  <2>2. \A command \in InterpreterCommand : ~Request(command)
    BY <2>1 DEF Request
  <2>3. ~StepProgram
    <3>1. "Step" \in InterpreterCommand /\ "Start" \in InterpreterCommand
      BY DEF InterpreterCommand
    <3> DEFINE first == IF ProgramRunning THEN <<>> ELSE <<"Start">>
    <3>2. first \in Seq(InterpreterCommand)
      BY <3>1
    <3>3. StepProgram => queue' = queue \o first \o <<"Step">>
      BY DEF StepProgram
    <3> HIDE DEF first
    <3>4. queue \o first \o <<"Step">> = queue \o (first \o <<"Step">>)
      BY <1>1, <3>1, <3>2
    <3>5. /\ first \o <<"Step">> \in Seq(InterpreterCommand)
          /\ first \o <<"Step">> # <<>>
      BY <3>1, <3>2
    <3> QED
      BY <1>4, <3>3, <3>4, <3>5
  <2>4. ~StopProgram /\ ~AppendStop
    BY DEF StopProgram, AppendStop
  <2>5. ~CheckReloadRequired
    BY <2>1 DEF CheckReloadRequired, InterpreterCommand
  <2>6. ~StopWorkerProcess /\ ~ReloadChecked /\ ~StatusThread
    BY <1>3 DEF StopWorkerProcess, ReloadChecked, StatusThread
  <2> QED
    BY <2>2, <2>3, <2>4, <2>5, <2>6 DEF HostNext
<1>6. ProcessNext
  BY <1>3, <1>5 DEF Next, vars, processVars
<1>7. ~PutBack
  <2>1. PutBack => Len(queue') > Len(queue)
    BY <1>1 DEF PutBack
  <2> QED
    BY <1>3, <2>1
<1>8. ~NextLine /\ ~CallPause /\ ~SafetyInputTripped
  <2>1. /\ <<"Pause">> \in Seq(InterpreterCommand)
        /\ <<"PauseActive">> \in Seq(InterpreterCommand)
    BY DEF InterpreterCommand
  <2> QED
    BY <1>3, <1>4, <2>1 DEF NextLine, StepPause, CallPause, SafetyInputTripped
<1> QED
  BY <1>3, <1>6, <1>7, <1>8
  DEF ProcessNext, ProcessStep, HandleInterrupt, SpinWhilePaused,
      PauseCommandRaised, CommandWaits, CommandReturns, ImportModules, CallCommand,
      RegisterInterrupt, CodeRaises, InterruptReturns, HandlerReturns, Unwind,
      CatchInLoop, RunOnAbortHandler, WorkerExits, TriggerInterrupt

LEMMA PoppedStop ==
  ASSUME ControlInv, [Next]_vars, StopPopped, fsm \notin PrePausedStates
  PROVE  exc' = "ProgramExit"
<1>1. queue # <<>> /\ Head(queue) = "Stop" /\ "Stop" \in Peek
  BY DEF StopPopped, Peek
<1>2. Churn \/ PeekCommand
  BY OnlyChurnsPop DEF StopPopped, ControlInv, TypeInv
<1>3. \E caller : Execute(Head(queue), caller)
  BY <1>1, <1>2 DEF Churn, PeekCommand
<1> QED
  BY <1>3, ExecutedStop

\* A Stop that leaves the queue while a program, an MDI command or on_abort
\* executes ends it; it is dropped only between a pause and on_pause.
THEOREM StopsAreTaken == Spec => StopDroppedBeforePauseOnly
<1>1. ControlInv /\ [Next]_vars
        => [StopPopped /\ fsm \notin PrePausedStates => exc' = "ProgramExit"]_vars
  BY PoppedStop
<1> QED
  BY <1>1, InitControl, StepKeepsControl, PTL DEF Spec, StopDroppedBeforePauseOnly
=============================================================================
