---------------------------- MODULE SurvivalProofs ----------------------------
(***************************************************************************)
(* The process that executes programs outlives them, if they plan no move  *)
(* and compile, and if neither MDI commands nor interrupt functions fail.  *)
(* Without any one of these assumptions it need not.                       *)
(***************************************************************************)
EXTENDS InterpreterProofs

\* What programs may not do; everything else of the model they may.
Harmless ==
  ~Planning /\ ~Uncompilable /\ "mdi" \notin Faulty /\ "interrupt" \notin Faulty

-----------------------------------------------------------------------------
(* The loop of worker() fires runtime_error for an exception that reaches it, *)
(* so the FSM has to be in a state that takes it: code that raises executes   *)
(* in one.  It has none while a program is paused or about to be, and then    *)
(* nothing executes but interrupt functions, called by a frame that churns    *)
(* the queue and will not go on before the program does.  A ProgramPause must *)
(* not get as far as the loop.                                                *)

Held == Paused \cup PrePausedStates

\* on_pause is called by a frame that is about to churn the queue; only robot
\* commands other than those that plan are in spin_command.
Shaped(s) ==
  /\ \A i \in 1..Len(s) : s[i].code # "planning"
  /\ \A i \in 2..Len(s) : s[i].code = "on_pause" => s[i - 1].at = "churn"
  /\ \A i \in 1..Len(s) :
       s[i].at \in {"poll", "polled", "reinsert"} => s[i].code = "command"

\* What may be at the top of the stack of a program that is held.
Rests ==
  \/ Top.at \in {"churn", "test"}
  \/ Top.at = "polled" /\ fsm \in PrePausedStates
  \/ /\ Top.code = "interrupt" /\ Top.at = "code"
     /\ stack[Len(stack) - 1].at = "churn"

Survives ==
  /\ process # "dead"
  /\ Shaped(stack)
  /\ fsm \in Held /\ exc = "none" => Rests
  /\ exc = "ProgramPause" => Top.code = "command"
  /\ exc \in {"Error", "ProgramUpdate"} => Can("runtime_error", fsm)

SurviveInv == ControlInv /\ Survives

-----------------------------------------------------------------------------
(* The state machine. *)

\* Where an error is expected.
LEMMA ErrorIsTaken ==
  ASSUME NEW s \in {"running", "running_step"} \cup OnPaused \cup OnAborted
                   \cup MdiRunning
  PROVE  Can("runtime_error", s)
BY DEF Can, States, Transitions, ErrorArcs, Arc, OnPaused, OnAborted, MdiRunning,
       PreAbortStates

LEMMA ErrorIsNotTakenHeld == ASSUME NEW s \in Held PROVE ~Can("runtime_error", s)
BY DEF Can, Held, Paused, PrePausedStates, Transitions, LoadArcs, StartArcs,
       StopProgramArcs, StopMdiArcs, StopArcs, PauseArcs, ContinueArcs,
       HandlerArcs, ErrorArcs, Updates, ReloadChecks, Arc, Loop, OnPaused,
       OnAborted, MdiRunning

\* An update is executed where an error would be expected.
LEMMA UpdateArcs ==
  ASSUME NEW s, NEW d, <<"update", s, d>> \in Transitions
  PROVE  d = s /\ s \in {"running", "running_step"} \cup OnPaused \cup OnAborted
                        \cup MdiRunning
BY DEF Transitions, LoadArcs, StartArcs, StopProgramArcs, StopMdiArcs, StopArcs,
       PauseArcs, ContinueArcs, HandlerArcs, ErrorArcs, Updates, ReloadChecks,
       Arc, Loop, Paused, MdiRunning, MdiPaused, OnPaused, OnAborted,
       PrePausedStates

\* A program comes to be held by a Pause, and then by way of on_pause.
LEMMA HeldArcs ==
  ASSUME NEW event \in Events, NEW s, NEW d, <<event, s, d>> \in Transitions,
         d \in Held
  PROVE  \/ event \in {"pause", "pause_active"} /\ d \in PrePausedStates
         \/ event = "next" /\ s \in OnPaused
BY DEF Events, Held, Transitions, LoadArcs, StartArcs, StopProgramArcs,
       StopMdiArcs, StopArcs, PauseArcs, ContinueArcs, HandlerArcs, ErrorArcs,
       Updates, ReloadChecks, Arc, Loop, Paused, MdiRunning, MdiPaused, OnPaused,
       OnAborted, PrePausedStates, PreAbortStates

LEMMA HeldApart ==
  ASSUME NEW s \in Held
  PROVE  s \notin OnPaused \cup OnAborted \cup PreAbortStates \cup MdiRunning
                  \cup {"running", "running_step"}
BY DEF Held, Paused, PrePausedStates, OnPaused, OnAborted, PreAbortStates,
       MdiRunning

-----------------------------------------------------------------------------
(* The call stack. *)

LEMMA ShapedCall ==
  ASSUME NEW s \in Seq(Frames), s # <<>>, Shaped(s),
         NEW kind \in (UserCode \cup Calls) \ {"planning"}, NEW point \in Points,
         kind = "on_pause" => s[Len(s)].at = "churn",
         point \in {"poll", "polled", "reinsert"} => kind = "command"
  PROVE  Shaped(Append(s, Frame(kind, point)))
<1> DEFINE t == Append(s, Frame(kind, point))
<1>1. Len(s) \in Nat /\ Len(s) > 0
  OBVIOUS
<1>2. /\ Frame(kind, point) \in Frames
      /\ Frame(kind, point).code = kind
      /\ Frame(kind, point).at = point
  BY FrameType
<1>3. /\ Len(t) = Len(s) + 1
      /\ \A i \in 1..Len(s) : t[i] = s[i]
      /\ t[Len(s) + 1] = Frame(kind, point)
  BY <1>2, CallStack
<1> HIDE DEF t
<1>4. \A i \in 1..Len(t) : i \in 1..Len(s) \/ i = Len(s) + 1
  BY <1>1, <1>3
<1>5. ASSUME NEW i \in 2..Len(t), t[i].code = "on_pause"
      PROVE  t[i - 1].at = "churn"
  <2>1. CASE i \in 1..Len(s)
    BY <1>1, <1>3, <1>5, <2>1 DEF Shaped
  <2>2. CASE i = Len(s) + 1
    BY <1>1, <1>2, <1>3, <1>5, <2>2
  <2> QED
    BY <1>1, <1>3, <2>1, <2>2
<1>6. \A i \in 1..Len(t) :
        /\ t[i].code # "planning"
        /\ t[i].at \in {"poll", "polled", "reinsert"} => t[i].code = "command"
  BY <1>2, <1>3, <1>4 DEF Shaped
<1>7. Shaped(t)
  BY <1>5, <1>6 DEF Shaped
<1> QED
  BY <1>7 DEF t

LEMMA SurvivalStack ==
  ASSUME SurviveInv
  PROVE  /\ stack \in Seq(Frames) /\ stack # <<>>
         /\ Len(stack) \in Nat /\ Len(stack) > 0
         /\ queue # <<>> => Head(queue) \in InterpreterCommand
         /\ exc \in Exceptions \cup {"none"}
         /\ Top.at # "churn" => Len(stack) > 1
         /\ Top.code = "worker" => Top.at = "churn"
         /\ Top.code = "worker" <=> Len(stack) = 1
         /\ Top.at \in {"poll", "polled", "reinsert"} => Top.code = "command"
         /\ Top.code # "planning"
<1>1. TypeInv /\ Shaped(stack)
  BY DEF SurviveInv, ControlInv, Survives
<1>2. /\ stack \in Seq(Frames) /\ stack # <<>>
      /\ queue # <<>> => Head(queue) \in InterpreterCommand
      /\ exc \in Exceptions \cup {"none"}
  BY <1>1 DEF TypeInv, TypeOK
<1>3. Len(stack) \in Nat /\ Len(stack) > 0 /\ Len(stack) \in 1..Len(stack)
  BY <1>2
<1>4. /\ Top.at # "churn" => Len(stack) > 1
      /\ Top.code = "worker" => Top.at = "churn"
      /\ Top.code = "worker" <=> Len(stack) = 1
  BY <1>1, LoopAlone, FrameType DEF Points
<1> QED
  BY <1>1, <1>2, <1>3, <1>4 DEF Shaped, Top

\* The innermost frame goes on to another point.
LEMMA ShapedGoto ==
  ASSUME SurviveInv, NEW point \in Points,
         point \in {"poll", "polled", "reinsert"} => Top.code = "command"
  PROVE  /\ Goto(point) \in Seq(Frames) /\ Goto(point) # <<>>
         /\ Shaped(Goto(point))
         /\ Goto(point)[Len(Goto(point))].at = point
         /\ stack' = Goto(point) => Top'.at = point /\ Top'.code = Top.code
<1>1. stack \in Seq(Frames) /\ stack # <<>> /\ Len(stack) \in Nat /\ Len(stack) > 0
  BY SurvivalStack
<1>2. /\ Goto(point) \in Seq(Frames)
      /\ Len(Goto(point)) = Len(stack)
      /\ \A i \in 1..Len(stack) :
           /\ Goto(point)[i].code = stack[i].code
           /\ Goto(point)[i].at = IF i = Len(stack) THEN point ELSE stack[i].at
  BY <1>1, GotoStack
<1> DEFINE s == Goto(point)
<1> HIDE DEF s
<1>3. Len(stack) \in 1..Len(stack)
  BY <1>1
<1>4. \A i \in 2..Len(stack) :
        i \in 1..Len(stack) /\ i - 1 \in 1..Len(stack) /\ i - 1 # Len(stack)
  BY <1>1
<1>5. Shaped(stack)
  BY DEF SurviveInv, Survives
<1>6. Shaped(Goto(point))
  BY <1>2, <1>3, <1>4, <1>5 DEF Shaped, Top
<1> QED
  BY <1>1, <1>2, <1>3, <1>6 DEF Top

\* The innermost frame is left.
LEMMA ShapedReturn ==
  ASSUME SurviveInv, Len(stack) > 1
  PROVE  /\ Return \in Seq(Frames)
         /\ Shaped(Return)
         /\ stack' = Return => Top' = stack[Len(stack) - 1]
         /\ Top.code = "on_pause" => stack[Len(stack) - 1].at = "churn"
<1>1. stack \in Seq(Frames) /\ Len(stack) \in Nat /\ Len(stack) > 0
  BY SurvivalStack
<1>2. /\ Return \in Seq(Frames) /\ Len(Return) = Len(stack) - 1
      /\ \A i \in 1..Len(Return) : Return[i] = stack[i]
  BY <1>1, ReturnStack
<1>3. Shaped(stack)
  BY DEF SurviveInv, Survives
<1>4. Len(stack) \in 2..Len(stack) /\ Len(stack) - 1 \in 1..Len(Return)
  BY <1>1, <1>2
<1> DEFINE s == Return
<1> HIDE DEF s
<1>5. /\ \A i \in 1..Len(Return) : i \in 1..Len(stack)
      /\ \A i \in 2..Len(Return) :
           /\ i \in 2..Len(stack)
           /\ i \in 1..Len(Return) /\ i - 1 \in 1..Len(Return)
  BY <1>1, <1>2
<1>6. \A i \in 1..Len(s) :
        /\ s[i].code # "planning"
        /\ s[i].at \in {"poll", "polled", "reinsert"} => s[i].code = "command"
  BY <1>2, <1>3, <1>5 DEF Shaped, s
<1>7. \A i \in 2..Len(s) : s[i].code = "on_pause" => s[i - 1].at = "churn"
  BY <1>2, <1>3, <1>5 DEF Shaped, s
<1>8. Shaped(Return)
  BY <1>6, <1>7 DEF Shaped, s
<1> QED
  BY <1>2, <1>3, <1>4, <1>8 DEF Shaped, Top

\* An interrupt function is called.
LEMMA ShapedInterrupt ==
  ASSUME SurviveInv, stack' = Append(stack, Frame("interrupt", "code"))
  PROVE  /\ Shaped(stack')
         /\ Top'.code = "interrupt" /\ Top'.at = "code"
         /\ stack'[Len(stack') - 1] = Top
<1>1. stack \in Seq(Frames) /\ stack # <<>> /\ Len(stack) \in Nat /\ Len(stack) > 0
  BY SurvivalStack
<1>2. Shaped(stack')
  BY <1>1, ShapedCall DEF SurviveInv, Survives, UserCode, Calls, Points
<1>3. /\ Frame("interrupt", "code") \in Frames
      /\ Frame("interrupt", "code").code = "interrupt"
      /\ Frame("interrupt", "code").at = "code"
  BY FrameType DEF UserCode, Points
<1>4. /\ Len(stack') = Len(stack) + 1
      /\ \A i \in 1..Len(stack) : stack'[i] = stack[i]
      /\ stack'[Len(stack) + 1] = Frame("interrupt", "code")
  BY <1>1, <1>3, CallStack
<1>5. Len(stack) \in 1..Len(stack) /\ Len(stack') - 1 = Len(stack)
  BY <1>1, <1>4
<1> QED
  BY <1>2, <1>3, <1>4, <1>5 DEF Top

-----------------------------------------------------------------------------
(* Steps of the process. *)

\* A state in which nothing is held, or that of a frame about to churn.
LEMMA NotHeldSurvives ==
  ASSUME SurviveInv, process' = process, Shaped(stack'), exc' # "ProgramPause",
         fsm' \in Held => exc' # "none" \/ Top'.at \in {"churn", "test"},
         exc' \in {"Error", "ProgramUpdate"} => Can("runtime_error", fsm')
  PROVE  Survives'
BY DEF SurviveInv, Survives, Rests, Shaped

LEMMA ExecuteSurvives ==
  ASSUME SurviveInv, Harmless, exc = "none", process' = process,
         NEW command \in InterpreterCommand, NEW caller \in Seq(Frames),
         caller # <<>>, Shaped(caller),
         stack' = caller =>
           Top'.at \in {"churn", "test"} \/ (Top'.at = "polled" /\ fsm \notin Held),
         Execute(command, caller)
  PROVE  Survives'
<1> DEFINE event == EventOf[command]
<1>1. event \in Events \ {"next", "runtime_error"}
  BY DEF InterpreterCommand, EventOf, Events
<1>2. Shaped(stack')
  <2>1. \/ stack' = caller
        \/ stack' = Append(caller, Frame("program", "imports"))
        \/ stack' = Append(caller, Frame("mdi", "imports"))
    BY DEF Execute, Running
  <2> QED
    BY <2>1, ShapedCall DEF UserCode, Calls, Points
<1>3. CASE ~Can(event, fsm)
  <2>1. stack' = caller /\ UNCHANGED <<fsm, exc>>
    BY <1>3 DEF Execute
  <2> QED
    BY <1>2, <2>1, NotHeldSurvives
<1>4. CASE Can(event, fsm)
  <2>1. <<event, fsm, fsm'>> \in Transitions
    BY <1>4, FireIsArc DEF Execute, Enter
  <2>2. exc' \in Raised(event) /\ stack' = Running(event, caller)
    BY <1>4 DEF Execute
  <2>3. fsm' \in Held =>
          event \in {"pause", "pause_active"} /\ fsm' \in PrePausedStates
    BY <1>1, <2>1, HeldArcs
  <2>4. CASE event = "update"
    <3>1. exc' = "ProgramUpdate"
      BY <2>2, <2>4 DEF Raised
    <3>2. Can("runtime_error", fsm')
      <4>1. fsm' \in {"running", "running_step"} \cup OnPaused \cup OnAborted
                     \cup MdiRunning
        BY <2>1, <2>4, UpdateArcs
      <4> QED
        BY <4>1, ErrorIsTaken
    <3> QED
      BY <1>2, <2>3, <2>4, <3>1, <3>2, NotHeldSurvives
  <2>5. CASE event \in {"pause", "pause_active"}
    <3>1. stack' = caller /\ exc' = "none"
      BY <2>2, <2>5 DEF Raised, Running
    <3> QED
      BY <1>2, <2>3, <3>1 DEF SurviveInv, Survives, Rests, Shaped
  <2>6. CASE event \notin {"update", "pause", "pause_active"}
    <3>1. exc' \in {"none", "ProgramExit"}
      BY <2>2, <2>6 DEF Raised, Harmless
    <3> QED
      BY <1>2, <2>3, <2>6, <3>1, NotHeldSurvives
  <2> QED
    BY <2>4, <2>5, <2>6
<1> QED
  BY <1>3, <1>4

LEMMA InterruptSurvives ==
  ASSUME SurviveInv, HandleInterrupt
  PROVE  Survives'
<1>1. /\ exc = "none" /\ Top.at \in {"churn", "poll"}
      /\ UNCHANGED <<fsm, exc, process>>
  BY DEF HandleInterrupt, At
<1>2. CASE stack' = stack
  BY <1>1, <1>2 DEF SurviveInv, Survives, Rests, Shaped, Top
<1>3. CASE stack' = Append(stack, Frame("interrupt", "code"))
  <2>1. /\ Shaped(stack')
        /\ Top'.code = "interrupt" /\ Top'.at = "code"
        /\ stack'[Len(stack') - 1] = Top
    BY <1>3, ShapedInterrupt
  <2>2. fsm \in Held => Top.at = "churn"
    BY <1>1 DEF SurviveInv, Survives, Rests
  <2> QED
    BY <1>1, <2>1, <2>2 DEF SurviveInv, Survives, Rests, Shaped
<1> QED
  BY <1>2, <1>3 DEF HandleInterrupt

LEMMA ChurnSurvives ==
  ASSUME SurviveInv, Harmless,
         HandleInterrupt \/ Churn \/ SpinWhilePaused \/ PeekCommand \/ PutBack
  PROVE  Survives'
<1> USE DEF Points
<1>1. /\ stack \in Seq(Frames) /\ stack # <<>>
      /\ queue # <<>> => Head(queue) \in InterpreterCommand
      /\ Top.at \in {"poll", "polled", "reinsert"} => Top.code = "command"
      /\ Top.code = "worker" => Top.at = "churn"
      /\ Shaped(stack)
  BY SurvivalStack DEF SurviveInv, Survives
<1>2. CASE HandleInterrupt
  BY <1>2, InterruptSurvives
<1>3. CASE Churn
  <2> DEFINE caller == IF Top.code = "worker" THEN stack ELSE Goto("test")
  <2>1. exc = "none" /\ process' = process /\ Top.at = "churn"
    BY <1>3 DEF Churn, At
  <2>2. /\ caller \in Seq(Frames) /\ caller # <<>> /\ Shaped(caller)
        /\ stack' = caller => Top'.at \in {"churn", "test"}
    <3>1. CASE Top.code = "worker"
      BY <1>1, <2>1, <3>1 DEF Top
    <3>2. CASE Top.code # "worker"
      BY <3>2, ShapedGoto
    <3> QED
      BY <3>1, <3>2
  <2>3. CASE queue = <<>>
    <3>1. stack' = caller /\ UNCHANGED <<fsm, exc>>
      BY <1>3, <2>3 DEF Churn
    <3> HIDE DEF caller
    <3> QED
      BY <2>1, <2>2, <3>1, NotHeldSurvives
  <2>4. CASE queue # <<>>
    <3>1. Execute(Head(queue), caller)
      BY <1>3, <2>4 DEF Churn
    <3> HIDE DEF caller
    <3> QED
      BY <1>1, <2>1, <2>2, <2>4, <3>1, ExecuteSurvives
  <2> QED
    BY <2>3, <2>4
<1>4. CASE SpinWhilePaused
  <2>1. exc = "none" /\ exc' = "none" /\ process' = process /\ Top.at = "test"
    BY <1>4 DEF SpinWhilePaused, At
  <2>2. CASE fsm \in PausedStates
    <3>1. stack' = Goto("churn")
      BY <1>4, <2>2
      DEF SpinWhilePaused, PrePausedStates, PausedStates, Paused, MdiPaused
    <3> QED
      BY <2>1, <3>1, ShapedGoto, NotHeldSurvives
  <2>3. CASE fsm \in PrePausedStates
    <3>1. stack' = Append(Goto("churn"), Frame("on_pause", "code")) /\ Enter("next")
      BY <1>4, <2>3
      DEF SpinWhilePaused, PrePausedStates, PausedStates, Paused, MdiPaused
    <3>2. fsm' \notin Held
      <4>1. Can("next", fsm)
        BY <2>3 DEF PrePausedStates, Can, States, Transitions, HandlerArcs, Arc, OnPaused
      <4>2. fsm' \in OnPaused
        BY <2>3, <3>1, <4>1, FireIsArc, HandlerArcsLead DEF Enter
      <4> QED
        BY <4>2, HeldApart
    <3>3. Shaped(stack')
      BY <3>1, ShapedGoto, ShapedCall DEF UserCode, Calls
    <3> QED
      BY <2>1, <3>2, <3>3, NotHeldSurvives
  <2>4. CASE fsm \notin PausedStates \cup PrePausedStates
    <3>1. /\ fsm' = fsm
          /\ stack' = Goto(IF Top.code \in UserCode THEN "code" ELSE "poll")
      BY <1>4, <2>4 DEF SpinWhilePaused
    <3>2. Top.code \in UserCode \/ Top.code = "command"
      <4>1. Top.code \in UserCode \cup Calls \cup {"worker"}
        <5>1. Len(stack) \in 1..Len(stack)
          BY SurvivalStack
        <5>2. Top \in Frames
          BY <1>1, <5>1 DEF Top
        <5> QED
          BY <5>2 DEF Frames
      <4> QED
        BY <1>1, <2>1, <4>1, SurvivalStack DEF Calls
    <3>3. Shaped(stack')
      BY <3>1, <3>2, ShapedGoto
    <3>4. fsm' \notin Held
      BY <2>4, <3>1 DEF Held, PausedStates
    <3> QED
      BY <2>1, <3>3, <3>4, NotHeldSurvives
  <2> QED
    BY <2>2, <2>3, <2>4
<1>5. CASE PeekCommand
  <2>1. /\ exc = "none" /\ process' = process
        /\ Top.code = "command" /\ fsm \notin Held
    BY <1>1, <1>5 DEF PeekCommand, At, SurviveInv, Survives, Rests
  <2>2. CASE queue # <<>> /\ Head(queue) \in Peek
    <3>1. Execute(Head(queue), Goto("polled"))
      BY <1>5, <2>2 DEF PeekCommand
    <3> QED
      BY <1>1, <2>1, <2>2, <3>1, ShapedGoto, ExecuteSurvives
  <2>3. CASE ~(queue # <<>> /\ Head(queue) \in Peek)
    <3>1. /\ UNCHANGED <<fsm, exc>>
          /\ stack' = Goto("polled") \/ stack' = Goto("reinsert")
      BY <1>5, <2>3 DEF PeekCommand
    <3> QED
      BY <2>1, <3>1, ShapedGoto, NotHeldSurvives
  <2> QED
    BY <2>2, <2>3
<1>6. CASE PutBack
  <2>1. /\ exc = "none" /\ UNCHANGED <<fsm, exc, process>>
        /\ stack' = Goto("polled") /\ Top.code = "command" /\ fsm \notin Held
    BY <1>1, <1>6 DEF PutBack, At, SurviveInv, Survives, Rests
  <2> QED
    BY <2>1, ShapedGoto, NotHeldSurvives
<1> QED
  BY <1>2, <1>3, <1>4, <1>5, <1>6

\* What fails is not held: it executes in a state in which an error is expected.
LEMMA FailingCode ==
  ASSUME SurviveInv, Harmless, exc = "none", Top.at \in {"imports", "code"},
         Top.code \in Faulty
  PROVE  Can("runtime_error", fsm)
<1>1. Top.code \in UserCode \ {"mdi", "interrupt"}
  BY ProcessAssumption DEF Harmless
<1>2. fsm \notin Held
  BY <1>1 DEF SurviveInv, Survives, Rests
<1>3. Executing(Top.code)
  <2>1. Len(stack) \in 1..Len(stack)
    BY SurvivalStack
  <2> QED
    BY <2>1 DEF Executing, Top
<1>4. fsm \in {"running", "running_step"} \cup OnPaused \cup OnAborted
  <2>1. Control
    BY DEF SurviveInv, ControlInv
  <2> QED
    BY <1>1, <1>2, <1>3, <2>1 DEF UserCode, Control, ProgramStates, Held
<1> QED
  BY <1>4, ErrorIsTaken

LEMMA CodeSurvives ==
  ASSUME SurviveInv, Harmless,
         \/ PauseCommandRaised \/ CommandWaits \/ CommandReturns
         \/ ImportModules \/ NextLine \/ CallCommand \/ CallPause
         \/ RegisterInterrupt \/ CodeRaises \/ InterruptReturns \/ HandlerReturns
  PROVE  Survives'
<1> USE DEF Points
<1>1. /\ stack \in Seq(Frames) /\ stack # <<>>
      /\ Top.at # "churn" => Len(stack) > 1
      /\ Top.at = "polled" => Top.code = "command"
      /\ Shaped(stack)
  BY SurvivalStack DEF SurviveInv, Survives
<1>2. /\ exc = "none" /\ process' = process
      /\ Top.at \in {"polled", "imports", "code"} /\ Len(stack) > 1
  BY <1>1
  DEF PauseCommandRaised, CommandWaits, CommandReturns, ImportModules, NextLine,
      CallCommand, CallPause, RegisterInterrupt, CodeRaises, InterruptReturns,
      HandlerReturns, At
<1>3. CASE PauseCommandRaised
  BY <1>1, <1>3 DEF PauseCommandRaised, At, SurviveInv, Survives, Rests, Shaped, Top
<1>4. CASE CommandWaits
  <2>1. /\ UNCHANGED <<fsm, exc>> /\ fsm \notin Held /\ Top.code = "command"
        /\ stack' = Goto("poll") \/ stack' = Goto("churn")
    BY <1>1, <1>4 DEF CommandWaits, At, SurviveInv, Survives, Rests, Held
  <2>2. Shaped(stack')
    BY <2>1, ShapedGoto
  <2> QED
    BY <1>2, <2>1, <2>2, NotHeldSurvives
<1>5. CASE CommandReturns
  <2>1. UNCHANGED <<fsm, exc>> /\ fsm \notin Held /\ stack' = Return
    BY <1>1, <1>5 DEF CommandReturns, At, SurviveInv, Survives, Rests, Held
  <2> QED
    BY <1>2, <2>1, ShapedReturn, NotHeldSurvives
<1>6. CASE InterruptReturns
  <2>1. UNCHANGED <<fsm, exc>> /\ stack' = Return /\ Top.at = "code"
    BY <1>6 DEF InterruptReturns, At
  <2>2. Shaped(stack') /\ Top' = stack[Len(stack) - 1]
    BY <1>2, <2>1, ShapedReturn
  <2>3. fsm \in Held => Top'.at = "churn"
    BY <1>2, <2>1, <2>2 DEF SurviveInv, Survives, Rests
  <2> QED
    BY <1>2, <2>1, <2>2, <2>3, NotHeldSurvives
<1>7. CASE ImportModules \/ CodeRaises
  <2>1. CASE exc' = "none"
    <3>1. Top.at = "imports" /\ fsm' = fsm /\ stack' = Goto("code")
      BY <1>2, <1>7, <2>1 DEF ImportModules, CodeRaises, At
    <3>2. fsm \notin Held
      BY <1>2, <3>1 DEF SurviveInv, Survives, Rests
    <3> QED
      BY <1>2, <2>1, <3>1, <3>2, ShapedGoto, NotHeldSurvives
  <2>2. CASE exc' # "none"
    <3>1. /\ UNCHANGED <<fsm, stack>> /\ Top.at \in {"imports", "code"}
          /\ exc' = "SystemExit" \/ (exc' = "Error" /\ Top.code \in Faulty)
      BY <1>2, <1>7, <2>2 DEF ImportModules, CodeRaises, At
    <3>2. exc' = "Error" => Can("runtime_error", fsm')
      BY <1>2, <3>1, FailingCode
    <3> QED
      BY <1>1, <1>2, <2>2, <3>1, <3>2, NotHeldSurvives
  <2> QED
    BY <2>1, <2>2
<1>8. CASE NextLine
  <2>1. UNCHANGED <<fsm, exc>> /\ stack' = Goto("churn")
    BY <1>8 DEF NextLine
  <2> QED
    BY <1>2, <2>1, ShapedGoto, NotHeldSurvives
<1>9. CASE CallPause \/ RegisterInterrupt
  BY <1>9
  DEF CallPause, RegisterInterrupt, SurviveInv, Survives, Rests, Shaped, Top
<1>10. CASE CallCommand
  <2>1. UNCHANGED <<fsm, exc>> /\ stack' = Append(stack, Frame("command", "churn"))
    BY <1>10 DEF CallCommand, Harmless
  <2>2. Shaped(stack')
    BY <1>1, <2>1, ShapedCall DEF Calls
  <2>3. Top'.at = "churn"
    <3>1. /\ Frame("command", "churn") \in Frames
          /\ Frame("command", "churn").at = "churn"
      BY FrameType DEF Calls
    <3>2. Len(stack') = Len(stack) + 1
          /\ stack'[Len(stack) + 1] = Frame("command", "churn")
      BY <1>1, <2>1, <3>1, CallStack
    <3> QED
      BY <3>1, <3>2 DEF Top
  <2> QED
    BY <1>2, <2>1, <2>2, <2>3, NotHeldSurvives
<1>11. CASE HandlerReturns
  <2>1. /\ stack' = Return /\ exc' = "none"
        /\ <<"next", fsm, fsm'>> \in Transitions
        /\ Top.code \in {"on_pause", "on_abort"}
    BY <1>2, <1>11, FireIsArc DEF HandlerReturns, Enter
  <2>2. /\ Shaped(stack') /\ Top' = stack[Len(stack) - 1]
        /\ Top.code = "on_pause" => Top'.at = "churn"
    BY <1>2, <2>1, ShapedReturn
  <2>3. Top.code = "on_abort" => fsm' \notin Held
    <3>1. Top.code = "on_abort" => fsm \in OnAborted
      <4>1. Len(stack) \in 1..Len(stack) /\ Control
        BY <1>2, SurvivalStack DEF SurviveInv, ControlInv
      <4> QED
        BY <4>1 DEF Control, Executing, Top
    <3>2. fsm \in OnAborted => fsm' \in {"stopped", "errored"}
      BY <2>1, HandlerArcsLead
    <3> QED
      BY <3>1, <3>2 DEF Held, Paused, PrePausedStates
  <2> QED
    BY <1>2, <2>1, <2>2, <2>3, NotHeldSurvives
<1> QED
  BY <1>3, <1>4, <1>5, <1>6, <1>7, <1>8, <1>9, <1>10, <1>11

LEMMA UnwindSurvives ==
  ASSUME SurviveInv, Unwind
  PROVE  Survives'
<1> USE DEF Points
<1>1. Len(stack) > 1 /\ exc # "none" /\ UNCHANGED <<fsm, process>>
  BY DEF Unwind
<1>2. CASE exc = "ProgramPause"
  <2>1. Top.code = "command" /\ "command" \notin Catching
    BY <1>2, ProcessAssumption DEF SurviveInv, Survives, UserCode
  <2>2. exc' = "none" /\ stack' = Goto("churn")
    BY <1>2, <2>1 DEF Unwind
  <2> QED
    BY <1>1, <2>2, ShapedGoto, NotHeldSurvives
<1>3. CASE exc # "ProgramPause"
  <2>1. \/ /\ exc \in {"Error", "ProgramUpdate"}
           /\ exc' = "none" /\ stack' = Goto("code")
        \/ exc' = exc /\ stack' = Return
    BY <1>3 DEF Unwind
  <2>2. exc \in {"Error", "ProgramUpdate"} => fsm \notin Held
    BY ErrorIsNotTakenHeld DEF SurviveInv, Survives
  <2>3. Shaped(stack')
    BY <1>1, <2>1, ShapedGoto, ShapedReturn
  <2>4. exc' \in {"Error", "ProgramUpdate"} => Can("runtime_error", fsm')
    BY <1>1, <2>1 DEF SurviveInv, Survives
  <2> QED
    BY <1>1, <1>3, <2>1, <2>2, <2>3, <2>4, NotHeldSurvives
<1> QED
  BY <1>2, <1>3

LEMMA LoopSurvives ==
  ASSUME SurviveInv, Harmless,
         \/ Unwind \/ CatchInLoop \/ RunOnAbortHandler \/ WorkerExits
         \/ TriggerInterrupt \/ SafetyInputTripped
  PROVE  Survives'
<1> USE DEF Points
<1>1. /\ stack \in Seq(Frames) /\ stack # <<>>
      /\ Top.code = "worker" => Top.at = "churn"
      /\ Top.code = "worker" <=> Len(stack) = 1
      /\ Shaped(stack)
      /\ exc \in Exceptions \cup {"none"}
  BY SurvivalStack DEF SurviveInv, Survives
<1>2. CASE CatchInLoop
  <2>1. stack' = stack /\ Top.code = "worker" /\ exc \in Exceptions \ {"ProgramPause"}
    BY <1>1, <1>2 DEF CatchInLoop, SurviveInv, Survives
  <2>2. LoopEvent[exc] = "runtime_error" => Can("runtime_error", fsm)
    BY <2>1 DEF LoopEvent, Exceptions, SurviveInv, Survives
  <2>3. exc' = "none" /\ process' = process
    BY <1>2, <2>1, <2>2 DEF CatchInLoop
  <2>4. Top'.at = "churn"
    BY <1>1, <2>1 DEF Top
  <2> QED
    BY <1>1, <2>1, <2>3, <2>4, NotHeldSurvives
<1>3. CASE RunOnAbortHandler
  <2>1. /\ exc = "none" /\ UNCHANGED <<exc, process>>
        /\ Top.at = "churn"
    BY <1>3 DEF RunOnAbortHandler, InLoop, At
  <2>2. CASE fsm \in PreAbortStates
    <3>1. Enter("next") /\ stack' = Append(stack, Frame("on_abort", "code"))
      BY <1>3, <2>2 DEF RunOnAbortHandler
    <3>2. fsm' \in OnAborted
      <4>1. Can("next", fsm)
        BY <2>2 DEF PreAbortStates, Can, States, Transitions, HandlerArcs, Arc, OnAborted
      <4> QED
        BY <2>2, <3>1, <4>1, FireIsArc, HandlerArcsLead DEF Enter
    <3>3. Shaped(stack')
      BY <1>1, <3>1, ShapedCall DEF UserCode, Calls
    <3> QED
      BY <2>1, <3>2, <3>3, HeldApart, NotHeldSurvives
  <2>3. CASE fsm \notin PreAbortStates
    <3>1. UNCHANGED <<fsm, stack>>
      BY <1>3, <2>3 DEF RunOnAbortHandler
    <3> QED
      BY <1>1, <2>1, <3>1, NotHeldSurvives DEF Top
  <2> QED
    BY <2>2, <2>3
<1>4. CASE WorkerExits
  BY <1>4 DEF WorkerExits, SurviveInv, Survives, Rests, Shaped, Top
<1>5. CASE TriggerInterrupt \/ SafetyInputTripped
  BY <1>5
  DEF TriggerInterrupt, SafetyInputTripped, SurviveInv, Survives, Rests, Shaped, Top
<1> QED
  BY <1>2, <1>3, <1>4, <1>5, UnwindSurvives

LEMMA InitSurvives == Init => SurviveInv
<1> SUFFICES ASSUME Init PROVE SurviveInv
  OBVIOUS
<1>1. /\ stack = <<Frame("worker", "churn")>>
      /\ Frame("worker", "churn").code = "worker"
      /\ Frame("worker", "churn").at = "churn"
      /\ fsm = "idle" /\ exc = "none" /\ process = "up"
  BY FrameType DEF Init, ProcessInit, Points
<1>2. Len(stack) = 1 /\ stack[1] = Frame("worker", "churn")
  BY <1>1
<1>3. Shaped(stack)
  BY <1>1, <1>2 DEF Shaped
<1> QED
  BY <1>1, <1>3, InitControl DEF SurviveInv, Survives, Held, Paused, PrePausedStates

LEMMA StepSurvives ==
  ASSUME Harmless
  PROVE  SurviveInv /\ [Next]_vars => SurviveInv'
<1> SUFFICES ASSUME SurviveInv, [Next]_vars PROVE Survives'
  BY StepKeepsControl DEF SurviveInv
<1>1. CASE ProcessNext /\ UNCHANGED hostVars
  BY <1>1, ChurnSurvives, CodeSurvives, LoopSurvives DEF ProcessNext, ProcessStep
<1>2. CASE HostNext
  BY <1>2, HostKeepsWork DEF workVars, SurviveInv, Survives, Rests, Shaped, Top
<1>3. CASE UNCHANGED vars
  BY <1>3 DEF vars, processVars, SurviveInv, Survives, Rests, Shaped, Top
<1> QED
  BY <1>1, <1>2, <1>3 DEF Next

\* The process outlives its programs: every exception that reaches the loop of
\* worker() does so in a state in which the FSM takes the event it fires.
THEOREM ProcessOutlivesPrograms ==
  ASSUME Harmless
  PROVE  Spec => []ProcessSurvives
<1>1. SurviveInv => ProcessSurvives
  BY DEF SurviveInv, Survives, ProcessSurvives
<1>2. SurviveInv /\ [Next]_vars => SurviveInv'
  BY StepSurvives
<1> QED
  BY <1>1, <1>2, InitSurvives, PTL DEF Spec

\* A robot command of a program is not taken for done because of a pause, though
\* an interrupt function may have been called from inside of it and have been
\* paused itself: the command goes on only when the program does.
THEOREM InterruptedCommandsAreFinished ==
  ASSUME Harmless
  PROVE  Spec => []CommandNotAbandoned
<1>1. SurviveInv /\ HostInv => CommandNotAbandoned
  <2> SUFFICES ASSUME SurviveInv, HostInv, At("polled"), Executing("program"),
                      fsm \notin PrePausedStates
               PROVE  reported = "Running"
    BY DEF CommandNotAbandoned
  <2>1. fsm \in ProgramStates /\ fsm \notin Held
    BY DEF At, SurviveInv, ControlInv, Control, Survives, Rests
  <2>2. fsm \in {"running", "running_step"} \cup OnPaused
    BY <2>1 DEF ProgramStates, Held
  <2>3. fsm \notin Unreported /\ Report(fsm) = "Running"
    BY <2>2 DEF Unreported, PrePausedStates, PreAbortStates, OnPaused, Report,
       ReportedPaused, MdiPaused
  <2> QED
    BY <2>3 DEF HostInv, HostCatchesUp
<1>2. Spec => []HostInv
  BY InitHost, StepKeepsHost, PTL DEF Spec
<1>3. SurviveInv /\ [Next]_vars => SurviveInv'
  BY StepSurvives
<1> QED
  BY <1>1, <1>2, <1>3, InitSurvives, PTL DEF Spec
=============================================================================
