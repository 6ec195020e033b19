---------------------------- MODULE LifecycleProofs ----------------------------
(***************************************************************************)
(* Theorems about the life of programs that register no interrupt          *)
(* function: the interpreter implements ProgramLifecycle, and a step runs  *)
(* one line.                                                               *)
(***************************************************************************)
EXTENDS PauseProofs, InterpreterLifecycle

-----------------------------------------------------------------------------
(* What executes, bottom up: the loop; a program, an MDI command or on_abort; *)
(* and above it robot commands, with on_pause among them if it is a program.  *)

Rooted(s) ==
  /\ Len(s) > 1 => s[2].code \in Roots
  /\ \A i \in 3..Len(s) : s[i].code \in Calls \cup {"on_pause"}
  /\ \A i \in 3..Len(s) : s[i].code = "on_pause" => s[2].code = "program"

\* What Phase comes to on such a stack.
PhaseOf(s, f) ==
  IF Len(s) = 1
  THEN IF f \in ProgramStates \cup PreAbortStates THEN "ending" ELSE "rest"
  ELSE IF s[2].code = "program"
       THEN IF \E i \in 3..Len(s) : s[i].code = "on_pause" THEN "on_pause"
            ELSE IF f \in Paused THEN "paused" ELSE "executing"
       ELSE s[2].code

\* The ways from a stack to the next, as far as they matter to the phase.
SameCodes(s, t) ==
  Len(t) = Len(s) /\ \A i \in 1..Len(s) : t[i].code = s[i].code

Called(s, t, kind) ==
  /\ Len(t) = Len(s) + 1
  /\ \A i \in 1..Len(s) : t[i].code = s[i].code
  /\ t[Len(s) + 1].code = kind

Left(s, t) ==
  Len(t) = Len(s) - 1 /\ \A i \in 1..Len(t) : t[i].code = s[i].code

\* The places of a stack that Rooted and PhaseOf look at.
LEMMA Places ==
  ASSUME NEW n \in Nat
  PROVE  /\ n > 1 => 2 \in 1..n
         /\ \A i \in 3..n : i \in 1..n /\ n > 1 /\ i # 2
         /\ \A i \in 3..(n + 1) : n > 1 => i = n + 1 \/ i \in 3..n
OBVIOUS

LEMMA Counts ==
  ASSUME NEW n \in Nat
  PROVE  /\ n = 0 \/ n = 1 \/ n > 1
         /\ n > 1 => n # 1 /\ n # 0
         /\ n > 0 => n # 0
         /\ n > 1 => n = 2 \/ n \in 3..n
OBVIOUS

LEMMA SameRoot ==
  ASSUME NEW s, NEW t, Len(s) \in Nat, Rooted(s), SameCodes(s, t)
  PROVE  Rooted(t) /\ \A f : PhaseOf(t, f) = PhaseOf(s, f)
<1>1. /\ Len(s) > 1 => t[2].code = s[2].code
      /\ \A i \in 3..Len(s) : t[i].code = s[i].code
  BY Places DEF SameCodes
<1>2. Len(t) = Len(s)
  BY DEF SameCodes
<1>3. Rooted(t)
  BY ONLY <1>1, <1>2, Rooted(s), Len(s) \in Nat, Places DEF Rooted
<1>4. ASSUME NEW f PROVE PhaseOf(t, f) = PhaseOf(s, f)
  <2>1. CASE Len(s) = 1
    BY ONLY <1>2, <2>1 DEF PhaseOf
  <2>2. CASE Len(s) # 1 /\ Len(s) > 1
    BY ONLY <1>1, <1>2, <2>2 DEF PhaseOf
  <2>3. CASE Len(s) = 0
    BY <1>1, <1>2, <2>3 DEF PhaseOf
  <2>4. Len(s) = 0 \/ Len(s) = 1 \/ Len(s) > 1
    BY Counts, Zenon
  <2> QED
    BY ONLY <2>1, <2>2, <2>3, <2>4
<1> QED
  BY <1>3, <1>4

LEMMA CommandCalled ==
  ASSUME NEW s, NEW t, Len(s) \in Nat, Len(s) > 1, Rooted(s),
         NEW kind \in Calls, Called(s, t, kind)
  PROVE  Rooted(t) /\ \A f : PhaseOf(t, f) = PhaseOf(s, f)
BY DEF Rooted, Called, PhaseOf, Calls

\* A call below which something has been called returns.
LEMMA FrameLeft ==
  ASSUME NEW s, NEW t, Len(s) \in Nat, Len(s) > 2, Rooted(s), Left(s, t)
  PROVE  /\ Len(t) > 1
         /\ t[2].code = s[2].code
         /\ \A i \in 3..Len(t) : i \in 3..Len(s) /\ t[i].code = s[i].code
         /\ \A i \in 3..Len(s) : i \in 3..Len(t) \/ i = Len(s)
         /\ Len(s) \in 3..Len(s)
         /\ Rooted(t)
<1>1. /\ Len(t) = Len(s) - 1
      /\ \A i \in 1..Len(t) : t[i].code = s[i].code
  BY DEF Left
<1>2. Len(t) \in Nat /\ Len(t) > 1
  BY <1>1
<1>3. /\ 2 \in 1..Len(t)
      /\ \A i \in 3..Len(t) : i \in 3..Len(s) /\ i \in 1..Len(t)
      /\ \A i \in 3..Len(s) : i \in 3..Len(t) \/ i = Len(s)
      /\ Len(s) \in 3..Len(s)
  BY <1>1
<1>4. t[2].code = s[2].code /\ \A i \in 3..Len(t) : t[i].code = s[i].code
  BY ONLY <1>1, <1>3
<1>5. Rooted(t)
  BY ONLY <1>3, <1>4, Rooted(s), Len(s) > 2, Len(s) \in Nat DEF Rooted
<1> QED
  BY ONLY <1>2, <1>3, <1>4, <1>5

LEMMA CommandLeft ==
  ASSUME NEW s, NEW t, Len(s) \in Nat, Len(s) > 1, Rooted(s),
         s[Len(s)].code \in Calls, Left(s, t)
  PROVE  Rooted(t) /\ \A f : PhaseOf(t, f) = PhaseOf(s, f)
<1>1. Len(s) # 2
  BY DEF Rooted, Calls, Roots
<1>2. Len(s) > 2 /\ Len(s) # 1
  BY <1>1
<1>3. /\ Len(t) > 1 /\ Len(t) # 1
      /\ t[2].code = s[2].code
      /\ \A i \in 3..Len(t) : i \in 3..Len(s) /\ t[i].code = s[i].code
      /\ \A i \in 3..Len(s) : i \in 3..Len(t) \/ i = Len(s)
      /\ Rooted(t)
  BY <1>2, FrameLeft
<1>4. s[Len(s)].code # "on_pause"
  BY DEF Calls
<1>5. (\E i \in 3..Len(t) : t[i].code = "on_pause")
        <=> \E i \in 3..Len(s) : s[i].code = "on_pause"
  BY ONLY <1>3, <1>4
<1> QED
  BY ONLY <1>2, <1>3, <1>5 DEF PhaseOf

\* on_pause is left.
LEMMA HandlerLeft ==
  ASSUME NEW s, NEW t, Len(s) \in Nat, Len(s) > 1, Rooted(s),
         s[Len(s)].code = "on_pause", Left(s, t),
         \A i \in 1..Len(t) : s[i].code # "on_pause"
  PROVE  /\ Rooted(t)
         /\ Len(t) > 1 /\ t[2].code = "program"
         /\ \A f : /\ PhaseOf(s, f) = "on_pause"
                   /\ PhaseOf(t, f) = IF f \in Paused THEN "paused" ELSE "executing"
<1>1. Len(s) # 2
  BY DEF Rooted, Roots
<1>2. Len(s) > 2 /\ Len(s) # 1
  BY <1>1
<1>3. /\ Len(t) > 1 /\ Len(t) # 1
      /\ t[2].code = s[2].code
      /\ \A i \in 3..Len(t) : i \in 3..Len(s) /\ t[i].code = s[i].code
      /\ Len(s) \in 3..Len(s)
      /\ Rooted(t)
  BY <1>2, FrameLeft
<1>4. s[2].code = "program"
  BY <1>3 DEF Rooted
<1>5. \A i \in 3..Len(t) : t[i].code # "on_pause"
  <2> TAKE i \in 3..Len(t)
  <2>1. i \in 1..Len(t)
    OBVIOUS
  <2> QED
    BY <1>3, <2>1
<1> QED
  BY ONLY <1>2, <1>3, <1>4, <1>5, s[Len(s)].code = "on_pause" DEF PhaseOf

\* What the loop has called is left.
LEMMA RootLeft ==
  ASSUME NEW s, NEW t, Len(s) = 2, Rooted(s), Left(s, t)
  PROVE  Rooted(t) /\ Len(t) = 1
BY DEF Rooted, Left

\* The loop calls a program, an MDI command or on_abort.
LEMMA RootCalled ==
  ASSUME NEW s, NEW t, Len(s) = 1, NEW kind \in Roots, Called(s, t, kind)
  PROVE  /\ Rooted(t) /\ Len(t) = 2 /\ t[2].code = kind
         /\ \A f : PhaseOf(t, f) = IF kind = "program"
                                   THEN IF f \in Paused THEN "paused" ELSE "executing"
                                   ELSE kind
BY DEF Rooted, Called, PhaseOf

\* A pause calls on_pause.
LEMMA HandlerCalled ==
  ASSUME NEW s, NEW t, Len(s) \in Nat, Len(s) > 1, Rooted(s),
         s[2].code = "program", Called(s, t, "on_pause")
  PROVE  Rooted(t) /\ \A f : PhaseOf(t, f) = "on_pause"
<1>1. /\ Len(t) = Len(s) + 1
      /\ \A i \in 1..Len(s) : t[i].code = s[i].code
      /\ t[Len(s) + 1].code = "on_pause"
  BY DEF Called
<1>2. /\ Len(t) \in 3..Len(t) /\ Len(t) # 1
      /\ 2 \in 1..Len(s)
      /\ \A i \in 3..Len(t) : i = Len(s) + 1 \/ (i \in 3..Len(s) /\ i \in 1..Len(s))
  BY <1>1
<1>3. t[2].code = "program"
  BY ONLY <1>1, <1>2, s[2].code = "program"
<1>4. \A i \in 3..Len(t) : t[i].code \in Calls \cup {"on_pause"}
  BY ONLY <1>1, <1>2, Rooted(s) DEF Rooted
<1> QED
  BY ONLY <1>1, <1>2, <1>3, <1>4 DEF Rooted, PhaseOf, Roots

-----------------------------------------------------------------------------
(* What the actions do to the stack. *)

LEMMA StackMoves ==
  ASSUME stack \in Seq(Frames), stack # <<>>
  PROVE  /\ \A point \in Points : SameCodes(stack, Goto(point))
         /\ Len(stack) > 1 => Left(stack, Return)
<1>1. \A point \in Points : SameCodes(stack, Goto(point))
  BY GotoStack DEF SameCodes
<1>2. Len(stack) > 1 => Left(stack, Return)
  BY ReturnStack DEF Left
<1> QED
  BY <1>1, <1>2

LEMMA StackCalls ==
  ASSUME stack \in Seq(Frames), NEW caller \in Seq(Frames),
         SameCodes(stack, caller),
         NEW kind \in UserCode \cup Calls, NEW point \in Points
  PROVE  Called(stack, Append(caller, Frame(kind, point)), kind)
<1>1. Frame(kind, point) \in Frames /\ Frame(kind, point).code = kind
  BY FrameType
<1>2. /\ Len(Append(caller, Frame(kind, point))) = Len(caller) + 1
      /\ \A i \in 1..Len(caller) : Append(caller, Frame(kind, point))[i] = caller[i]
      /\ Append(caller, Frame(kind, point))[Len(caller) + 1] = Frame(kind, point)
  BY <1>1, CallStack
<1> QED
  BY <1>1, <1>2 DEF Called, SameCodes

\* The phase is what the root says.
LEMMA PhaseRead ==
  stack \in Seq(Frames) /\ stack # <<>> /\ WorkerAtBottom /\ Rooted(stack)
    => Phase = PhaseOf(stack, fsm)
<1> SUFFICES ASSUME stack \in Seq(Frames), stack # <<>>, WorkerAtBottom,
                    Rooted(stack)
             PROVE  Phase = PhaseOf(stack, fsm)
  OBVIOUS
<1>1. Len(stack) \in Nat /\ Len(stack) > 0
  OBVIOUS
<1>2. stack[1].code = "worker"
  BY FrameType DEF WorkerAtBottom, Points
<1>3. CASE Len(stack) = 1
  <2>1. \A kind \in Kinds : ~Executing(kind)
    BY ONLY <1>2, <1>3 DEF Executing, Kinds
  <2> QED
    BY <1>3, <2>1 DEF Phase, PhaseOf, Kinds
<1>4. CASE Len(stack) > 1
  <2>1. \A i \in 1..Len(stack) : i = 1 \/ i = 2 \/ i \in 3..Len(stack)
    BY ONLY <1>1
  <2>2. 2 \in 1..Len(stack) /\ \A i \in 3..Len(stack) : i \in 1..Len(stack)
    BY ONLY <1>1, <1>4
  <2>3. stack[2].code \in Roots
    BY <1>4 DEF Rooted
  <2>4. \A kind \in Roots : Executing(kind) <=> stack[2].code = kind
    BY ONLY <1>2, <2>1, <2>2, <2>3, Rooted(stack)
    DEF Executing, Rooted, Roots, Calls
  <2>5. Executing("on_pause") <=> \E i \in 3..Len(stack) : stack[i].code = "on_pause"
    BY ONLY <1>2, <2>1, <2>2, <2>3 DEF Executing, Roots
  <2>6. Executing("on_pause") => stack[2].code = "program"
    BY <2>5 DEF Rooted
  <2>7. Len(stack) # 1
    BY <1>1, <1>4, Counts, Zenon
  <2>8. CASE stack[2].code = "program"
    <3>1. /\ ~Executing("on_abort") /\ ~Executing("mdi") /\ Executing("program")
          /\ stack[2].code = "program"
      BY ONLY <2>4, <2>8 DEF Roots
    <3> QED
      <4>1. CASE Executing("on_pause")
        BY ONLY <2>5, <2>7, <3>1, <4>1 DEF Phase, PhaseOf
      <4>2. CASE ~Executing("on_pause")
        BY ONLY <2>5, <2>7, <3>1, <4>2 DEF Phase, PhaseOf
      <4> QED
        BY <4>1, <4>2
  <2>9. CASE stack[2].code \in {"mdi", "on_abort"}
    BY ONLY <2>4, <2>6, <2>7, <2>9 DEF Phase, PhaseOf, Roots
  <2> QED
    BY ONLY <2>3, <2>8, <2>9 DEF Roots
<1>5. Len(stack) = 1 \/ Len(stack) > 1
  BY <1>1, Counts, Zenon
<1> QED
  BY <1>3, <1>4, <1>5

\* The same of the next state.
LEMMA PhaseReadNext ==
  ASSUME PauseInv', Rooted(stack')
  PROVE  Phase' = PhaseOf(stack', fsm')
<1>1. (stack \in Seq(Frames) /\ stack # <<>> /\ WorkerAtBottom /\ Rooted(stack)
         => Phase = PhaseOf(stack, fsm))'
  BY PhaseRead, PTL
<1>2. (stack \in Seq(Frames) /\ stack # <<>> /\ WorkerAtBottom)'
  BY DEF PauseInv, ControlInv, TypeInv, TypeOK
<1> QED
  BY <1>1, <1>2

-----------------------------------------------------------------------------
(* The state machine.  A program that was left is in one of the states it    *)
(* executes in or in one of those that lead to on_abort.                     *)

Unended == ProgramStates \cup PreAbortStates

\* Between two programs no command but start leads to a state of a program.
LEMMA RestArcs ==
  ASSUME NEW event \in CommandEvents \ {"start"}, NEW s, NEW d,
         <<event, s, d>> \in Transitions
  PROVE  /\ s \notin Unended => d \notin Unended
         /\ s \notin PrePausedStates \cup PreAbortStates
BY DEF CommandEvents, Events, Transitions, LoadArcs, StartArcs, StopProgramArcs,
       StopMdiArcs, StopArcs, PauseArcs, ContinueArcs, HandlerArcs, ErrorArcs,
       Updates, ReloadChecks, Arc, Loop, Unended, ProgramStates, Paused, MdiRunning,
       MdiPaused, OnPaused, OnAborted, PrePausedStates, PreAbortStates

\* A stop or an error of a program is on its way to on_abort, any other is not.
LEMMA LeavingArcs ==
  ASSUME NEW event \in {"stop", "runtime_error"}, NEW s, NEW d,
         <<event, s, d>> \in Transitions
  PROVE  /\ d \in PreAbortStates <=> s \in ProgramStates
         /\ s \notin PreAbortStates
         /\ d \notin ProgramStates
BY DEF Transitions, LoadArcs, StartArcs, StopProgramArcs, StopMdiArcs, StopArcs,
       PauseArcs, ContinueArcs, HandlerArcs, ErrorArcs, Updates, ReloadChecks,
       Arc, Loop, ProgramStates, Paused, MdiRunning, MdiPaused, OnPaused,
       OnAborted, PrePausedStates, PreAbortStates

\* What executes tells the states apart.
LEMMA StatesApart ==
  ASSUME NEW s
  PROVE  /\ s \in MdiStates \cup OnAborted \cup {"idle", "stopped", "errored"}
              => s \notin Unended
         /\ s \in MdiStates => s \notin OnAborted
         /\ s \in {"idle", "stopped"} => s \notin Active
         /\ s \in OnPaused \cup PrePausedStates => s \in ProgramStates /\ s \notin Paused
         /\ s \in PrePausedStates => s \notin OnPaused
         /\ s \in MdiRunning \cup {"running"} => s \notin Paused
         /\ s \in Paused => s \in ProgramStates
         /\ s \in PreAbortStates => s \notin ProgramStates
BY DEF MdiStates, OnAborted, Unended, ProgramStates, Active, Paused, OnPaused,
       PrePausedStates, PreAbortStates, MdiRunning, MdiPaused

-----------------------------------------------------------------------------
(* The life of a program.  Between two programs the FSM is in a state of a    *)
(* program only if exit() came between a pause and on_pause: then it stays    *)
(* there.  A stop leads to on_abort if it was a program that was stopped.     *)

Ends ==
  /\ exc = "none" /\ Len(stack) = 1 => fsm \notin ProgramStates \ PrePausedStates
  /\ exc = "ProgramExit" =>
       /\ fsm \notin ProgramStates
       /\ Len(stack) > 1 =>
            (fsm \in PreAbortStates <=> stack[2].code = "program")

LifeInv == PauseInv /\ Rooted(stack) /\ Ends

LifeStep == [Life!Next]_Phase /\ Rooted(stack') /\ Ends'

LEMMA LifeFacts ==
  ASSUME LifeInv
  PROVE  /\ Phase = PhaseOf(stack, fsm)
         /\ Len(stack) > 1 => stack[2].code \in Roots /\ 2 \in 1..Len(stack)
         /\ Len(stack) > 1 /\ exc # "ProgramExit" =>
              /\ stack[2].code = "program"  => fsm \in ProgramStates
              /\ stack[2].code = "mdi"      => fsm \in MdiStates
              /\ stack[2].code = "on_abort" => fsm \in OnAborted
<1>1. Phase = PhaseOf(stack, fsm)
  BY PhaseRead DEF LifeInv, PauseInv, ControlInv, TypeInv, TypeOK
<1>2. Len(stack) > 1 => stack[2].code \in Roots
  BY DEF LifeInv, Rooted
<1>3. Len(stack) > 1 => 2 \in 1..Len(stack)
  BY StackFacts, Places DEF LifeInv
<1>4. exc # "ProgramExit" => Control
  BY DEF LifeInv, PauseInv, ControlInv
<1> QED
  BY <1>1, <1>2, <1>3, <1>4 DEF Control, Executing

\* Nothing is called or left: a program may be continued.
LEMMA SamePhase ==
  ASSUME LifeInv, PauseInv', SameCodes(stack, stack'),
         fsm' \in Paused => fsm \in Paused,
         Len(stack) = 1 => (fsm' \in Unended <=> fsm \in Unended)
  PROVE  [Life!Next]_Phase /\ Rooted(stack')
<1>1. /\ Len(stack) \in Nat /\ Rooted(stack)
      /\ Len(stack) = 1 \/ Len(stack) > 1
      /\ Len(stack) > 1 => Len(stack) # 1
  BY StackFacts, Counts DEF LifeInv
<1>2. Rooted(stack') /\ PhaseOf(stack', fsm') = PhaseOf(stack, fsm')
  BY ONLY <1>1, SameCodes(stack, stack'), SameRoot
<1>3. Phase = PhaseOf(stack, fsm) /\ Phase' = PhaseOf(stack, fsm')
  BY <1>2, PhaseReadNext, LifeFacts
<1>4. CASE Len(stack) = 1
  BY <1>2, <1>3, <1>4 DEF PhaseOf, Unended
<1>5. CASE Len(stack) # 1
  <2>1. \/ PhaseOf(stack, fsm') = PhaseOf(stack, fsm)
        \/ /\ PhaseOf(stack, fsm) = "paused"
           /\ PhaseOf(stack, fsm') = "executing"
    BY <1>5 DEF PhaseOf
  <2> QED
    BY <1>2, <1>3, <2>1 DEF Life!Next, Life!Continue
<1> QED
  BY <1>4, <1>5

\* Only robot commands are called or left.
LEMMA CommandPhase ==
  ASSUME LifeInv, PauseInv', Len(stack) > 1, fsm' = fsm,
         \/ \E kind \in Calls : Called(stack, stack', kind)
         \/ Top.code \in Calls /\ Left(stack, stack')
  PROVE  [Life!Next]_Phase /\ Rooted(stack')
<1>1. Len(stack) \in Nat /\ Rooted(stack)
  BY StackFacts DEF LifeInv
<1>2. Rooted(stack') /\ PhaseOf(stack', fsm) = PhaseOf(stack, fsm)
  <2>1. CASE \E kind \in Calls : Called(stack, stack', kind)
    BY ONLY <1>1, <2>1, Len(stack) > 1, CommandCalled
  <2>2. CASE Top.code \in Calls /\ Left(stack, stack')
    BY ONLY <1>1, <2>2, Len(stack) > 1, CommandLeft DEF Top
  <2> QED
    BY <2>1, <2>2
<1> QED
  BY <1>2, LifeFacts, PhaseReadNext

\* A command is executed: an MDI command or a program begins, or nothing does.
LEMMA ExecuteKeepsLife ==
  ASSUME LifeInv, PauseInv', exc = "none",
         NEW command \in InterpreterCommand, NEW caller \in Seq(Frames),
         SameCodes(stack, caller), Execute(command, caller)
  PROVE  LifeStep
<1> DEFINE event == EventOf[command]
<1>1. event \in CommandEvents /\ event \in Events /\ event # "next"
  BY DEF InterpreterCommand, EventOf, CommandEvents, Events
<1>2. /\ Len(stack) \in Nat
      /\ Len(stack) = 1 \/ Len(stack) > 1
      /\ Len(stack) > 1 => Len(stack) # 1
      /\ Rooted(stack) /\ Len(caller) = Len(stack)
      /\ stack \in Seq(Frames) /\ stack # <<>>
  BY StackFacts, Counts DEF LifeInv, SameCodes
<1>3. CASE ~Can(event, fsm)
  <2>1. stack' = caller /\ UNCHANGED <<fsm, exc>>
    BY <1>3 DEF Execute
  <2>2. [Life!Next]_Phase /\ Rooted(stack')
    BY <2>1, SamePhase
  <2> QED
    BY <1>2, <2>1, <2>2 DEF LifeStep, LifeInv, Ends
<1>4. CASE Can(event, fsm)
  <2>1. <<event, fsm, fsm'>> \in Transitions
    BY <1>4, FireIsArc DEF Execute, Enter
  <2>2. exc' \in Raised(event) /\ stack' = Running(event, caller)
    BY <1>4 DEF Execute
  <2>3. CASE event \in {"start", "mdi"}
    <3> DEFINE kind == IF event = "start" THEN "program" ELSE "mdi"
    <3>1. fsm \in {"idle", "stopped"}
          /\ (event = "start" => fsm' = "running")
      BY <2>1, <2>3, StartArcsLead
    <3>2. fsm \notin Active /\ fsm \notin Unended
      BY <3>1, StatesApart
    <3>3. Len(stack) = 1
      <4>1. ~(Len(stack) > 1)
        BY <3>2, LifeFacts DEF Active, Roots
      <4> QED
        BY <1>2, <4>1
    <3>4. Called(stack, stack', kind)
      <4>1. stack' = Append(caller, Frame(kind, "imports"))
        BY <2>2, <2>3 DEF Running
      <4>2. kind \in UserCode \cup Calls /\ "imports" \in Points
        BY DEF UserCode, Points
      <4> HIDE DEF kind, event
      <4> QED
        BY <1>2, <4>1, <4>2, StackCalls
    <3>5. /\ Rooted(stack') /\ Len(stack') = 2
          /\ PhaseOf(stack', fsm') = IF kind = "program" THEN "executing" ELSE "mdi"
      <4>1. event = "start" => fsm' \notin Paused
        BY <3>1, StatesApart
      <4> QED
        BY <3>3, <3>4, <4>1, RootCalled DEF Roots
    <3>6. /\ Phase = "rest"
          /\ Phase' = IF kind = "program" THEN "executing" ELSE "mdi"
      BY <3>2, <3>3, <3>5, LifeFacts, PhaseReadNext DEF PhaseOf, Unended
    <3>7. exc' = "none"
      BY <2>2, <2>3 DEF Raised
    <3> QED
      BY <3>5, <3>6, <3>7 DEF LifeStep, Ends, Life!Next, Life!Start, Life!ExecuteMdi
  <2>4. CASE event \notin {"start", "mdi"}
    <3>1. stack' = caller
      BY <2>2, <2>4 DEF Running
    <3>2. fsm' \notin Paused
      BY <1>1, <2>1, PausedArcs
    <3>3. Len(stack) = 1 => fsm \notin Unended /\ fsm' \notin Unended
      BY <1>1, <2>1, <2>4, RestArcs DEF LifeInv, Ends, Unended
    <3>4. [Life!Next]_Phase /\ Rooted(stack')
      BY <3>1, <3>2, <3>3, SamePhase
    <3>5. exc' = "ProgramExit" =>
            /\ fsm' \notin ProgramStates
            /\ fsm' \in PreAbortStates <=> fsm \in ProgramStates
      BY <2>1, <2>2, LeavingArcs DEF Raised
    <3>6. Len(stack) > 1 => (fsm \in ProgramStates <=> stack[2].code = "program")
      BY LifeFacts, StatesApart DEF Roots, Unended
    <3>7. Len(stack') = Len(stack) /\ (Len(stack) > 1 => stack'[2].code = stack[2].code)
      BY <3>1, LifeFacts DEF SameCodes
    <3>8. Ends'
      BY <3>3, <3>5, <3>6, <3>7 DEF Ends, Unended
    <3> QED
      BY <3>4, <3>8 DEF LifeStep
  <2> QED
    BY <2>3, <2>4
<1> QED
  BY <1>3, <1>4

LEMMA ChurnKeepsLife ==
  ASSUME LifeInv, PauseInv', Uninterrupted,
         HandleInterrupt \/ Churn \/ SpinWhilePaused \/ PeekCommand \/ PutBack
  PROVE  LifeStep
<1>1. /\ stack \in Seq(Frames) /\ stack # <<>>
      /\ Len(stack) \in Nat
      /\ Len(stack) = 1 \/ Len(stack) > 1
      /\ Len(stack) > 1 => Len(stack) # 1
      /\ queue # <<>> => Head(queue) \in InterpreterCommand
      /\ Top.at # "churn" => Len(stack) > 1
      /\ Top.code = "worker" <=> Len(stack) = 1
      /\ Rooted(stack)
  BY StackFacts, Counts DEF LifeInv
<1>2. \A point \in Points :
        SameCodes(stack, Goto(point)) /\ Goto(point) \in Seq(Frames)
  BY <1>1, StackMoves, GotoStack
<1>3. SameCodes(stack, stack)
  BY DEF SameCodes
<1>4. ASSUME NEW s, SameCodes(stack, s), stack' = s, UNCHANGED <<fsm, exc>>,
             exc = "none"
      PROVE  LifeStep
  <2>1. [Life!Next]_Phase /\ Rooted(stack')
    BY <1>4, SamePhase
  <2>2. Len(stack') = Len(stack)
    BY <1>4 DEF SameCodes
  <2> QED
    BY <1>4, <2>1, <2>2 DEF LifeStep, LifeInv, Ends
<1>5. CASE HandleInterrupt
  BY <1>5 DEF HandleInterrupt, LifeInv, PauseInv, Quiet
<1>6. CASE Churn
  <2> DEFINE caller == IF Top.code = "worker" THEN stack ELSE Goto("test")
  <2>1. SameCodes(stack, caller) /\ caller \in Seq(Frames)
    BY <1>1, <1>2, <1>3 DEF Points
  <2>2. exc = "none"
    BY <1>6 DEF Churn, At
  <2>3. CASE queue = <<>>
    <3>1. stack' = caller /\ UNCHANGED <<fsm, exc>>
      BY <1>6, <2>3 DEF Churn
    <3> QED
      BY <1>4, <2>1, <2>2, <3>1
  <2>4. CASE queue # <<>>
    <3>1. Execute(Head(queue), caller)
      BY <1>6, <2>4 DEF Churn
    <3> HIDE DEF caller
    <3> QED
      BY <1>1, <2>1, <2>2, <2>4, <3>1, ExecuteKeepsLife
  <2> QED
    BY <2>3, <2>4
<1>7. CASE SpinWhilePaused
  <2>1. exc = "none" /\ UNCHANGED exc /\ Len(stack) > 1
    BY <1>1, <1>7 DEF SpinWhilePaused, At
  <2>2. CASE fsm \in PrePausedStates
    <3>1. /\ stack' = Append(Goto("churn"), Frame("on_pause", "code"))
          /\ Enter("next")
      BY <1>7, <2>2
      DEF SpinWhilePaused, PrePausedStates, PausedStates, Paused, MdiPaused
    <3>2. stack[2].code = "program"
      BY <2>1, <2>2, LifeFacts, StatesApart DEF Roots, Unended
    <3>3. Called(stack, stack', "on_pause")
      BY <1>1, <1>2, <3>1, StackCalls DEF Points, UserCode
    <3>4. Rooted(stack') /\ PhaseOf(stack', fsm') = "on_pause"
      BY ONLY <1>1, <2>1, <3>2, <3>3, HandlerCalled
    <3>5. Phase = "executing"
      <4>1. ~Executing("on_pause")
        BY <2>1, <2>2, StatesApart DEF LifeInv, PauseInv, ControlInv, Control
      <4>2. \A i \in 3..Len(stack) : stack[i].code # "on_pause"
        BY <1>1, <4>1, Places DEF Executing
      <4> QED
        BY <1>1, <2>1, <2>2, <3>2, <4>2, LifeFacts, StatesApart DEF PhaseOf
    <3>6. Phase' = "on_pause"
      BY <3>4, PhaseReadNext
    <3>7. Len(stack') # 1
      BY <1>1, <2>1, <3>3 DEF Called
    <3> QED
      BY <2>1, <3>4, <3>5, <3>6, <3>7 DEF LifeStep, Ends, Life!Next, Life!Pause
  <2>3. CASE fsm \notin PrePausedStates
    <3>1. fsm' = fsm /\ \E point \in Points : stack' = Goto(point)
      BY <1>7, <2>3 DEF SpinWhilePaused, Points
    <3> QED
      BY <1>2, <1>4, <2>1, <3>1
  <2> QED
    BY <2>2, <2>3
<1>8. CASE PeekCommand
  <2>1. exc = "none"
    BY <1>8 DEF PeekCommand, At
  <2>2. CASE queue # <<>> /\ Head(queue) \in Peek
    <3>1. Execute(Head(queue), Goto("polled"))
      BY <1>8, <2>2 DEF PeekCommand
    <3> QED
      BY <1>1, <1>2, <2>1, <2>2, <3>1, ExecuteKeepsLife DEF Points
  <2>3. CASE ~(queue # <<>> /\ Head(queue) \in Peek)
    <3>1. /\ UNCHANGED <<fsm, exc>>
          /\ \E point \in Points : stack' = Goto(point)
      BY <1>8, <2>3 DEF PeekCommand, Points
    <3> QED
      BY <1>2, <1>4, <2>1, <3>1
  <2> QED
    BY <2>2, <2>3
<1>9. CASE PutBack
  <2>1. /\ UNCHANGED <<fsm, exc>> /\ exc = "none"
        /\ stack' = Goto("polled") /\ "polled" \in Points
    BY <1>9 DEF PutBack, At, Points
  <2> QED
    BY <1>2, <1>4, <2>1
<1> QED
  BY <1>5, <1>6, <1>7, <1>8, <1>9

\* The innermost frame, if it is not the loop.
LEMMA TopOfLife ==
  ASSUME LifeInv, Len(stack) > 1
  PROVE  /\ Left(stack, Return) /\ Return \in Seq(Frames)
         /\ Top.code \in Calls \cup {"on_pause"} \/ Len(stack) = 2
         /\ Len(stack) = 2 => Top.code \in Roots
         /\ Top.code = "on_pause" =>
              \A i \in 1..Len(Return) : stack[i].code # "on_pause"
<1>1. stack \in Seq(Frames) /\ stack # <<>> /\ Len(stack) \in Nat /\ Rooted(stack)
  BY StackFacts DEF LifeInv
<1>2. Left(stack, Return) /\ Return \in Seq(Frames)
  BY <1>1, StackMoves, ReturnStack
<1>3. Top.code \in Calls \cup {"on_pause"} \/ Len(stack) = 2
  <2>1. Len(stack) = 2 \/ Len(stack) \in 3..Len(stack)
    BY <1>1, Counts
  <2> QED
    BY <1>1, <2>1 DEF Rooted, Top
<1>4. Len(stack) = 2 => Top.code \in Roots
  BY <1>1 DEF Rooted, Top
<1>5. ASSUME Top.code = "on_pause", NEW i \in 1..Len(Return)
      PROVE  stack[i].code # "on_pause"
  <2>1. OnlyOne({"on_pause"})
    BY DEF LifeInv, PauseInv, ControlInv, Exclusive
  <2>2. /\ i \in 1..Len(stack) /\ Len(stack) \in 1..Len(stack)
        /\ i # Len(stack)
    BY <1>1, <1>2 DEF Left
  <2> QED
    BY <1>5, <2>1, <2>2 DEF OnlyOne, Top
<1> QED
  BY <1>2, <1>3, <1>4, <1>5

LEMMA CodeKeepsLife ==
  ASSUME LifeInv, PauseInv', Uninterrupted,
         \/ PauseCommandRaised \/ CommandWaits \/ CommandReturns
         \/ ImportModules \/ NextLine \/ CallCommand \/ CallPause
         \/ RegisterInterrupt \/ CodeRaises \/ InterruptReturns \/ HandlerReturns
  PROVE  LifeStep
<1>1. /\ stack \in Seq(Frames) /\ stack # <<>>
      /\ Len(stack) \in Nat /\ Len(stack) > 1 /\ Len(stack) # 1
      /\ WellShaped(stack) /\ Rooted(stack)
      /\ exc = "none"
      /\ Top.at \in {"polled", "imports", "code"}
      /\ stack[2].code \in Roots
  <2>1. exc = "none" /\ Top.at \in {"polled", "imports", "code"}
    BY DEF PauseCommandRaised, CommandWaits, CommandReturns, ImportModules,
       NextLine, CallCommand, CallPause, RegisterInterrupt, CodeRaises,
       InterruptReturns, HandlerReturns, At
  <2> QED
    BY <2>1, StackFacts, Counts, LifeFacts DEF LifeInv
<1>2. \A point \in Points : SameCodes(stack, Goto(point))
  BY <1>1, StackMoves
<1>3. SameCodes(stack, stack)
  BY DEF SameCodes
<1>4. ASSUME SameCodes(stack, stack'), fsm' = fsm, exc' # "ProgramExit"
      PROVE  LifeStep
  <2>1. [Life!Next]_Phase /\ Rooted(stack')
    BY <1>1, <1>4, SamePhase
  <2>2. Len(stack') # 1
    BY <1>1, <1>4 DEF SameCodes
  <2> QED
    BY <1>4, <2>1, <2>2 DEF LifeStep, Ends
<1>5. CASE HandlerReturns
  <2>1. /\ stack' = Return /\ exc' = "none"
        /\ <<"next", fsm, fsm'>> \in Transitions
        /\ Top.code \in {"on_pause", "on_abort"}
    BY <1>5, <1>1, FireIsArc DEF HandlerReturns, Enter
  <2>2. /\ Top.code = "on_pause" => fsm \in OnPaused
        /\ Top.code = "on_abort" => fsm \in OnAborted
    BY <1>1, <2>1 DEF LifeInv, PauseInv, ControlInv, Control, Executing, Top
  <2>3. CASE Top.code = "on_pause"
    <3>1. fsm' \in Paused
      BY <2>1, <2>2, <2>3, HandlerArcsLead
    <3>2. /\ Rooted(stack') /\ Len(stack') > 1
          /\ PhaseOf(stack, fsm) = "on_pause"
          /\ PhaseOf(stack', fsm') = "paused"
      BY <1>1, <2>1, <2>3, <3>1, TopOfLife, HandlerLeft DEF Top
    <3>3. Phase = "on_pause" /\ Phase' = "paused"
      BY <3>2, LifeFacts, PhaseReadNext
    <3>4. Len(stack') # 1
      BY <3>2
    <3> QED
      BY <2>1, <3>2, <3>3, <3>4 DEF LifeStep, Ends, Life!Next, Life!Hold
  <2>4. CASE Top.code = "on_abort"
    <3>1. fsm' \in {"stopped", "errored"} /\ fsm' \notin Unended
      BY <2>1, <2>2, <2>4, HandlerArcsLead, StatesApart
    <3>2. Len(stack) = 2
      BY <1>1, <2>4, TopOfLife DEF Calls
    <3>3. Rooted(stack') /\ Len(stack') = 1
      BY <1>1, <2>1, <3>2, TopOfLife, RootLeft
    <3>4. Phase = "on_abort" /\ Phase' = "rest"
      BY <1>1, <2>4, <3>1, <3>2, <3>3, LifeFacts, PhaseReadNext
      DEF PhaseOf, Top, Unended
    <3> QED
      BY <2>1, <3>1, <3>3, <3>4
      DEF LifeStep, Ends, Unended, Life!Next, Life!Aborted
  <2> QED
    BY <2>1, <2>3, <2>4
<1>6. CASE CommandReturns
  <2>1. Top.code \in Calls /\ Left(stack, stack') /\ fsm' = fsm /\ exc' = "none"
    BY <1>1, <1>6, TopOfLife DEF CommandReturns, At, WellShaped, Top
  <2>2. [Life!Next]_Phase /\ Rooted(stack')
    BY <1>1, <2>1, CommandPhase
  <2>3. Len(stack) # 2
    BY <2>1, TopOfLife, <1>1 DEF Calls, Roots
  <2>4. Len(stack') # 1
    BY <1>1, <2>1, <2>3 DEF Left
  <2> QED
    BY <2>1, <2>2, <2>4 DEF LifeStep, Ends
<1>7. CASE InterruptReturns
  BY <1>1, <1>7 DEF InterruptReturns, WellShaped, Top
<1>8. CASE CommandWaits \/ ImportModules \/ NextLine
  BY <1>2, <1>3, <1>4, <1>8, <1>1 DEF CommandWaits, ImportModules, NextLine, Points
<1>9. CASE CallCommand
  <2>1. \E kind \in Calls : Called(stack, stack', kind)
    BY <1>1, <1>3, <1>9, StackCalls DEF CallCommand, Calls, Points
  <2>2. [Life!Next]_Phase /\ Rooted(stack')
    BY <1>1, <1>9, <2>1, CommandPhase DEF CallCommand
  <2>3. Len(stack') # 1 /\ exc' = "none"
    BY <1>1, <1>9, <2>1 DEF Called, CallCommand
  <2> QED
    BY <2>2, <2>3 DEF LifeStep, Ends
<1>10. CASE PauseCommandRaised \/ CallPause \/ RegisterInterrupt \/ CodeRaises
  BY <1>1, <1>3, <1>4, <1>10
  DEF PauseCommandRaised, CallPause, RegisterInterrupt, CodeRaises
<1> QED
  BY <1>5, <1>6, <1>7, <1>8, <1>9, <1>10

LEMMA UnwindKeepsLife ==
  ASSUME LifeInv, PauseInv', Unwind
  PROVE  LifeStep
<1>1. /\ stack \in Seq(Frames) /\ stack # <<>>
      /\ Len(stack) \in Nat /\ Len(stack) > 1 /\ Len(stack) # 1
      /\ Rooted(stack) /\ stack[2].code \in Roots
      /\ exc # "none" /\ fsm' = fsm /\ fsm \notin Paused
  <2>1. Len(stack) > 1 /\ exc # "none" /\ fsm' = fsm
    BY DEF Unwind
  <2>2. fsm \notin Paused
    BY <2>1 DEF LifeInv, PauseInv, HeldFast
  <2> QED
    BY <2>1, <2>2, StackFacts, Counts, LifeFacts DEF LifeInv
<1>2. CASE exc' = "none" /\ (stack' = Goto("churn") \/ stack' = Goto("code"))
  <2>1. SameCodes(stack, stack')
    BY <1>1, <1>2, StackMoves DEF Points
  <2>2. [Life!Next]_Phase /\ Rooted(stack')
    BY <1>1, <2>1, SamePhase
  <2>3. Len(stack') # 1
    BY <1>1, <2>1 DEF SameCodes
  <2> QED
    BY <1>2, <2>2, <2>3 DEF LifeStep, Ends
<1>3. CASE exc' = exc /\ stack' = Return
  <2>1. Left(stack, stack')
    BY <1>1, <1>3, TopOfLife
  <2>2. [Life!Next]_Phase /\ Rooted(stack')
    <3>1. CASE Top.code \in Calls
      BY <1>1, <2>1, <3>1, CommandPhase
    <3>2. CASE Top.code = "on_pause"
      <4>1. /\ Rooted(stack')
            /\ PhaseOf(stack, fsm) = "on_pause"
            /\ PhaseOf(stack', fsm') = "executing"
        BY <1>1, <1>3, <2>1, <3>2, TopOfLife, HandlerLeft DEF Top
      <4>2. Phase = "on_pause" /\ Phase' = "executing"
        BY <4>1, LifeFacts, PhaseReadNext
      <4> QED
        BY <4>1, <4>2 DEF Life!Next, Life!AbandonPause
    <3>3. CASE Len(stack) = 2
      <4>1. Rooted(stack') /\ Len(stack') = 1
        BY <2>1, <1>1, <3>3, RootLeft
      <4>2. /\ Phase' = IF fsm \in Unended THEN "ending" ELSE "rest"
            /\ Phase = IF stack[2].code = "program" THEN "executing"
                                                    ELSE stack[2].code
        <5>1. \A i \in 3..Len(stack) : FALSE
          BY <3>3
        <5> QED
          BY <1>1, <4>1, <5>1, LifeFacts, PhaseReadNext DEF PhaseOf, Unended
      <4>3. fsm \in Unended <=> stack[2].code = "program"
        <5>1. CASE exc = "ProgramExit"
          BY <1>1, <5>1 DEF LifeInv, Ends, Unended
        <5>2. CASE exc # "ProgramExit"
          BY <1>1, <5>2, LifeFacts, StatesApart DEF Roots, Unended
        <5> QED
          BY <5>1, <5>2
      <4> QED
        BY <1>1, <4>1, <4>2, <4>3
        DEF Roots, Life!Next, Life!End, Life!MdiDone, Life!Aborted
    <3> QED
      BY <1>1, <3>1, <3>2, <3>3, TopOfLife
  <2>3. Len(stack') > 1 => stack'[2].code = stack[2].code
    BY <1>1, <2>1 DEF Left
  <2>4. Ends'
    BY <1>1, <1>3, <2>3 DEF LifeInv, Ends
  <2> QED
    BY <2>2, <2>4 DEF LifeStep
<1> QED
  BY <1>2, <1>3 DEF Unwind

LEMMA LoopKeepsLife ==
  ASSUME LifeInv, PauseInv',
         \/ Unwind \/ CatchInLoop \/ RunOnAbortHandler \/ WorkerExits
         \/ TriggerInterrupt \/ SafetyInputTripped
  PROVE  LifeStep
<1>1. /\ stack \in Seq(Frames) /\ stack # <<>>
      /\ Top.code = "worker" <=> Len(stack) = 1
      /\ SameCodes(stack, stack)
      /\ exc \in Exceptions \cup {"none"}
  BY StackFacts DEF LifeInv, SameCodes, TypeInv, TypeOK
<1>2. CASE UNCHANGED <<stack, fsm, exc>>
  BY <1>1, <1>2, SamePhase DEF LifeStep, LifeInv, Ends
<1>3. CASE CatchInLoop
  <2>1. stack' = stack /\ Len(stack) = 1 /\ exc \in Exceptions
    BY <1>1, <1>3 DEF CatchInLoop
  <2>2. CASE LoopEvent[exc] # "none" /\ Can(LoopEvent[exc], fsm)
    <3>1. LoopEvent[exc] \in {"stop", "runtime_error"}
      BY <2>1, <2>2 DEF LoopEvent, Exceptions
    <3>2. Enter(LoopEvent[exc]) /\ exc' = "none"
      BY <1>3, <2>2, <3>1 DEF CatchInLoop
    <3>3. <<LoopEvent[exc], fsm, fsm'>> \in Transitions
      BY <2>2, <3>2, FireIsArc DEF Enter
    <3>4. fsm' \notin ProgramStates /\ (fsm' \in Unended <=> fsm \in Unended)
      BY <3>1, <3>3, LeavingArcs DEF Unended
    <3>5. [Life!Next]_Phase /\ Rooted(stack')
      BY <1>1, <2>1, <3>4, SamePhase, StatesApart
    <3> QED
      BY <3>2, <3>4, <3>5 DEF LifeStep, Ends
  <2>3. CASE ~(LoopEvent[exc] # "none" /\ Can(LoopEvent[exc], fsm))
    <3>1. fsm' = fsm
      BY <1>3, <2>3 DEF CatchInLoop
    <3>2. exc' = "none" => fsm \notin ProgramStates \ PrePausedStates
      <4>1. exc' = "none" => exc \in {"ProgramExit", "SystemExit"}
        BY <1>3, <2>1, <2>3 DEF CatchInLoop, LoopEvent, Exceptions
      <4>2. exc = "SystemExit" => ~Can("stop", fsm)
        BY <2>3 DEF LoopEvent
      <4>3. ~Can("stop", fsm) => fsm \notin ProgramStates \ PrePausedStates
        BY StopIsTaken DEF Active
      <4> QED
        BY <4>1, <4>2, <4>3 DEF LifeInv, Ends
    <3>3. exc' # "none" => exc' = exc
      BY <1>3, <2>3 DEF CatchInLoop
    <3>4. [Life!Next]_Phase /\ Rooted(stack')
      BY <1>1, <2>1, <3>1, SamePhase
    <3> QED
      BY <2>1, <3>1, <3>2, <3>3, <3>4 DEF LifeStep, LifeInv, Ends
  <2> QED
    BY <2>2, <2>3
<1>4. CASE RunOnAbortHandler
  <2>1. exc = "none" /\ exc' = "none" /\ Len(stack) = 1
    BY <1>1, <1>4 DEF RunOnAbortHandler, InLoop, At
  <2>2. CASE fsm \in PreAbortStates
    <3>1. stack' = Append(stack, Frame("on_abort", "code"))
      BY <1>4, <2>2 DEF RunOnAbortHandler
    <3>2. Called(stack, stack', "on_abort")
      BY <1>1, <3>1, StackCalls DEF Points, UserCode
    <3>3. /\ Rooted(stack') /\ Len(stack') = 2
          /\ PhaseOf(stack', fsm') = "on_abort"
      BY <2>1, <3>2, RootCalled DEF Roots
    <3>4. Phase = "ending" /\ Phase' = "on_abort"
      BY <2>1, <2>2, <3>3, LifeFacts, PhaseReadNext DEF PhaseOf
    <3> QED
      BY <2>1, <3>3, <3>4 DEF LifeStep, Ends, Life!Next, Life!Abort
  <2>3. CASE fsm \notin PreAbortStates
    BY <1>2, <1>4, <2>1, <2>3 DEF RunOnAbortHandler
  <2> QED
    BY <2>2, <2>3
<1> QED
  BY <1>2, <1>3, <1>4, UnwindKeepsLife
  DEF WorkerExits, TriggerInterrupt, SafetyInputTripped

LEMMA InitLife == Init => LifeInv /\ Life!Init
<1> SUFFICES ASSUME Init PROVE LifeInv /\ Life!Init
  OBVIOUS
<1>1. Len(stack) = 1 /\ fsm = "idle" /\ exc = "none"
  BY DEF Init, ProcessInit
<1>2. fsm \notin Unended
  BY <1>1, StatesApart
<1>3. Rooted(stack)
  BY <1>1 DEF Rooted
<1>4. LifeInv
  BY <1>1, <1>2, <1>3, InitPause DEF LifeInv, Ends, Unended
<1>5. Phase = "rest"
  BY <1>1, <1>2, <1>4, LifeFacts DEF PhaseOf, Unended
<1> QED
  BY <1>4, <1>5 DEF Life!Init

\* Every step of the interpreter is a step of ProgramLifecycle or none.
LEMMA StepKeepsLife ==
  ASSUME Uninterrupted
  PROVE  LifeInv /\ [Next]_vars => LifeInv' /\ [Life!Next]_Phase
<1> SUFFICES ASSUME LifeInv, [Next]_vars PROVE LifeInv' /\ [Life!Next]_Phase
  OBVIOUS
<1>1. PauseInv'
  BY StepKeepsPause DEF LifeInv
<1>2. LifeStep
  <2>1. CASE ProcessNext /\ UNCHANGED hostVars
    BY <1>1, <2>1, ChurnKeepsLife, CodeKeepsLife, LoopKeepsLife
    DEF ProcessNext, ProcessStep
  <2>2. CASE HostNext \/ UNCHANGED vars
    <3>1. UNCHANGED <<stack, fsm, exc>> /\ SameCodes(stack, stack)
      BY <2>2, HostKeepsWork DEF workVars, vars, processVars, SameCodes
    <3> QED
      BY <1>1, <3>1, SamePhase DEF LifeStep, LifeInv, Ends
  <2> QED
    BY <2>1, <2>2 DEF Next
<1> QED
  BY <1>1, <1>2 DEF LifeStep, LifeInv

\* The interpreter implements ProgramLifecycle: on_pause before every pause,
\* on_abort after every end of a program, and no other program before that.
THEOREM LifecycleIsImplemented ==
  ASSUME Uninterrupted
  PROVE  Spec => LifecycleHolds
<1>1. LifeInv /\ [Next]_vars => LifeInv' /\ [Life!Next]_Phase
  BY StepKeepsLife
<1> QED
  BY <1>1, InitLife, PTL DEF Spec, LifecycleHolds, Life!Spec

-----------------------------------------------------------------------------
(* A step runs one line.  Before a line is begun its Pause is at the head of  *)
(* the queue, and other pauses only get before it.  That a robot command      *)
(* returns to the line that called it, and not to a place where the queue is  *)
(* about to be churned, is why no such Pause is missing.                      *)

CallsFromCode(s) == \A i \in 2..Len(s) : s[i].code \in Calls => s[i - 1].at = "code"

StopRequested == stopping # "no" \/ InQueue("Stop")

PauseComes == queue # <<>> /\ Head(queue) \in {"Pause", "PauseActive"}

AtLine == exc = "none" /\ Top.code \in UserCode /\ Top.at = "churn"

LineHeld == AtLine /\ fsm = "running_step" => StopRequested \/ PauseComes

StepInv == PauseInv /\ CallsFromCode(stack) /\ LineHeld

LEMMA GotoCalls ==
  ASSUME stack \in Seq(Frames), stack # <<>>, CallsFromCode(stack),
         NEW point \in Points
  PROVE  CallsFromCode(Goto(point))
<1>1. Len(stack) \in Nat /\ Len(stack) > 0
  OBVIOUS
<1>2. /\ Len(Goto(point)) = Len(stack)
      /\ \A i \in 1..Len(stack) :
           /\ Goto(point)[i].code = stack[i].code
           /\ Goto(point)[i].at = IF i = Len(stack) THEN point ELSE stack[i].at
  BY GotoStack
<1>3. \A i \in 2..Len(stack) :
        i \in 1..Len(stack) /\ i - 1 \in 1..Len(stack) /\ i - 1 # Len(stack)
  BY <1>1
<1> QED
  BY <1>1, <1>2, <1>3 DEF CallsFromCode

LEMMA CallCalls ==
  ASSUME NEW s \in Seq(Frames), s # <<>>, CallsFromCode(s),
         NEW kind \in UserCode \cup Calls, NEW point \in Points,
         kind \in Calls => s[Len(s)].at = "code"
  PROVE  CallsFromCode(Append(s, Frame(kind, point)))
<1> DEFINE t == Append(s, Frame(kind, point))
<1>1. Len(s) \in Nat /\ Len(s) > 0
  OBVIOUS
<1>2. Frame(kind, point) \in Frames /\ Frame(kind, point).code = kind
  BY FrameType
<1>3. /\ Len(t) = Len(s) + 1
      /\ \A i \in 1..Len(s) : t[i] = s[i]
      /\ t[Len(s) + 1] = Frame(kind, point)
  BY <1>2, CallStack
<1> HIDE DEF t
<1>4. ASSUME NEW i \in 2..Len(t), t[i].code \in Calls
      PROVE  t[i - 1].at = "code"
  <2>1. CASE i \in 1..Len(s)
    BY <1>1, <1>3, <1>4, <2>1 DEF CallsFromCode
  <2>2. CASE i = Len(s) + 1
    BY <1>1, <1>2, <1>3, <1>4, <2>2
  <2> QED
    BY <1>1, <1>3, <2>1, <2>2
<1>5. CallsFromCode(t)
  BY <1>4 DEF CallsFromCode
<1> QED
  BY <1>5 DEF t

LEMMA ReturnCalls ==
  ASSUME stack \in Seq(Frames), Len(stack) > 1, CallsFromCode(stack)
  PROVE  CallsFromCode(Return)
BY ReturnStack DEF CallsFromCode

\* Executing a command calls no robot command.
LEMMA ExecuteCalls ==
  ASSUME NEW command \in InterpreterCommand, NEW caller \in Seq(Frames),
         caller # <<>>, CallsFromCode(caller), Execute(command, caller)
  PROVE  CallsFromCode(stack')
<1>1. \/ stack' = caller
      \/ stack' = Append(caller, Frame("program", "imports"))
      \/ stack' = Append(caller, Frame("mdi", "imports"))
  BY DEF Execute, Running
<1> QED
  BY <1>1, CallCalls DEF UserCode, Calls, Points

LEMMA StepKeepsCalls ==
  ASSUME StepInv, ProcessNext
  PROVE  CallsFromCode(stack')
<1>1. /\ stack \in Seq(Frames) /\ stack # <<>>
      /\ Len(stack) \in Nat /\ Len(stack) > 0
      /\ queue # <<>> => Head(queue) \in InterpreterCommand
      /\ CallsFromCode(stack)
  BY StackFacts DEF StepInv
<1>2. \A point \in Points :
        /\ Goto(point) \in Seq(Frames) /\ Goto(point) # <<>>
        /\ CallsFromCode(Goto(point))
  <2> TAKE point \in Points
  <2>1. Goto(point) \in Seq(Frames) /\ Len(Goto(point)) = Len(stack)
    BY <1>1, GotoStack
  <2>2. Goto(point) # <<>>
    BY <1>1, <2>1
  <2> QED
    BY <1>1, <2>1, <2>2, GotoCalls
<1>3. Len(stack) > 1 => CallsFromCode(Return)
  BY <1>1, ReturnCalls
<1>4. CASE HandleInterrupt
  BY <1>1, <1>4, CallCalls DEF HandleInterrupt, UserCode, Calls, Points
<1>5. CASE Churn
  <2> DEFINE caller == IF Top.code = "worker" THEN stack ELSE Goto("test")
  <2>1. caller \in Seq(Frames) /\ caller # <<>> /\ CallsFromCode(caller)
    BY <1>1, <1>2 DEF Points
  <2>2. CASE queue = <<>>
    BY <1>5, <2>1, <2>2 DEF Churn
  <2>3. CASE queue # <<>>
    <3>1. Execute(Head(queue), caller)
      BY <1>5, <2>3 DEF Churn
    <3> HIDE DEF caller
    <3> QED
      BY <1>1, <2>1, <2>3, <3>1, ExecuteCalls
  <2> QED
    BY <2>2, <2>3
<1>6. CASE SpinWhilePaused
  <2>1. \/ \E point \in Points : stack' = Goto(point)
        \/ stack' = Append(Goto("churn"), Frame("on_pause", "code"))
    BY <1>6 DEF SpinWhilePaused, Points
  <2> QED
    BY <1>2, <2>1, CallCalls DEF UserCode, Calls, Points
<1>7. CASE PeekCommand
  <2>1. \/ \E point \in Points : stack' = Goto(point)
        \/ queue # <<>> /\ Execute(Head(queue), Goto("polled"))
    BY <1>7 DEF PeekCommand, Points
  <2> QED
    BY <1>1, <1>2, <2>1, ExecuteCalls DEF Points
<1>8. CASE CallCommand
  BY <1>1, <1>8, CallCalls DEF CallCommand, At, Top, UserCode, Calls, Points
<1>9. CASE CommandReturns \/ InterruptReturns \/ HandlerReturns
  <2>1. Top.at # "churn" /\ stack' = Return
    BY <1>9 DEF CommandReturns, InterruptReturns, HandlerReturns, At
  <2> QED
    BY <1>3, <2>1, StackFacts DEF StepInv
<1>10. CASE Unwind
  BY <1>2, <1>3, <1>10 DEF Unwind, Points
<1>11. CASE RunOnAbortHandler
  BY <1>1, <1>11, CallCalls DEF RunOnAbortHandler, UserCode, Calls, Points
<1>12. CASE \/ PutBack \/ PauseCommandRaised \/ CommandWaits \/ ImportModules
            \/ NextLine \/ CallPause \/ RegisterInterrupt \/ CodeRaises
            \/ CatchInLoop \/ WorkerExits \/ TriggerInterrupt
            \/ SafetyInputTripped
  BY <1>1, <1>2, <1>12
  DEF PutBack, PauseCommandRaised, CommandWaits, ImportModules, NextLine,
      CallPause, RegisterInterrupt, CodeRaises, CatchInLoop, WorkerExits,
      TriggerInterrupt, SafetyInputTripped, Points
<1> QED
  BY <1>4, <1>5, <1>6, <1>7, <1>8, <1>9, <1>10, <1>11, <1>12
  DEF ProcessNext, ProcessStep

\* Clients and other threads do not take a pause away without a stop.
LEMMA QueueKeepsLine ==
  ASSUME StepInv, UNCHANGED <<fsm, exc, stack>>,
         \/ UNCHANGED <<queue, stopping>>
         \/ stopping' # "no"
         \/ queue' = Append(queue, "Stop")
         \/ /\ stopping' = stopping
            /\ \/ \E s \in Seq(InterpreterCommand) : queue' = queue \o s
               \/ queue' = <<"Pause">> \o queue
  PROVE  LineHeld'
<1>1. queue \in Seq(InterpreterCommand)
  BY StackFacts DEF StepInv
<1>2. CASE UNCHANGED <<queue, stopping>>
  BY <1>2 DEF StepInv, LineHeld, AtLine, Top, StopRequested, InQueue, PauseComes
<1>3. CASE stopping' # "no"
  BY <1>3 DEF LineHeld, StopRequested
<1>4. CASE queue' = Append(queue, "Stop")
  <2>1. "Stop" \in InterpreterCommand
    BY DEF InterpreterCommand
  <2>2. Len(queue') \in 1..Len(queue') /\ queue'[Len(queue')] = "Stop"
    BY <1>1, <1>4, <2>1
  <2> QED
    BY <2>2 DEF LineHeld, StopRequested, InQueue
<1>5. CASE stopping' = stopping /\ \E s \in Seq(InterpreterCommand) : queue' = queue \o s
  <2> PICK s \in Seq(InterpreterCommand) : queue' = queue \o s
    BY <1>5
  <2>1. \A i \in 1..Len(queue) : i \in 1..Len(queue') /\ queue'[i] = queue[i]
    BY <1>1
  <2>2. InQueue("Stop") => InQueue("Stop")'
    BY <2>1 DEF InQueue
  <2>3. PauseComes => PauseComes'
    <3> SUFFICES ASSUME PauseComes PROVE PauseComes'
      OBVIOUS
    <3>1. queue # <<>> /\ Head(queue) \in {"Pause", "PauseActive"}
      BY DEF PauseComes
    <3>2. queue' # <<>> /\ Head(queue') = Head(queue)
      BY <1>1, <3>1
    <3> QED
      BY <3>1, <3>2 DEF PauseComes
  <2> QED
    BY <1>5, <2>2, <2>3 DEF StepInv, LineHeld, AtLine, Top, StopRequested
<1>6. CASE queue' = <<"Pause">> \o queue
  <2>1. "Pause" \in InterpreterCommand
    BY DEF InterpreterCommand
  <2>2. queue' # <<>> /\ Head(queue') = "Pause"
    BY <1>1, <1>6, <2>1
  <2> QED
    BY <2>2 DEF LineHeld, PauseComes
<1> QED
  BY <1>2, <1>3, <1>4, <1>5, <1>6

LEMMA HostKeepsLine ==
  ASSUME StepInv, HostNext
  PROVE  LineHeld'
<1>1. UNCHANGED <<fsm, exc, stack>>
  BY HostKeepsWork DEF workVars
<1>2. CASE \E command \in InterpreterCommand : Request(command)
  <2> PICK command \in InterpreterCommand : Request(command)
    BY <1>2
  <2>1. queue' = queue \o <<command>> /\ stopping' = stopping
        /\ <<command>> \in Seq(InterpreterCommand)
    <3>1. queue \in Seq(InterpreterCommand)
      BY StackFacts DEF StepInv
    <3>2. queue' = Append(queue, command) /\ stopping' = stopping
      BY DEF Request, hostVars
    <3> QED
      BY <3>1, <3>2
  <2> QED
    BY <1>1, <2>1, QueueKeepsLine
<1>3. CASE StepProgram
  <2>1. queue \in Seq(InterpreterCommand)
        /\ "Step" \in InterpreterCommand /\ "Start" \in InterpreterCommand
    BY StackFacts DEF StepInv, InterpreterCommand
  <2> DEFINE first == IF ProgramRunning THEN <<>> ELSE <<"Start">>
  <2>2. first \in Seq(InterpreterCommand)
    BY <2>1
  <2>3. queue' = queue \o first \o <<"Step">> /\ stopping' = stopping
    BY <1>3 DEF StepProgram, hostVars
  <2> HIDE DEF first
  <2>4. queue' = queue \o (first \o <<"Step">>)
        /\ first \o <<"Step">> \in Seq(InterpreterCommand)
    BY <2>1, <2>2, <2>3
  <2> QED
    BY <1>1, <2>3, <2>4, QueueKeepsLine
<1>4. CASE StopProgram
  BY <1>1, <1>4, QueueKeepsLine DEF StopProgram
<1>5. CASE AppendStop
  BY <1>1, <1>5, QueueKeepsLine DEF AppendStop
<1>6. CASE CheckReloadRequired
  <2>1. queue' = queue \o <<"ReloadCheck">> /\ stopping' = stopping
        /\ <<"ReloadCheck">> \in Seq(InterpreterCommand)
    <3>1. queue \in Seq(InterpreterCommand) /\ "ReloadCheck" \in InterpreterCommand
      BY StackFacts DEF StepInv, InterpreterCommand
    <3>2. queue' = Append(queue, "ReloadCheck") /\ stopping' = stopping
      BY <1>6 DEF CheckReloadRequired
    <3> QED
      BY <3>1, <3>2
  <2> QED
    BY <1>1, <2>1, QueueKeepsLine
<1>7. CASE StopWorkerProcess \/ ReloadChecked \/ StatusThread
  BY <1>1, <1>7, QueueKeepsLine
  DEF StopWorkerProcess, ReloadChecked, StatusThread, hostVars
<1> QED
  BY <1>2, <1>3, <1>4, <1>5, <1>6, <1>7 DEF HostNext

LEMMA NewTop ==
  ASSUME NEW s \in Seq(Frames), NEW kind \in UserCode \cup Calls,
         NEW point \in Points, stack' = Append(s, Frame(kind, point))
  PROVE  Top'.code = kind /\ Top'.at = point
<1>1. /\ Frame(kind, point) \in Frames
      /\ Frame(kind, point).code = kind
      /\ Frame(kind, point).at = point
  BY FrameType
<1>2. /\ Len(stack') = Len(s) + 1
      /\ stack'[Len(s) + 1] = Frame(kind, point)
  BY <1>1, CallStack
<1> QED
  BY <1>1, <1>2 DEF Top

\* Executing a command leaves nobody about to churn the queue but the caller.
LEMMA ExecuteTop ==
  ASSUME NEW command \in InterpreterCommand, NEW caller \in Seq(Frames),
         Execute(command, caller)
  PROVE  stack' = caller \/ Top'.at = "imports"
<1>1. \/ stack' = caller
      \/ stack' = Append(caller, Frame("program", "imports"))
      \/ stack' = Append(caller, Frame("mdi", "imports"))
  BY DEF Execute, Running
<1> QED
  BY <1>1, NewTop DEF UserCode, Calls, Points

LEMMA ProcessKeepsLine ==
  ASSUME StepInv, Uninterrupted, ProcessNext, UNCHANGED hostVars
  PROVE  LineHeld'
<1> USE DEF Points
<1>1. /\ stack \in Seq(Frames) /\ stack # <<>>
      /\ Len(stack) \in Nat /\ Len(stack) > 0
      /\ queue \in Seq(InterpreterCommand)
      /\ queue # <<>> => Head(queue) \in InterpreterCommand
      /\ Top.at # "churn" => Len(stack) > 1
      /\ Top.code = "worker" <=> Len(stack) = 1
      /\ WellShaped(stack) /\ CallsFromCode(stack)
      /\ interrupts = 0 /\ ~registered
  BY StackFacts DEF StepInv, PauseInv, Quiet
<1>2. \A point \in Points :
        /\ Goto(point) \in Seq(Frames)
        /\ stack' = Goto(point) => Top'.at = point /\ Top'.code = Top.code
  <2> TAKE point \in Points
  <2>1. Len(stack) \in 1..Len(stack)
    BY <1>1
  <2>2. /\ Goto(point) \in Seq(Frames)
        /\ Len(Goto(point)) = Len(stack)
        /\ Goto(point)[Len(stack)].at = point
        /\ Goto(point)[Len(stack)].code = stack[Len(stack)].code
    BY <1>1, <2>1, GotoStack
  <2> QED
    BY <2>2 DEF Top
<1> SUFFICES ASSUME AtLine', fsm' = "running_step"
             PROVE  StopRequested' \/ PauseComes'
  BY DEF LineHeld
<1>3. exc' = "none" /\ Top'.code \in UserCode /\ Top'.at = "churn"
  BY DEF AtLine
<1>4. Top'.code \notin {"worker", "command"}
  BY <1>3 DEF UserCode
<1>5. CASE HandleInterrupt
  BY <1>1, <1>5 DEF HandleInterrupt
<1>6. CASE Churn
  <2> DEFINE caller == IF Top.code = "worker" THEN stack ELSE Goto("test")
  <2>1. caller \in Seq(Frames) /\ (stack' = caller => ~AtLine')
    BY <1>1, <1>2, <1>3, <1>4 DEF Top
  <2>2. CASE queue = <<>>
    BY <1>6, <2>1, <2>2 DEF Churn
  <2>3. CASE queue # <<>>
    <3>1. Execute(Head(queue), caller)
      BY <1>6, <2>3 DEF Churn
    <3> HIDE DEF caller
    <3> QED
      BY <1>1, <1>3, <2>1, <2>3, <3>1, ExecuteTop
  <2> QED
    BY <2>2, <2>3
<1>7. CASE SpinWhilePaused
  <2>1. \/ stack' = Append(Goto("churn"), Frame("on_pause", "code"))
        \/ \E point \in Points \ {"churn"} : stack' = Goto(point)
        \/ fsm' \in PausedStates
    BY <1>7 DEF SpinWhilePaused
  <2> QED
    BY <1>2, <1>3, <2>1, NewTop DEF UserCode, PausedStates, Paused, MdiPaused
<1>8. CASE PeekCommand
  <2>1. \/ \E point \in Points \ {"churn"} : stack' = Goto(point)
        \/ queue # <<>> /\ Execute(Head(queue), Goto("polled"))
    BY <1>8 DEF PeekCommand
  <2> QED
    BY <1>1, <1>2, <1>3, <2>1, ExecuteTop
<1>9. CASE CommandReturns
  <2>1. Top.code \in Calls /\ Len(stack) > 1 /\ stack' = Return
    BY <1>1, <1>9 DEF CommandReturns, At, WellShaped, Top
  <2>2. stack[Len(stack) - 1].at = "code"
    BY <1>1, <2>1 DEF CallsFromCode, Top
  <2>3. Top'.at = "code"
    BY <1>1, <2>1, <2>2, ReturnStack DEF Top
  <2> QED
    BY <1>3, <2>3
<1>10. CASE InterruptReturns
  BY <1>1, <1>10 DEF InterruptReturns, WellShaped, Top
<1>11. CASE HandlerReturns
  <2>1. /\ <<"next", fsm, fsm'>> \in Transitions
        /\ Top.code \in {"on_pause", "on_abort"} /\ exc = "none"
    BY <1>11, FireIsArc DEF HandlerReturns, Enter, At
  <2>2. fsm \in OnPaused \cup OnAborted
    BY <1>1, <2>1 DEF StepInv, PauseInv, ControlInv, Control, Executing, Top
  <2> QED
    BY <2>1, <2>2, HandlerArcsLead DEF Paused
<1>12. CASE NextLine
  <2>1. queue' = <<"Pause">> \o queue
    BY <1>12 DEF NextLine, StepPause
  <2>2. queue' # <<>> /\ Head(queue') = "Pause"
    BY <1>1, <2>1 DEF InterpreterCommand
  <2> QED
    BY <2>2 DEF PauseComes
<1>13. CASE CallCommand
  BY <1>1, <1>3, <1>4, <1>13, NewTop DEF CallCommand, Calls
<1>14. CASE Unwind
  BY <1>1, <1>2, <1>3, <1>4, <1>14 DEF Unwind
<1>15. CASE RunOnAbortHandler
  <2>1. stack' = stack \/ stack' = Append(stack, Frame("on_abort", "code"))
    BY <1>15 DEF RunOnAbortHandler
  <2>2. Top.code = "worker"
    BY <1>15 DEF RunOnAbortHandler, InLoop
  <2> QED
    BY <1>1, <1>3, <1>4, <2>1, <2>2, NewTop DEF UserCode, Top
<1>16. CASE SafetyInputTripped
  BY <1>16, QueueKeepsLine DEF SafetyInputTripped, hostVars, LineHeld
<1>17. CASE TriggerInterrupt
  BY <1>1, <1>17 DEF TriggerInterrupt
<1>18. CASE CatchInLoop \/ WorkerExits
  BY <1>1, <1>4, <1>18 DEF CatchInLoop, WorkerExits, InLoop, Top
<1>19. CASE \/ PutBack \/ PauseCommandRaised \/ CommandWaits \/ ImportModules
            \/ CallPause \/ RegisterInterrupt \/ CodeRaises
  BY <1>1, <1>2, <1>3, <1>4, <1>19
  DEF PutBack, PauseCommandRaised, CommandWaits, ImportModules, CallPause,
      RegisterInterrupt, CodeRaises, At, Top
<1> QED
  BY <1>5, <1>6, <1>7, <1>8, <1>9, <1>10, <1>11, <1>12, <1>13, <1>14, <1>15,
     <1>16, <1>17, <1>18, <1>19
  DEF ProcessNext, ProcessStep

LEMMA InitStep == Init => StepInv
<1> SUFFICES ASSUME Init PROVE StepInv
  OBVIOUS
<1>1. Len(stack) = 1 /\ fsm = "idle"
  BY DEF Init, ProcessInit
<1> QED
  BY <1>1, InitPause DEF StepInv, CallsFromCode, LineHeld

LEMMA StepKeepsLine ==
  ASSUME Uninterrupted
  PROVE  StepInv /\ [Next]_vars => StepInv'
<1> SUFFICES ASSUME StepInv, [Next]_vars PROVE StepInv'
  OBVIOUS
<1>1. PauseInv'
  BY StepKeepsPause DEF StepInv
<1>2. CASE ProcessNext /\ UNCHANGED hostVars
  BY <1>1, <1>2, StepKeepsCalls, ProcessKeepsLine DEF StepInv
<1>3. CASE HostNext
  BY <1>1, <1>3, HostKeepsWork, HostKeepsLine DEF workVars, StepInv, CallsFromCode
<1>4. CASE UNCHANGED vars
  BY <1>1, <1>4
  DEF vars, processVars, hostVars, StepInv, CallsFromCode, LineHeld, AtLine, Top,
      StopRequested, InQueue, PauseComes
<1> QED
  BY <1>2, <1>3, <1>4 DEF Next

\* From a line at which single-step mode churns the queue, the only way on is
\* the pause it has queued for itself, or what clients put in its place.
LEMMA LineGoesOn ==
  ASSUME StepInv, [Next]_vars, AtLine, fsm = "running_step", stack' # stack
  PROVE  fsm' # "running_step" \/ StopRequested
<1> SUFFICES ASSUME ~StopRequested PROVE fsm' # "running_step"
  OBVIOUS
<1>1. PauseComes
  BY DEF StepInv, LineHeld
<1>2. Top.code \in UserCode /\ Top.at = "churn" /\ exc = "none"
  BY DEF AtLine
<1>3. Top.code # "worker"
  BY <1>2 DEF UserCode
<1>4. ProcessNext
  BY HostKeepsWork DEF Next, workVars, vars, processVars
<1>5. Churn
  <2>1. ~HandleInterrupt
    BY DEF HandleInterrupt, StepInv, PauseInv, Quiet
  <2> QED
    BY <1>2, <1>3, <1>4, <2>1
    DEF ProcessNext, ProcessStep, SpinWhilePaused, PeekCommand, PutBack,
        PauseCommandRaised, CommandWaits, CommandReturns, ImportModules, NextLine,
        CallCommand, CallPause, RegisterInterrupt, CodeRaises, InterruptReturns,
        HandlerReturns, Unwind, CatchInLoop, RunOnAbortHandler, WorkerExits,
        InLoop, TriggerInterrupt, SafetyInputTripped, At
<1>6. Execute(Head(queue), Goto("test"))
  BY <1>1, <1>3, <1>5 DEF Churn, PauseComes
<1> DEFINE event == EventOf[Head(queue)]
<1>7. event \in {"pause", "pause_active"}
  BY <1>1 DEF PauseComes, EventOf
<1>8. Can(event, fsm)
  BY <1>7 DEF Can, Transitions, PauseArcs, Arc, States, PrePausedStates
<1>9. <<event, fsm, fsm'>> \in Transitions
  BY <1>6, <1>8, FireIsArc DEF Execute, Enter
<1> QED
  BY <1>7, <1>9
  DEF Transitions, LoadArcs, StartArcs, StopProgramArcs, StopMdiArcs, StopArcs,
      PauseArcs, ContinueArcs, HandlerArcs, ErrorArcs, Updates, ReloadChecks, Arc,
      Loop

\* A step runs one line: at the next line that churns the queue the program is
\* paused, or it is stopped.
THEOREM StepsAreSingle ==
  ASSUME Uninterrupted
  PROVE  Spec => StepPausesAtNextLine
<1>1. StepInv /\ [Next]_vars
        => [   /\ fsm = "running_step" /\ exc = "none"
               /\ Top.code \in UserCode /\ Top.at = "churn" /\ stack' # stack
             => fsm' # "running_step" \/ stopping # "no" \/ InQueue("Stop") ]_vars
  BY LineGoesOn DEF AtLine, StopRequested
<1>2. StepInv /\ [Next]_vars => StepInv'
  BY StepKeepsLine
<1> QED
  BY <1>1, <1>2, InitStep, PTL DEF Spec, StepPausesAtNextLine
=============================================================================
