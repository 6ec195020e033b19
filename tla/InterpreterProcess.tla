------------------------- MODULE InterpreterProcess -------------------------
(***************************************************************************)
(* The process that executes robot programs: class InterpreterProcess of   *)
(* robot_command/program_interpreter/interpreter.py.                       *)
(*                                                                         *)
(* The process is one Python thread.  A program runs inside the callback   *)
(* of the FSM event that started it, and looks at the command queue from   *)
(* deep inside its own call stack: before every line (spin_from_injected)  *)
(* and while a robot command waits (spin_command, spin_pause).  So the     *)
(* model keeps the call stack: a frame is the code that is running and the *)
(* point it has reached.                                                   *)
(*                                                                         *)
(*   worker        the loop in worker()                                    *)
(*   program, mdi  user code started by the start and mdi events           *)
(*   on_pause, on_abort, interrupt    the user's handlers                  *)
(*   command       a robot command that waits in spin_command and handles  *)
(*                 ProgramPause itself (sleep, a move being executed)      *)
(*   planning      one that lets ProgramPause escape (a move being planned)*)
(***************************************************************************)
EXTENDS InterpreterFSM, Naturals, Sequences

CONSTANTS Faulty,         \* the kinds of user code that may raise an exception
          Catching,       \* the kinds of user code that may catch one
          Planning,       \* TRUE if programs plan moves
          Uncompilable,   \* TRUE if a program that parses may fail to compile
          Pausing,        \* who pauses from inside: "program", "safety"
          MaxQueue,       \* bounds the command queue; step_program and a
                          \* step's own Pause may each overrun it by one
          MaxDepth,       \* bounds the call stack for calls of robot commands
          MaxInterrupts,  \* bounds the interrupts pending or being handled
          MaxStatus       \* bounds the status reports under way to the host

UserCode == {"program", "mdi", "on_pause", "on_abort", "interrupt"}
Calls    == {"command", "planning"}

ASSUME ProcessAssumption ==
  /\ Faulty \subseteq UserCode
  /\ Catching \subseteq UserCode
  /\ Planning \in BOOLEAN
  /\ Uncompilable \in BOOLEAN
  /\ Pausing \subseteq {"program", "safety"}
  /\ {MaxQueue, MaxDepth, MaxInterrupts, MaxStatus} \subseteq Nat

VARIABLES queue,       \* _command_queue, shared with the host
          held,        \* the command spin_command popped and is to put back
          fsm,         \* _fsm.current
          stack,       \* the call stack, innermost frame last
          exc,         \* the exception on its way up the stack
          abort,       \* on_abort_triggered of worker()
          interrupts,  \* how many signals _interrupt_queue holds
          registered,  \* the program has registered an interrupt function
          reported,    \* _current_state, the last state reported
          status,      \* _status_queue: states and InterpreterReloadRequired
          stopEvent,   \* _stop_event, set by the host
          process      \* "up", "dead" (uncaught exception) or "exited"

processVars == <<queue, held, fsm, stack, exc, abort, interrupts, registered,
                 reported, status, stopEvent, process>>

InterpreterCommand == {"Start", "Stop", "Pause", "PauseActive", "Continue",
                       "Update", "Load", "LoadError", "Unload", "MDI", "Step",
                       "ReloadCheck"}

\* _command_switch: the event each command fires.
EventOf == [Stop |-> "stop", Pause |-> "pause", PauseActive |-> "pause_active",
            Continue |-> "cont", Update |-> "update", Load |-> "load",
            Unload |-> "unload", Start |-> "start", MDI |-> "mdi",
            LoadError |-> "load_error", Step |-> "step",
            ReloadCheck |-> "reload_check"]

\* The commands spin_command executes; it puts any other back.
Peek == {"Stop", "Pause", "Update"}

Exceptions == {"ProgramExit", "SystemExit", "ProgramPause", "ProgramUpdate",
               "Error"}

Points == {"churn",     \* about to churn the queue, in _churn_and_check_pause
           "test",      \* in _spin_while_paused, after a churn
           "poll",      \* about to churn the queue in spin_command
           "reinsert",  \* in spin_command, holding a command to put back
           "polled",    \* in spin_command, after the churn
           "imports",   \* at the import statements of a program
           "code"}      \* running user code

Frame(kind, point) == [code |-> kind, at |-> point]
Frames == [code : UserCode \cup Calls \cup {"worker"}, at : Points]

ProcessInit ==
  /\ queue = <<>>
  /\ held = "none"
  /\ fsm = "idle"
  /\ stack = <<Frame("worker", "churn")>>
  /\ exc = "none"
  /\ abort = FALSE
  /\ interrupts = 0
  /\ registered = FALSE
  /\ reported = "Idle"
  /\ status = <<"Idle">>
  /\ stopEvent = FALSE
  /\ process = "up"

-----------------------------------------------------------------------------
Top         == stack[Len(stack)]
Goto(point) == [stack EXCEPT ![Len(stack)].at = point]
ReturnTwice == SubSeq(stack, 1, Len(stack) - 2)   \* mutant
Return      == SubSeq(stack, 1, Len(stack) - 1)

\* Python is executing the innermost frame at the given point.
At(point) == process = "up" /\ exc = "none" /\ Top.at = point

\* In the loop of worker().  A pass that has begun calls on_abort and churns the
\* queue though the stop event is set meanwhile; here another pass may begin.
InLoop == At("churn") /\ Top.code = "worker"

\* Room in the status queue; a step that reports may overrun MaxStatus by two.
Room == Len(status) < MaxStatus

\* update_reload_required is called on entering stopped, and by reload_check.
ReloadReports(event, dst) ==
  IF event = "reload_check" \/ (dst = "stopped" /\ fsm # "stopped")
  THEN <<"ReloadRequired">> ELSE <<>>

\* _current_state once the FSM is in dst.
Told(dst) == IF dst \in Unreported THEN reported ELSE Report(dst)

\* Mutant: compares with the state left rather than with the one reported.
StateReportsBySource(dst) ==
  IF dst \in Unreported \/ Report(dst) = Report(fsm) THEN <<>>
                                                    ELSE <<Report(dst)>>

\* _report_program_state: a state is reported once until another one is.
StateReports(dst) == IF Told(dst) = reported THEN <<>> ELSE <<Told(dst)>>

\* The FSM takes an event that is allowed.
Enter(event) ==
  LET dst == Fire(event, fsm) IN
  /\ fsm' = dst
  /\ status' = status \o ReloadReports(event, dst) \o StateReports(dst)
  /\ reported' = Told(dst)

\* The exceptions an event callback may end with (_stop_program,
\* _update_program, and compile() in _load_program).
Raised(event) ==
  CASE event = "stop"                   -> {"ProgramExit"}
    [] event = "update"                 -> {"ProgramUpdate"}
    [] event = "load" /\ Uncompilable   -> {"none", "Error"}
    [] OTHER                            -> {"none"}

\* The stack in an event's callback: start and mdi run user code, called by
\* the frame that churned the queue.
Running(event, caller) ==
  CASE event = "start" -> Append(caller, Frame("program", "imports"))
    [] event = "mdi"   -> Append(caller, Frame("mdi", "imports"))
    [] OTHER           -> caller

\* A command is executed through _command_switch; one the FSM refuses is
\* dropped (contextlib.suppress(FysomError)).  A start resets the interrupts.
Execute(command, caller) ==
  LET event == EventOf[command] IN
  \/ /\ Can(event, fsm)
     /\ Enter(event)
     /\ exc' \in Raised(event)
     /\ stack' = Running(event, caller)
     /\ registered' = (registered /\ event # "start")
  \/ /\ ~Can(event, fsm)
     /\ stack' = caller
     /\ UNCHANGED <<fsm, status, reported, exc, registered>>

-----------------------------------------------------------------------------
(* Churning the command queue. *)

\* _process_interrupts comes before each pop.  An interrupt whose function is
\* no longer registered is dropped.
HandleInterrupt ==
  /\ At("churn") \/ At("poll")
  /\ InLoop => ~abort
  /\ interrupts > 0
  /\ interrupts' = interrupts - 1
  /\ stack' = IF registered THEN Append(stack, Frame("interrupt", "code"))
                            ELSE stack
  /\ UNCHANGED <<queue, held, fsm, exc, abort, registered, reported, status,
                 stopEvent, process>>

\* _churn_and_check_pause: pop any command and execute it.
Churn ==
  LET caller == IF Top.code = "worker" THEN stack ELSE Goto("test") IN
  /\ At("churn")
  /\ InLoop => ~abort /\ queue # <<>>
  /\ interrupts = 0
  /\ Room
  /\ \/ /\ queue = <<>>
        /\ stack' = caller
        /\ UNCHANGED <<queue, fsm, status, reported, exc, registered>>
     \/ /\ queue # <<>>
        /\ queue' = Tail(queue)
        /\ Execute(Head(queue), caller)
  /\ UNCHANGED <<held, abort, interrupts, stopEvent, process>>

\* _spin_while_paused after a churn: block while paused, run on_pause when
\* about to pause, otherwise go on.  A command goes on with spin_command.
SpinWhilePaused ==
  /\ At("test")
  /\ Room
  /\ \/ /\ fsm \in PausedStates
        /\ stack' = Goto("churn")
        /\ UNCHANGED <<fsm, status, reported>>
     \/ /\ fsm \in PrePausedStates
        /\ Enter("next")
        /\ stack' = Append(Goto("churn"), Frame("on_pause", "code"))
     \/ /\ fsm \notin PausedStates \cup PrePausedStates
        /\ stack' = Goto(IF Top.code \in UserCode THEN "code" ELSE "poll")
        /\ UNCHANGED <<fsm, status, reported>>
  /\ UNCHANGED <<queue, held, exc, abort, interrupts, registered, stopEvent,
                 process>>

\* _churn_stop_command: pop a command, and execute it only if it is one of
\* Peek.  The host appends to the queue without taking command_lock.
PeekCommand ==
  /\ At("poll")
  /\ interrupts = 0
  /\ Room
  /\ \/ /\ queue = <<>>
        /\ stack' = Goto("polled")
        /\ UNCHANGED <<queue, held, fsm, status, reported, exc, registered>>
     \/ /\ queue # <<>>
        /\ Head(queue) \in Peek
        /\ queue' = Tail(queue)
        /\ Execute(Head(queue), Goto("polled"))
        /\ UNCHANGED held
     \/ /\ queue # <<>>
        /\ Head(queue) \notin Peek
        /\ queue' = Tail(queue)
        /\ held' = Head(queue)
        /\ stack' = Goto("reinsert")
        /\ UNCHANGED <<fsm, status, reported, exc, registered>>
  /\ UNCHANGED <<abort, interrupts, stopEvent, process>>

PutBack ==
  /\ At("reinsert")
  /\ queue' = <<held>> \o queue
  /\ held' = "none"
  /\ stack' = Goto("polled")
  /\ UNCHANGED <<fsm, exc, abort, interrupts, registered, reported, status,
                 stopEvent, process>>

\* The rest of spin_command: ProgramPause if the FSM is about to pause.
PauseCommandRaised ==
  /\ At("polled")
  /\ fsm \in PrePausedStates
  /\ exc' = "ProgramPause"
  /\ UNCHANGED <<queue, held, fsm, stack, abort, interrupts, registered,
                 reported, status, stopEvent, process>>

\* Otherwise the command waits on, as long as the state is Running; in any other
\* state the loop over spin_command ends, and sleep begins again ...
CommandWaits ==
  /\ At("polled")
  /\ fsm \notin PrePausedStates
  /\ \/ reported = "Running" /\ stack' = Goto("poll")
     \/ reported # "Running" /\ Top.code = "command" /\ stack' = Goto("churn")
  /\ UNCHANGED <<queue, held, fsm, exc, abort, interrupts, registered,
                 reported, status, stopEvent, process>>

\* ... until what it waits for has happened.  When its loop has ended for the
\* state, a command other than sleep returns as if it were done.
CommandReturns ==
  /\ At("polled")
  /\ fsm \notin PrePausedStates
  /\ stack' = Return
  /\ UNCHANGED <<queue, held, fsm, exc, abort, interrupts, registered,
                 reported, status, stopEvent, process>>

-----------------------------------------------------------------------------
(* What user code does between two calls of the interpreter. *)

\* The loader puts a call of update_reload_required after the last import.
ImportModules ==
  /\ At("imports")
  /\ Room
  /\ \/ /\ status' = Append(status, "ReloadRequired")
        /\ stack' = Goto("code")
        /\ UNCHANGED exc
     \/ /\ Top.code \in Faulty
        /\ exc' = "Error"
        /\ UNCHANGED <<status, stack>>
  /\ UNCHANGED <<queue, held, fsm, abort, interrupts, registered, reported,
                 stopEvent, process>>

\* Mutant: the Pause of a step waits its turn.
StepPauseLast == IF fsm = "running_step" THEN Append(queue, "Pause") ELSE queue

\* _pause_if_step_running: in single-step mode a line queues a Pause for
\* itself.
StepPause == IF fsm = "running_step" THEN <<"Pause">> \o queue ELSE queue

\* spin_from_injected, before each line.
NextLine ==
  /\ At("code")
  /\ Len(queue) <= MaxQueue + 1
  /\ queue' = StepPause
  /\ stack' = Goto("churn")
  /\ UNCHANGED <<held, fsm, exc, abort, interrupts, registered, reported,
                 status, stopEvent, process>>

CallCommand ==
  /\ At("code")
  /\ Len(stack) < MaxDepth
  /\ \/ stack' = Append(stack, Frame("command", "churn"))
     \/ Planning /\ stack' = Append(stack, Frame("planning", "poll"))
  /\ UNCHANGED <<queue, held, fsm, exc, abort, interrupts, registered,
                 reported, status, stopEvent, process>>

\* The pause() command of a program (pause_command).
CallPause ==
  /\ "program" \in Pausing
  /\ At("code")
  /\ Len(queue) < MaxQueue
  /\ \E c \in {"Pause", "PauseActive"} : queue' = <<c>> \o queue
  /\ UNCHANGED <<held, fsm, stack, exc, abort, interrupts, registered,
                 reported, status, stopEvent, process>>

RegisterInterrupt ==
  /\ At("code")
  /\ MaxInterrupts > 0
  /\ ~registered
  /\ registered' = TRUE
  /\ UNCHANGED <<queue, held, fsm, stack, exc, abort, interrupts, reported,
                 status, stopEvent, process>>

\* User code calls exit(), or fails.
CodeRaises ==
  /\ At("code")
  /\ \/ exc' = "SystemExit"
     \/ Top.code \in Faulty /\ exc' = "Error"
  /\ UNCHANGED <<queue, held, fsm, stack, abort, interrupts, registered,
                 reported, status, stopEvent, process>>

InterruptReturns ==
  /\ At("code")
  /\ Top.code = "interrupt"
  /\ stack' = Return
  /\ UNCHANGED <<queue, held, fsm, exc, abort, interrupts, registered,
                 reported, status, stopEvent, process>>

\* on_pause and on_abort are followed by fsm.next(), which is never refused:
\* see ControlMatchesState.
HandlerReturns ==
  /\ At("code")
  /\ Top.code \in {"on_pause", "on_abort"}
  /\ Room
  /\ stack' = Return
  /\ Can("next", fsm)
  /\ Enter("next")
  /\ abort' = (abort /\ Top.code # "on_abort")
  /\ UNCHANGED <<queue, held, exc, interrupts, registered, stopEvent, process>>

-----------------------------------------------------------------------------
(* Exceptions and the loop in worker(). *)

\* An exception leaves the innermost frame, or is caught there.  The loader
\* makes a program's try statements pass ProgramExit on.
Unwind ==
  /\ process = "up"
  /\ exc # "none"
  /\ Len(stack) > 1
  /\ \/ /\ exc = "ProgramPause" /\ Top.code = "command"
        /\ exc' = "none"
        /\ stack' = Goto("churn")
     \/ /\ exc \in {"Error", "ProgramPause", "ProgramUpdate"}
        /\ Top.code \in Catching
        /\ exc' = "none"
        /\ stack' = Goto("code")
     \/ /\ ~(exc = "ProgramPause" /\ Top.code = "command")
        /\ stack' = Return
        /\ UNCHANGED exc
  /\ UNCHANGED <<queue, held, fsm, abort, interrupts, registered, reported,
                 status, stopEvent, process>>

\* Mutant: exit() fires no event.
LoopEventNoExit == [SystemExit |-> "none", ProgramExit |-> "none",
                    ProgramPause |-> "runtime_error",
                    ProgramUpdate |-> "runtime_error",
                    Error |-> "runtime_error"]

\* The except clauses of worker(): the event each fires, and the flag that
\* tells whether on_abort is still to be called.
LoopEvent == [SystemExit |-> "stop", ProgramExit |-> "none",
              ProgramPause |-> "runtime_error",
              ProgramUpdate |-> "runtime_error", Error |-> "runtime_error"]

NotToggled == abort   \* mutant
Toggled    == ~abort

\* A runtime_error the FSM refuses is an exception of the handler itself, and
\* ends the process.
CatchInLoop ==
  /\ process = "up"
  /\ exc # "none"
  /\ Len(stack) = 1
  /\ Room
  /\ LET event == LoopEvent[exc] IN
     \/ /\ event # "none" /\ Can(event, fsm)
        /\ Enter(event)
        /\ exc' = "none"
        /\ abort' = Toggled
        /\ UNCHANGED process
     \/ /\ event = "none" \/ (event = "stop" /\ ~Can(event, fsm))
        /\ exc' = "none"
        /\ abort' = Toggled
        /\ UNCHANGED <<fsm, status, reported, process>>
     \/ /\ event = "runtime_error" /\ ~Can(event, fsm)
        /\ process' = "dead"
        /\ UNCHANGED <<fsm, status, reported, exc, abort>>
  /\ UNCHANGED <<queue, held, stack, interrupts, registered, stopEvent>>

\* _run_on_abort_handler, at the top of the loop.
RunOnAbortHandler ==
  /\ InLoop
  /\ abort
  /\ Room
  /\ \/ /\ fsm \in PreAbortStates
        /\ Enter("next")
        /\ stack' = Append(stack, Frame("on_abort", "code"))
        /\ UNCHANGED abort
     \/ /\ fsm \notin PreAbortStates
        /\ abort' = FALSE
        /\ UNCHANGED <<fsm, status, reported, stack>>
  /\ UNCHANGED <<queue, held, exc, interrupts, registered, stopEvent, process>>

\* while not stop_event.is_set()
WorkerExits ==
  /\ InLoop
  /\ stopEvent
  /\ process' = "exited"
  /\ UNCHANGED <<queue, held, fsm, stack, exc, abort, interrupts, registered,
                 reported, status, stopEvent>>

-----------------------------------------------------------------------------
(* Other threads of the process: ROS subscribers. *)

\* trigger_interrupt: an input a function is registered for has changed.
TriggerInterrupt ==
  /\ process = "up"
  /\ registered
  /\ interrupts + Len(SelectSeq(stack, LAMBDA f : f.code = "interrupt"))
       < MaxInterrupts
  /\ interrupts' = interrupts + 1
  /\ UNCHANGED <<queue, held, fsm, stack, exc, abort, registered, reported,
                 status, stopEvent, process>>

\* _safety_input_updated: the safety or enabling input trips while the
\* reported state is Running.
SafetyInputTripped ==
  /\ "safety" \in Pausing
  /\ process = "up"
  /\ reported = "Running"
  /\ Len(queue) < MaxQueue
  /\ queue' = <<"Pause">> \o queue
  /\ UNCHANGED <<held, fsm, stack, exc, abort, interrupts, registered,
                 reported, status, stopEvent, process>>

ProcessStep ==
  \/ HandleInterrupt \/ Churn \/ SpinWhilePaused \/ PeekCommand \/ PutBack
  \/ PauseCommandRaised \/ CommandWaits \/ CommandReturns
  \/ ImportModules \/ NextLine \/ CallCommand \/ CallPause \/ RegisterInterrupt \/ CodeRaises
  \/ InterruptReturns \/ HandlerReturns
  \/ Unwind \/ CatchInLoop \/ RunOnAbortHandler \/ WorkerExits

ProcessNext == ProcessStep \/ TriggerInterrupt \/ SafetyInputTripped
=============================================================================
