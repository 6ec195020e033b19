------------------------- MODULE ProgramInterpreter -------------------------
(***************************************************************************)
(* The interpreter as its clients use it: class ProgramInterpreter of      *)
(* robot_command/program_interpreter/interpreter.py, in the host process   *)
(* (worker_node), composed with the process that runs the programs.  The   *)
(* two share the command queue, the status queue and the stop event.       *)
(* Clients call from threads of their own (ROS services).                  *)
(***************************************************************************)
EXTENDS InterpreterProcess

CONSTANT Requests  \* the requests clients make: a subset of AllRequests

AllRequests == InterpreterCommand \cup {"Shutdown"}

ASSUME RequestsAssumption == Requests \subseteq AllRequests

VARIABLES stopping,   \* how far a stop_program or stop call has come
          hostState,  \* _state, as the status thread last saw it
          waiting,    \* a thread waits in check_reload_required
          answered    \* _reload_check_event

hostVars == <<stopping, hostState, waiting, answered>>
vars     == <<processVars, hostVars>>

Init ==
  /\ ProcessInit
  /\ stopping = "no"
  /\ hostState = "Idle"
  /\ waiting = FALSE
  /\ answered = FALSE

workVars == <<held, fsm, stack, exc, abort, interrupts, registered, reported,
              process>>

\* _is_program_running, from the state last seen.
ProgramRunning == hostState \in {"Running", "Paused", "PausedActive"}

-----------------------------------------------------------------------------
\* load_program, unload_program, start_program, start_subprogram,
\* pause_program, continue_program, update_program, execute_mdi_command.
\* load_program sends LoadError when the file does not parse.
Simple == InterpreterCommand \ {"Stop", "Step", "ReloadCheck"}

Request(command) ==
  /\ command \in Requests \cap Simple
  /\ Len(queue) < MaxQueue
  /\ queue' = Append(queue, command)
  /\ UNCHANGED <<workVars, status, stopEvent, hostVars>>

\* step_program starts the program if it is not known to be running.
StepProgram ==
  /\ "Step" \in Requests
  /\ Len(queue) < MaxQueue
  /\ queue' = queue \o (IF ProgramRunning THEN <<>> ELSE <<"Start">>)
                    \o <<"Step">>
  /\ UNCHANGED <<workVars, status, stopEvent, hostVars>>

\* _run_command(Stop) empties the queue and then appends the Stop, in two
\* operations on the shared list.  stop() does the same, and goes on.
StopProgram ==
  /\ stopping = "no"
  /\ \/ "Stop" \in Requests /\ stopping' = "stop"
     \/ "Shutdown" \in Requests /\ ~stopEvent /\ stopping' = "shutdown"
  /\ queue' = <<>>
  /\ UNCHANGED <<workVars, status, stopEvent, hostState, waiting, answered>>

AppendStop ==
  /\ stopping \in {"stop", "shutdown"}
  /\ queue' = Append(queue, "Stop")
  /\ stopping' = IF stopping = "stop" THEN "no" ELSE "join"
  /\ UNCHANGED <<workVars, status, stopEvent, hostState, waiting, answered>>

\* _stop_worker_process, which then joins the process.
StopWorkerProcess ==
  /\ stopping = "join"
  /\ ~stopEvent
  /\ stopEvent' = TRUE
  /\ UNCHANGED <<workVars, queue, status, hostVars>>

\* check_reload_required asks and waits, without a timeout.
CheckReloadRequired ==
  /\ "ReloadCheck" \in Requests
  /\ hostState \in {"Idle", "Stopped"}
  /\ ~waiting
  /\ Len(queue) < MaxQueue
  /\ waiting' = TRUE
  /\ answered' = FALSE
  /\ queue' = Append(queue, "ReloadCheck")
  /\ UNCHANGED <<workVars, status, stopEvent, stopping, hostState>>

ReloadChecked ==
  /\ waiting
  /\ answered
  /\ waiting' = FALSE
  /\ UNCHANGED <<workVars, queue, status, stopEvent, stopping, hostState,
                 answered>>

\* _status_thread_worker takes one message off the status queue.
StatusThread ==
  /\ status # <<>>
  /\ status' = Tail(status)
  /\ hostState' = IF Head(status) \in ReportStates THEN Head(status)
                                                   ELSE hostState
  /\ answered' = (answered \/ Head(status) = "ReloadRequired")
  /\ UNCHANGED <<workVars, queue, stopEvent, stopping, waiting>>

-----------------------------------------------------------------------------
HostNext ==
  \/ \E command \in InterpreterCommand : Request(command)
  \/ StepProgram \/ StopProgram \/ AppendStop \/ StopWorkerProcess
  \/ CheckReloadRequired \/ ReloadChecked \/ StatusThread

Next == \/ ProcessNext /\ UNCHANGED hostVars
        \/ HostNext

Spec == Init /\ [][Next]_vars

-----------------------------------------------------------------------------
(* Types. *)

Messages == ReportStates \cup {"ReloadRequired"}

TypeOK ==
  /\ queue \in Seq(InterpreterCommand)
  /\ held \in InterpreterCommand \cup {"none"}
  /\ fsm \in States
  /\ stack \in Seq(Frames)
  /\ stack # <<>>
  /\ exc \in Exceptions \cup {"none"}
  /\ abort \in BOOLEAN
  /\ interrupts \in Nat
  /\ registered \in BOOLEAN
  /\ reported \in ReportStates
  /\ status \in Seq(Messages)
  /\ stopEvent \in BOOLEAN
  /\ process \in {"up", "dead", "exited"}
  /\ stopping \in {"no", "stop", "shutdown", "join"}
  /\ hostState \in ReportStates
  /\ waiting \in BOOLEAN
  /\ answered \in BOOLEAN

-----------------------------------------------------------------------------
(* Safety. *)

ProgramStates == {"running", "running_step"} \cup Paused \cup PrePausedStates
                 \cup OnPaused
MdiStates     == MdiRunning \cup MdiPaused

Executing(kind) == \E i \in 1..Len(stack) : stack[i].code = kind

InQueue(command) == \E i \in 1..Len(queue) : queue[i] = command

\* At most one frame of the stack executes code of these kinds.
OnlyOne(kinds) ==
  \A i, j \in 1..Len(stack) :
    stack[i].code \in kinds /\ stack[j].code \in kinds => i = j

\* Programs and MDI commands do not nest, however deep in user code the
\* command queue is churned.
OneProgram == OnlyOne({"program", "mdi"})

\* A program, an MDI command and the two handlers execute in their own states.
Control ==
  /\ Executing("program")  => fsm \in ProgramStates
  /\ Executing("mdi")      => fsm \in MdiStates
  /\ Executing("on_pause") => fsm \in OnPaused
  /\ Executing("on_abort") => fsm \in OnAborted

\* The code on the stack is the code the FSM says is being executed, so that a
\* command means the same wherever it is churned.
ControlMatchesState == exc = "none" => Control

\* And the other way round: the FSM does not claim that something runs which
\* does not.  At the top of the loop the process is between two programs.
StateMatchesControl ==
  exc = "none" =>
    /\ fsm \in ProgramStates => Executing("program")
    /\ fsm \in MdiStates     => Executing("mdi")
    /\ fsm \in OnAborted     => Executing("on_abort")

\* An abort is never forgotten: with the FSM about to abort, the toggled flag
\* makes the loop call on_abort next.
AbortPending ==
  exc = "none" /\ fsm \in PreAbortStates => abort /\ Len(stack) = 1

\* While a program is paused its code does not advance: it waits inside
\* _spin_while_paused, whatever command it was executing when it was paused.
PauseHolds ==
  fsm \in Paused /\ exc = "none" => Top.at \in {"churn", "test"}

\* A robot command of a program is not taken for done because of the state of
\* the interpreter: while it looks at the result of spin_command, the state
\* reported is Running, or the command is told to pause or to end.
CommandNotAbandoned ==
  At("polled") /\ Executing("program") /\ fsm \notin PrePausedStates
    => reported = "Running"

\* The process outlives its programs.
ProcessSurvives == process # "dead"

\* A process that is gone has not left a program without its on_abort.
NoProgramAbandoned ==
  process # "up" => fsm \notin ProgramStates \cup PreAbortStates

\* What the host believes once the status thread has caught up is the state
\* the FSM is in, however reports and reloads interleave; while the FSM is in
\* an unreported state it is the state before.
NoStateAfter(i) == \A j \in 1..Len(status) : j > i => status[j] \notin ReportStates

HostCatchesUp ==
  /\ fsm \notin Unreported => reported = Report(fsm)
  /\ NoStateAfter(0) => hostState = reported
  /\ \A i \in 1..Len(status) :
       status[i] \in ReportStates /\ NoStateAfter(i) => status[i] = reported

-----------------------------------------------------------------------------
(* Action properties. *)

\* A command that leaves the queue is executed or dropped.  A Stop is never
\* dropped while user code of a program or an MDI command is being executed.
StopPopped == /\ exc = "none"
              /\ \E kind \in {"program", "mdi", "on_abort"} : Executing(kind)
              /\ queue # <<>> /\ Head(queue) = "Stop" /\ queue' = Tail(queue)
              /\ stopping' = stopping

StopNeverDropped == [][StopPopped => exc' = "ProgramExit"]_vars

\* Save between a pause command and the on_pause handler it leads to.
StopDroppedBeforePauseOnly ==
  [][StopPopped /\ fsm \notin PrePausedStates => exc' = "ProgramExit"]_vars

\* In single-step mode a line that churns the queue pauses or aborts, unless a
\* stop request has taken its Pause out of the queue.
StepPausesAtNextLine ==
  [][   /\ fsm = "running_step" /\ exc = "none"
        /\ Top.code \in UserCode /\ Top.at = "churn" /\ stack' # stack
      => fsm' # "running_step" \/ stopping # "no" \/ InQueue("Stop") ]_vars

-----------------------------------------------------------------------------
(* Liveness. *)

ProcessProgress == ProcessStep /\ UNCHANGED hostVars

\* The process and the status thread run; a stop_program call returns.  User
\* code gets to its next line, the handlers come to an end, and what a robot
\* command waits for happens.
Fairness ==
  /\ WF_vars(ProcessProgress)
  /\ WF_vars(StatusThread)
  /\ WF_vars(AppendStop)
  /\ WF_vars(ReloadChecked)
  /\ SF_vars(NextLine /\ UNCHANGED hostVars)
  /\ SF_vars(CommandReturns /\ UNCHANGED hostVars)
  /\ SF_vars(HandlerReturns /\ UNCHANGED hostVars)

FairSpec == Spec /\ Fairness

\* A Pause or PauseActive jumps the queue: pause_command and single-step mode.
PauseJumps ==
  /\ Len(queue') = Len(queue) + 1
  /\ Tail(queue') = queue
  /\ Head(queue') \in {"Pause", "PauseActive"}

\* A Stop in the queue ends the program or MDI command, or finds the program
\* held by a pause that came first, unless clients go on forever with stop
\* requests, each of which takes the Stop of the one before away, or pauses go
\* on forever jumping the queue.
StopHonoured ==
  <>[](stopping = "no") /\ <>[][~PauseJumps]_vars =>
    (InQueue("Stop") ~> fsm \notin (ProgramStates \ Paused) \cup MdiStates)

ErrorStates == {"errored", "errored_in_idle", "errored_while_loading"}

\* check_reload_required returns once its check is in the queue: the check is
\* answered even if a program is started before it is churned, because the
\* program's imports answer too.  Except, and then the call waits for ever unless
\* something else reports: a stop request has emptied the queue, or the check
\* was refused, in silence, because a file has not loaded or a program or MDI
\* command has failed (in its imports, which then answer nothing).
ReloadAnswered ==
  waiting /\ InQueue("ReloadCheck") ~>
    \/ ~waiting \/ stopping # "no"
    \/ fsm \in ErrorStates /\ ~InQueue("ReloadCheck")
=============================================================================
