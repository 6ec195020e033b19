--------------------------------- MODULE Hub ---------------------------------
(***************************************************************************)
(* The operator's account at PathPilot HUB: HubConnector of the panel      *)
(* (robot_ui/pathpilot/hub), which runs in the thread of the user          *)
(* interface, the Connector it uses (pathpilot_lib/pp_hub) and the         *)
(* WorkerThreads that talk to the server for it.  A worker's callback is   *)
(* queued for the user interface; the answer to a login or a logout is     *)
(* polled with a timer.                                                    *)
(***************************************************************************)
EXTENDS Naturals, SequencesExt

CONSTANT MaxWorkers  \* workers at a time, when the operator asks for more

ASSUME HubAssumption == MaxWorkers \in Nat \ {0}

VARIABLES
  status,    \* _status of HubConnector
  loggedIn,  \* _logged_in: what the panel shows
  stored,    \* redis has a token
  login,     \* _asyncresult: what was asked for, and the answer
  polling,   \* _check_result_timer is running
  loginOpen, \* the popup that asks for e-mail and password
  workers,   \* _workers, and what they have come to
  broken     \* the callback of a worker has raised (history)

hubVars ==
  <<status, loggedIn, stored, login, polling, loginOpen, workers, broken>>

\* Operations: one that lists the files, one that changes them and has them
\* listed again, a download, and the preview of a file.
Operations == {"reload", "modify", "download", "preview"}
Rest       == {"idle", "error"}
Answers    == {"none", "ok", "refused", "odd"}
WorkerResults    == {"none", "ok", "refused", "expired"}

HubInit ==
  /\ status = "idle"  /\ stored \in BOOLEAN  /\ loggedIn = stored
  /\ login = [asked |-> "none", answer |-> "none"]
  /\ polling = FALSE  /\ loginOpen = FALSE
  /\ workers = <<>>   /\ broken = FALSE

-----------------------------------------------------------------------------
(* Login and logout. *)

\* "Sign In" opens the popup if nobody is logged in, also while a login is on
\* its way; it is open until it is accepted or left.
OpenLogin ==
  /\ ~loggedIn /\ ~loginOpen
  /\ loginOpen' = TRUE
  /\ UNCHANGED <<status, loggedIn, stored, login, polling, workers, broken>>

LeaveLogin ==
  /\ loginOpen
  /\ loginOpen' = FALSE
  /\ UNCHANGED <<status, loggedIn, stored, login, polling, workers, broken>>

\* login asks for nothing, neither for the status nor for a login on its way.
Login ==
  /\ loginOpen
  /\ Len(workers) < MaxWorkers
  /\ loginOpen' = FALSE
  /\ status' = "login"
  /\ login' = [asked |-> "login", answer |-> "none"]
  /\ polling' = TRUE
  /\ UNCHANGED <<loggedIn, stored, workers, broken>>

\* _check_logged_in_and_idle.
Ready == loggedIn /\ status \in Rest

\* logout forgets the token before it asks the server to.
Logout ==
  /\ Ready
  /\ status' = "logout"
  /\ stored' = FALSE
  /\ login' = [asked |-> "logout", answer |-> "none"]
  /\ polling' = TRUE
  /\ UNCHANGED <<loggedIn, loginOpen, workers, broken>>

\* The server answers, refuses or is not there (an APIError), or says something
\* that raises another exception.
ServerAnswers ==
  /\ login.asked # "none" /\ login.answer = "none"
  /\ \E a \in Answers \ {"none"} : login' = [login EXCEPT !.answer = a]
  /\ UNCHANGED <<status, loggedIn, stored, polling, loginOpen, workers, broken>>

-----------------------------------------------------------------------------
(* Workers. *)

Worker(operation) == [operation |-> operation, result |-> "none"]

\* What an operation does when the others are done with: workersNow.
Start(operation, workersNow) ==
  /\ status' = operation
  /\ workers' = Append(workersNow, Worker(operation))

Operate ==
  /\ Ready
  /\ Len(workers) < MaxWorkers
  /\ \E o \in Operations : Start(o, workers)
  /\ UNCHANGED <<loggedIn, stored, login, polling, loginOpen, broken>>

\* _update_logged_in_status, after which the panel has the files listed if it
\* may: loggedInChanged is emitted in any case.
ShowLogin(statusNow, storedNow, workersNow) ==
  /\ loggedIn' = storedNow
  /\ IF storedNow /\ statusNow \in Rest
       THEN Start("reload", workersNow)
       ELSE status' = statusNow /\ workers' = workersNow

\* The server does what it is asked to, refuses to, or no longer knows the
\* token, which the worker then forgets.  Without a token nothing is listed.
WorkerDone(i) ==
  /\ workers[i].result = "none"
  /\ \E r \in WorkerResults \ {"none"} :
       /\ workers[i].operation = "reload" /\ ~stored => r = "expired"
       /\ workers' = [workers EXCEPT ![i].result = r]
       /\ stored' = (stored /\ r # "expired")
  /\ UNCHANGED <<status, loggedIn, login, polling, loginOpen, broken>>

\* Mutant: a failure is logged only.
FailLogged == UNCHANGED status

Fail == status' = "error"

\* The callback in the user interface.
Callback(i) ==
  LET others == RemoveAt(workers, i)
      worker == workers[i]
  IN  /\ \/ /\ worker.result = "refused"
            /\ Fail /\ workers' = others
            /\ UNCHANGED loggedIn
         \/ /\ worker.result = "expired"
            /\ ShowLogin("error", stored, others)
         \/ /\ worker.result = "ok" /\ worker.operation # "modify"
            /\ status' = "idle" /\ workers' = others
            /\ UNCHANGED loggedIn
         \/ /\ worker.result = "ok" /\ worker.operation = "modify"
            /\ IF loggedIn THEN Start("reload", others)
                           ELSE status' = "idle" /\ workers' = others
            /\ UNCHANGED loggedIn
      /\ UNCHANGED <<stored, login, polling, loginOpen, broken>>

\* The callback raises: the preview of a file that is no UTF-8, a list of files
\* without the expected fields.  The status stays, and nobody hears of the
\* worker again.
CallbackRaises(i) ==
  /\ workers[i].result = "ok" /\ workers[i].operation \in {"reload", "preview"}
  /\ workers' = RemoveAt(workers, i)
  /\ broken' = TRUE
  /\ UNCHANGED <<status, loggedIn, stored, login, polling, loginOpen>>

-----------------------------------------------------------------------------
(* The timer. *)

\* _process_login_result: the token is stored where the answer is got.
LoginResult ==
  /\ status = "login"
  /\ \/ /\ login.answer = "ok"
        /\ stored' = TRUE
        /\ ShowLogin("idle", TRUE, workers)
     \/ /\ login.answer # "ok"
        /\ status' = "error"
        /\ UNCHANGED <<loggedIn, stored, workers>>

\* _process_logout_result: a logout that failed is not shown as one.
LogoutResult ==
  /\ status = "logout"
  /\ IF login.answer = "ok" THEN ShowLogin("idle", stored, workers)
       ELSE status' = "idle" /\ UNCHANGED <<loggedIn, workers>>
  /\ UNCHANGED stored

\* The status was overwritten since the request: the answer is not looked at.
ResultIgnored ==
  /\ status \notin {"login", "logout"}
  /\ UNCHANGED <<status, loggedIn, stored, workers>>

\* _check_result, once there is an answer.  An exception other than APIError
\* leaves the timer on.
Poll ==
  /\ polling /\ login.answer # "none"
  /\ status = "login" => login.answer # "odd"
  /\ LoginResult \/ LogoutResult \/ ResultIgnored
  /\ polling' = (status = "logout" /\ login.answer = "odd")
  /\ UNCHANGED <<login, loginOpen, broken>>

SomeWorkerDone     == \E i \in 1..Len(workers) : WorkerDone(i)
SomeCallback       == \E i \in 1..Len(workers) : Callback(i)
SomeCallbackRaises == \E i \in 1..Len(workers) : CallbackRaises(i)

HubNext ==
  \/ OpenLogin \/ LeaveLogin \/ Login \/ Logout \/ Operate \/ ServerAnswers
  \/ SomeWorkerDone \/ SomeCallback \/ SomeCallbackRaises
  \/ Poll

-----------------------------------------------------------------------------
(* Types and properties. *)

HubTypeOK ==
  /\ status \in Rest \cup Operations \cup {"login", "logout"}
  /\ loggedIn \in BOOLEAN  /\ stored \in BOOLEAN
  /\ login \in [asked : {"none", "login", "logout"}, answer : Answers]
  /\ polling \in BOOLEAN   /\ loginOpen \in BOOLEAN  /\ broken \in BOOLEAN
  /\ workers \in Seq([operation : Operations, result : WorkerResults])

\* Whatever the panel is busy with comes to an end, though a login can take
\* the status from an operation and an operation from a login.  Except: the
\* callback of a worker has raised, or a login has raised what is not an
\* APIError, and is polled for ever.
HubAnswers ==
  []<>(status \in Rest \/ broken \/ (status = "login" /\ login.answer = "odd"))
=============================================================================
