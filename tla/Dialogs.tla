------------------------------- MODULE Dialogs -------------------------------
(***************************************************************************)
(* The dialogs of a robot program: the commands notify and input           *)
(* (execution_commands), NotificationInterface, which publishes a message  *)
(* and takes the answer, and ProgramNotifications of the operator's panel  *)
(* (robot_ui), which shows one popup at a time.  Every message of a        *)
(* process has the same identifier; a new process has a new one.           *)
(*                                                                         *)
(* Threads of the panel: one for each topic, and the one of the user       *)
(* interface.  They look at what is shown, search, pop and set without a   *)
(* lock, each of these in a step of its own.                               *)
(***************************************************************************)
EXTENDS Naturals, FiniteSets, SequencesExt

CONSTANTS
  MaxAlerts,   \* messages on the alert topic that are not yet received
  MaxAnswers,  \* answers on their way
  MaxNotices   \* notifications on their way, waiting to be shown, or shown

ASSUME DialogsAssumption ==
  MaxAlerts \in Nat \ {0} /\ MaxAnswers \in Nat /\ MaxNotices \in Nat

VARIABLES
  dialog,    \* where the program is: with no dialog, or one that is published
             \* (its response not yet reset), or waited for
  response,  \* _message_response
  alerts,    \* the topic alert_messages
  news,      \* the topic notification_messages, of which only the number counts
  answers,   \* the topic acknowledge_notification, of which only the number
             \* of answers to the process that runs counts
  popup,     \* _alert_message: the alert that is shown
  waiting,   \* _alert_messages: alerts that are to be shown
  notice,    \* _message is shown
  notices,   \* _messages
  message,   \* what the alert thread handles
  handling,  \* where it is in _on_alert_message_received
  pick,      \* where each thread of the panel is in pick_and_display
  held       \* the alert it has popped and not yet shown

panelVars == <<popup, waiting, notice, notices, message, handling, pick, held>>

dialogVars == <<dialog, response, alerts, news, answers, panelVars>>

Threads == {"alert", "news", "user interface"}

\* What tells an alert from others: it is of the dialog at hand or of the last
\* one, of an earlier one, or of a process that was replaced.  At most one of
\* these is remembered (a bound of the model).
Alerts    == {"this", "earlier", "gone"}
NoAlert   == "none"
AlertMessages == [alert : Alerts, active : BOOLEAN]
NoMessage == [alert |-> NoAlert, active |-> FALSE]
Responses == {"NONE", "given"}  \* RESPONSE_OK, RESPONSE_ABORT

\* The identifier: all alerts of a process have the same.
Id(alert) == IF alert = "earlier" THEN "this" ELSE alert

DialogsInit ==
  /\ dialog = "none"  /\ response = "NONE"
  /\ alerts = <<>>    /\ news = 0       /\ answers = 0
  /\ popup = NoAlert  /\ waiting = <<>>
  /\ notice = FALSE   /\ notices = 0
  /\ message = NoMessage                /\ handling = "no"
  /\ pick = [t \in Threads |-> "no"]    /\ held = [t \in Threads |-> NoAlert]

-----------------------------------------------------------------------------
(* The program. *)

\* The publisher's queue holds one message: the next may replace it.
PublishAlert(sent, m) ==
  \/ Len(sent) < MaxAlerts /\ alerts' = Append(sent, m)
  \/ sent # <<>> /\ alerts' = [sent EXCEPT ![Len(sent)] = m]

NoticesKnown ==
  news + notices + Cardinality({t \in Threads : pick[t] = "notice"})
    + (IF notice THEN 1 ELSE 0)

\* notify without warning or error does not wait.
Notification ==
  /\ dialog = "none"
  /\ NoticesKnown < MaxNotices
  /\ news' = news + 1
  /\ response' = "NONE"
  /\ UNCHANGED <<dialog, alerts, answers, panelVars>>

\* The alerts that the panel has become others.
Become(Other(_)) ==
  /\ popup' = Other(popup)
  /\ waiting' = [i \in 1..Len(waiting) |-> Other(waiting[i])]
  /\ message' = [message EXCEPT !.alert = Other(@)]
  /\ held' = [t \in Threads |-> Other(held[t])]
  /\ UNCHANGED <<notice, notices, handling, pick>>

Earlier(alert) == IF alert = "this" THEN "earlier" ELSE alert

Gone(alert) == IF alert = NoAlert THEN NoAlert ELSE "gone"

\* user_input_message, warning_message and error_message: publish, and then
\* reset the response.
Ask ==
  /\ dialog = "none"
  /\ dialog' = "published"
  /\ PublishAlert([i \in 1..Len(alerts) |-> [alerts[i] EXCEPT !.alert = "earlier"]],
                  [alert |-> "this", active |-> TRUE])
  /\ Become(Earlier)
  /\ UNCHANGED <<response, news, answers>>

Reset ==
  /\ dialog = "published"
  /\ dialog' = "waiting"
  /\ response' = "NONE"
  /\ UNCHANGED <<alerts, news, answers, panelVars>>

\* Mutant: the dialog is left up.
LeaveUp == dialog' = "none" /\ UNCHANGED alerts

\* deactivate_message.
Deactivate ==
  /\ dialog' = "none"
  /\ PublishAlert(alerts, [alert |-> "this", active |-> FALSE])

\* The loop of execute: the answer, whatever it is, is taken ...
TakeAnswer ==
  /\ dialog = "waiting" /\ response # "NONE"
  /\ Deactivate
  /\ UNCHANGED <<response, news, answers, panelVars>>

\* ... or spin_command raises ProgramExit or ProgramPause, or time is over.
GiveUp ==
  /\ dialog = "waiting"
  /\ Deactivate
  /\ UNCHANGED <<response, news, answers, panelVars>>

\* _on_user_acknowledgement_notification_received.
ReceiveAnswer ==
  /\ answers > 0
  /\ answers' = answers - 1
  /\ response' = "given"
  /\ UNCHANGED <<dialog, alerts, news, panelVars>>

\* The interpreter is reloaded: the process is terminated and replaced by one
\* with another identifier.  What it published arrives before that, or not at
\* all.
Reload ==
  /\ "gone" \notin {popup, message.alert} \cup {held[t] : t \in Threads}
                   \cup {waiting[i] : i \in 1..Len(waiting)}
  /\ dialog' = "none"
  /\ response' = "NONE"
  /\ alerts' = <<>>
  /\ answers' = 0
  /\ Become(Gone)
  /\ UNCHANGED news

-----------------------------------------------------------------------------
(* The panel. *)

programVars == <<dialog, response, answers>>

Shown(id) == Id(popup) = id

\* An alert with the identifier is in the queue: there is at most one.
Waits(id)    == \E i \in 1..Len(waiting) : Id(waiting[i]) = id
Position(id) == CHOOSE i \in 1..Len(waiting) : Id(waiting[i]) = id

Without(id) == IF Waits(id) THEN RemoveAt(waiting, Position(id)) ELSE waiting

\* _on_alert_message_received and deactivate_and_remove begin with a look at
\* what is shown.
ReceiveAlert ==
  /\ alerts # <<>> /\ handling = "no" /\ pick["alert"] = "no"
  /\ alerts' = Tail(alerts)
  /\ message' = Head(alerts)
  /\ handling' = IF Shown(Id(Head(alerts).alert)) THEN "shown" ELSE "search"
  /\ UNCHANGED <<programVars, news, popup, waiting, notice, notices, pick, held>>

\* Another text for the alert that is shown, or it is closed
\* (notificationClosed).
ChangeShown ==
  /\ handling = "shown"
  /\ popup' = IF message.active THEN message.alert ELSE NoAlert
  /\ pick' = IF message.active THEN pick ELSE [pick EXCEPT !["alert"] = "call"]
  /\ handling' = "no"
  /\ message' = NoMessage
  /\ UNCHANGED <<programVars, alerts, news, waiting, notice, notices, held>>

\* The alert that is queued is to be replaced, ...
SearchToShow ==
  /\ handling = "search" /\ message.active
  /\ waiting' = Without(Id(message.alert))
  /\ handling' = "append"
  /\ UNCHANGED <<programVars, alerts, news, popup, notice, notices, message,
                 pick, held>>

EnqueueAlert ==
  /\ handling = "append"
  /\ waiting' = Append(waiting, message.alert)
  /\ pick' = [pick EXCEPT !["alert"] = "call"]
  /\ handling' = "no"
  /\ message' = NoMessage
  /\ UNCHANGED <<programVars, alerts, news, popup, notice, notices, held>>

\* ... or removed.  One that is not known takes a notification of its process
\* with it.
SearchToRemove ==
  /\ handling = "search" /\ ~message.active
  /\ waiting' = Without(Id(message.alert))
  /\ notices' \in {notices, IF Waits(Id(message.alert)) \/ notices = 0
                              THEN notices ELSE notices - 1}
  /\ handling' = "no"
  /\ message' = NoMessage
  /\ UNCHANGED <<programVars, alerts, news, popup, notice, pick, held>>

\* A thread is past the look at what is shown, and may change the queue.
Past(t) == pick[t] \in {"free", "alert"}

\* The search raises if the queue is changed under it, and the message is lost.
SearchRaises ==
  /\ handling = "search"
  /\ \E t \in Threads \ {"alert"} : Past(t)
  /\ handling' = "no"
  /\ message' = NoMessage
  /\ UNCHANGED <<programVars, alerts, news, popup, waiting, notice, notices,
                 pick, held>>

\* _on_notification_message_received.
ReceiveNotification ==
  /\ news > 0 /\ pick["news"] = "no"
  /\ news' = news - 1
  /\ notices' = notices + 1
  /\ pick' = [pick EXCEPT !["news"] = "call"]
  /\ UNCHANGED <<programVars, alerts, popup, waiting, notice, message, handling,
                 held>>

\* The operator closes a notification: notificationClosed.
CloseNotice ==
  /\ notice /\ pick["user interface"] = "no"
  /\ notice' = FALSE
  /\ pick' = [pick EXCEPT !["user interface"] = "call"]
  /\ UNCHANGED <<programVars, alerts, news, popup, waiting, notices, message,
                 handling, held>>

\* pick_and_display: nothing is to be shown already, ...
LookAtShown(t) ==
  /\ pick[t] = "call"
  /\ pick' = [pick EXCEPT ![t] =
                IF popup = NoAlert /\ ~notice THEN "free" ELSE "no"]
  /\ UNCHANGED <<programVars, alerts, news, popup, waiting, notice, notices,
                 message, handling, held>>

\* ... the alert that came last is popped, before any notification, ...
PopAlert(t) ==
  /\ pick[t] = "free" /\ waiting # <<>>
  /\ held' = [held EXCEPT ![t] = waiting[Len(waiting)]]
  /\ waiting' = SubSeq(waiting, 1, Len(waiting) - 1)
  /\ pick' = [pick EXCEPT ![t] = "alert"]
  /\ UNCHANGED <<programVars, alerts, news, popup, notice, notices, message,
                 handling>>

PopNotice(t) ==
  /\ pick[t] = "free" /\ waiting = <<>> /\ notices > 0
  /\ notices' = notices - 1
  /\ pick' = [pick EXCEPT ![t] = "notice"]
  /\ UNCHANGED <<programVars, alerts, news, popup, waiting, notice, message,
                 handling, held>>

\* (there is none, or another thread took the last and pop raises)
PopNothing(t) ==
  /\ pick[t] = "free" /\ waiting = <<>>
  /\ notices = 0 \/ \E u \in Threads \ {t} : pick[u] # "no"
  /\ pick' = [pick EXCEPT ![t] = "no"]
  /\ UNCHANGED <<programVars, alerts, news, popup, waiting, notice, notices,
                 message, handling, held>>

\* ... and becomes the model of the popup, whatever is shown by now.
Display(t) ==
  /\ pick[t] \in {"alert", "notice"}
  /\ popup' = IF pick[t] = "alert" THEN held[t] ELSE popup
  /\ notice' = (notice \/ pick[t] = "notice")
  /\ held' = [held EXCEPT ![t] = NoAlert]
  /\ pick' = [pick EXCEPT ![t] = "no"]
  /\ UNCHANGED <<programVars, alerts, news, waiting, notices, message, handling>>

Pick(t) == LookAtShown(t) \/ PopAlert(t) \/ PopNotice(t) \/ PopNothing(t)
             \/ Display(t)

HandleAlert ==
  \/ ReceiveAlert \/ ChangeShown \/ SearchToShow \/ EnqueueAlert
  \/ SearchToRemove \/ SearchRaises

\* The operator answers, as often as he likes while the popup is up.  The
\* process ignores an answer with another identifier.
Answer ==
  /\ Shown("this")
  /\ answers < MaxAnswers
  /\ answers' = answers + 1
  /\ UNCHANGED <<dialog, response, alerts, news, panelVars>>

Panel == HandleAlert \/ ReceiveNotification \/ \E t \in Threads : Pick(t)

DialogsNext ==
  \/ Notification \/ Ask \/ Reset \/ TakeAnswer \/ GiveUp \/ ReceiveAnswer
  \/ Reload \/ Panel \/ CloseNotice \/ Answer

-----------------------------------------------------------------------------
(* Types and properties. *)

DialogsTypeOK ==
  /\ dialog \in {"none", "published", "waiting"}
  /\ response \in Responses
  /\ alerts \in Seq(AlertMessages)  /\ Len(alerts) <= MaxAlerts
  /\ answers \in 0..MaxAnswers
  /\ popup \in Alerts \cup {NoAlert}
  /\ waiting \in Seq(Alerts)        /\ Len(waiting) <= 2
  /\ notice \in BOOLEAN
  /\ news + notices \in 0..MaxNotices
  /\ message \in AlertMessages \cup {NoMessage}
  /\ handling \in {"no", "shown", "search", "append"}
  /\ pick \in [Threads -> {"no", "call", "free", "alert", "notice"}]
  /\ held \in [Threads -> Alerts \cup {NoAlert}]

\* What is shown is what the program waits for.
Settled == IF dialog = "none" THEN ~Shown("this") ELSE popup = "this"

\* The alert thread handles a message while another is between lines 165 and
\* 170: the alert that one has popped is neither shown nor queued, or the test of
\* what is shown was made before it showed it.
Crossing == handling # "no" /\ \E t \in Threads \ {"alert"} : Past(t)

\* Neither the program nor the panel has anything to do with a dialog.
Quiet ==
  /\ dialog = "none" /\ alerts = <<>> /\ handling = "no"
  /\ ~Shown("this") /\ ~Waits("this")
  /\ \A t \in Threads : Id(held[t]) # "this"

\* The popup follows the program, past notifications that are in the way,
\* messages that replace each other, and threads that pick the next popup at
\* the same time: if the program stays in a dialog it is shown, and if it stays
\* out of dialogs none is shown.  This is so from any quiet moment on after
\* which no message about an alert crosses a pick of another thread: one that
\* does may leave a popup up for a dialog that is over, or an alert both shown
\* and queued.  Except also: the alert of a process that was replaced stays up,
\* and keeps every other from being shown.
DialogsFollow ==
  <>(Quiet /\ []~Crossing) =>
    []<><<dialog' # dialog>>_dialog \/ <>[]Settled \/ []<>Shown("gone")
=============================================================================
