----------------------------- MODULE TaskWindow -----------------------------
(***************************************************************************)
(* The pack and unpack windows: TaskWindowModel runs the tasks on threads  *)
(* of the pool (pbom/model/task/taskwindowmodel.cpp) and TaskWindow shows  *)
(* what they report (pbom/ui/taskwindow.cpp).                              *)
(*                                                                         *)
(* A signal of the model is emitted on a pool thread and received on the   *)
(* GUI thread: Qt posts it, and the event loop handles what is posted in   *)
(* that order.                                                             *)
(***************************************************************************)
EXTENDS Naturals, Integers, Sequences, FiniteSets

CONSTANTS
  Tasks,             \* the tasks added to the model
  NoTask,            \* "no task": a null pointer
  IdealThreadCount,  \* QThread::idealThreadCount()
  Size               \* Size[k]: the units of progress task k goes through

ASSUME TasksAssumption  == IsFiniteSet(Tasks) /\ NoTask \notin Tasks
ASSUME ThreadAssumption == IdealThreadCount \in Nat \ {0}
ASSUME SizeAssumption   == Size \in [Tasks -> Nat]

VARIABLES
  \* TaskWindowModel
  tasks,        \* tasks_: the tasks no thread has picked yet
  stopped,      \* stopped_
  pc,           \* pc[t]: where TaskRunnable::run of thread t is
  task,         \* task[t]: the task thread t holds
  units,        \* units[t]: what t has reported of it
  \* the event queue of the GUI thread
  events,
  \* TaskWindow
  activeThreadCount,
  progressBars, \* the threads that have a progress bar
  log,          \* the log is shown: there was a message
  button,       \* the button box
  taskbar,      \* taskbar_ is not null
  closed,       \* who closed the window
  \* TaskWindow::TaskbarIndicator
  maxValue, currentValue, threadValues

modelVars   == <<tasks, stopped, pc, task, units>>
windowVars  == <<activeThreadCount, progressBars, log, button, taskbar, closed>>
taskbarVars == <<maxValue, currentValue, threadValues>>
vars == <<modelVars, events, windowVars, taskbarVars>>

\* One runnable per thread, and no more threads than tasks.
Threads == 0 .. (IF Cardinality(Tasks) < IdealThreadCount
                 THEN Cardinality(Tasks) ELSE IdealThreadCount) - 1

-----------------------------------------------------------------------------
(* The signals of the model. *)

Event == [type: {"started", "thinking", "initialized", "progress", "message",
                 "completed"},
          thread: Threads,
          value: Nat]

Post(type, t, value) ==
  events' = Append(events, [type |-> type, thread |-> t, value |-> value])

-----------------------------------------------------------------------------
(* TaskRunnable::run, on the pool. *)

GoTo(t, label) == pc' = [pc EXCEPT ![t] = label]

StartThread(t) ==
  /\ pc[t] = "ready"
  /\ Post("started", t, 0)
  /\ GoTo(t, "pick")
  /\ UNCHANGED <<tasks, stopped, task, units>>

\* pickNextTask, under the mutex.  The list is taken from the front; the model
\* lets it be in any order.
PickNextTask(t) ==
  /\ pc[t] = "pick"
  /\ \/ /\ tasks = {}
        /\ task' = [task EXCEPT ![t] = NoTask]
        /\ GoTo(t, "leave")
        /\ UNCHANGED tasks
     \/ \E k \in tasks:
          /\ task' = [task EXCEPT ![t] = k]
          /\ tasks' = tasks \ {k}
          /\ GoTo(t, "check")
  /\ UNCHANGED <<stopped, units, events>>

\* The task picked is dropped when the model was stopped meanwhile.
CheckCancelled(t) ==
  /\ pc[t] = "check"
  /\ GoTo(t, IF stopped THEN "leave" ELSE "think")
  /\ UNCHANGED <<tasks, stopped, task, units, events>>

\* execute: the first thing a task does is to say that it is thinking.
Think(t) ==
  /\ pc[t] = "think"
  /\ Post("thinking", t, 0)
  /\ GoTo(t, "prepare")
  /\ UNCHANGED <<tasks, stopped, task, units>>

\* A task fails before it knows how much there is to do, or is cancelled.
FailEarly(t) ==
  /\ pc[t] = "prepare"
  /\ \/ Post("message", t, 0)
     \/ stopped /\ UNCHANGED events
  /\ GoTo(t, "pick")
  /\ UNCHANGED <<tasks, stopped, task, units>>

Initialize(t) ==
  /\ pc[t] = "prepare"
  /\ Post("initialized", t, Size[task[t]])
  /\ units' = [units EXCEPT ![t] = 0]
  /\ GoTo(t, "work")
  /\ UNCHANGED <<tasks, stopped, task>>

Advance(t) ==
  /\ pc[t] = "work"
  /\ units[t] < Size[task[t]]
  /\ units' = [units EXCEPT ![t] = @ + 1]
  /\ Post("progress", t, units[t] + 1)
  /\ UNCHANGED <<tasks, stopped, pc, task>>

\* The task is through, or sees the cancel, or something fails: then it says
\* so, and TaskRunnable::run says it of an exception that leaves the task.
LeaveTask(t) ==
  /\ pc[t] = "work"
  /\ \/ (units[t] < Size[task[t]] => stopped) /\ UNCHANGED events
     \/ Post("message", t, 0)
  /\ GoTo(t, "pick")
  /\ UNCHANGED <<tasks, stopped, task, units>>

CompleteThread(t) ==
  /\ pc[t] = "leave"
  /\ Post("completed", t, 0)
  /\ GoTo(t, "ended")
  /\ UNCHANGED <<tasks, stopped, task, units>>

RunThread(t) ==
  /\ \/ StartThread(t)
     \/ PickNextTask(t)
     \/ CheckCancelled(t)
     \/ Think(t)
     \/ FailEarly(t)
     \/ Initialize(t)
     \/ Advance(t)
     \/ LeaveTask(t)
     \/ CompleteThread(t)
  /\ UNCHANGED <<windowVars, taskbarVars>>

-----------------------------------------------------------------------------
(* The slots of TaskWindow, on the GUI thread. *)

\* Wrong: the thread is not counted.
ThreadStartedUncounted(e) ==
  /\ e.type = "started"
  /\ progressBars' = progressBars \union {e.thread}
  /\ UNCHANGED <<activeThreadCount, log, button, taskbar, closed, taskbarVars>>

ThreadStarted(e) ==
  /\ e.type = "started"
  /\ activeThreadCount' = activeThreadCount + 1
  /\ progressBars' = progressBars \union {e.thread}
  /\ UNCHANGED <<log, button, taskbar, closed, taskbarVars>>

ThreadThinking(e) ==
  /\ e.type = "thinking"
  /\ UNCHANGED <<windowVars, taskbarVars>>

ThreadInitialized(e) ==
  /\ e.type = "initialized"
  /\ maxValue' = maxValue + e.value
  /\ UNCHANGED <<windowVars, currentValue, threadValues>>

\* The indicator adds what the thread advanced since its last report.
ThreadProgress(e) ==
  /\ e.type = "progress"
  /\ currentValue' = currentValue + (e.value - threadValues[e.thread])
  /\ threadValues' = [threadValues EXCEPT ![e.thread] = e.value]
  /\ UNCHANGED <<windowVars, maxValue>>

ThreadMessage(e) ==
  /\ e.type = "message"
  /\ log' = TRUE
  /\ UNCHANGED <<activeThreadCount, progressBars, button, taskbar, closed,
                 taskbarVars>>

\* Wrong: the first thread to end clears the indicator.
FirstThreadCompleted(e) ==
  /\ e.type = "completed"
  /\ activeThreadCount' = activeThreadCount - 1
  /\ taskbar' = FALSE
  /\ IF activeThreadCount' = 0
     THEN /\ button' = "Close"
          /\ closed' \in IF log THEN {"no"} ELSE {"no", "itself"}
     ELSE UNCHANGED <<button, closed>>
  /\ UNCHANGED <<progressBars, log, taskbarVars>>

\* Wrong: the first thread to end offers Close.
FirstThreadCloses(e) ==
  /\ e.type = "completed"
  /\ activeThreadCount' = activeThreadCount - 1
  /\ taskbar' = (activeThreadCount' # 0)
  /\ button' = "Close"
  /\ closed' \in IF log \/ activeThreadCount' # 0 THEN {"no"}
                                               ELSE {"no", "itself"}
  /\ UNCHANGED <<progressBars, log, taskbarVars>>

\* Wrong: the window closes whatever the log says.
ThreadCompletedUnread(e) ==
  /\ e.type = "completed"
  /\ activeThreadCount' = activeThreadCount - 1
  /\ IF activeThreadCount' = 0
     THEN /\ taskbar' = FALSE
          /\ button' = "Close"
          /\ closed' \in {"no", "itself"}
     ELSE UNCHANGED <<taskbar, button, closed>>
  /\ UNCHANGED <<progressBars, log, taskbarVars>>

\* Wrong: the count is compared before it goes down.
ThreadCompletedLate(e) ==
  /\ e.type = "completed"
  /\ activeThreadCount' = activeThreadCount - 1
  /\ IF activeThreadCount = 0
     THEN /\ taskbar' = FALSE
          /\ button' = "Close"
          /\ closed' \in IF log THEN {"no"} ELSE {"no", "itself"}
     ELSE UNCHANGED <<taskbar, button, closed>>
  /\ UNCHANGED <<progressBars, log, taskbarVars>>

\* closeWindowIfNeeded reads the settings: the window stays or closes.
ThreadCompleted(e) ==
  /\ e.type = "completed"
  /\ activeThreadCount' = activeThreadCount - 1
  /\ IF activeThreadCount' = 0
     THEN /\ taskbar' = FALSE
          /\ button' = "Close"
          /\ closed' \in IF log THEN {"no"} ELSE {"no", "itself"}
     ELSE UNCHANGED <<taskbar, button, closed>>
  /\ UNCHANGED <<progressBars, log, taskbarVars>>

HandleEvent ==
  /\ closed = "no"
  /\ events # <<>>
  /\ LET e == Head(events)
     IN  \/ ThreadStarted(e)
         \/ ThreadThinking(e)
         \/ ThreadInitialized(e)
         \/ ThreadProgress(e)
         \/ ThreadMessage(e)
         \/ ThreadCompleted(e)
  /\ events' = Tail(events)
  /\ UNCHANGED modelVars

\* buttonClicked: Cancel disables the button box and stops the model.
ClickCancel ==
  /\ closed = "no"
  /\ button = "Cancel"
  /\ button' = "disabled"
  /\ stopped' = TRUE
  /\ UNCHANGED <<tasks, pc, task, units, events, activeThreadCount,
                 progressBars, log, taskbar, closed, taskbarVars>>

\* buttonClicked: Close.
ClickClose ==
  /\ closed = "no"
  /\ button = "Close"
  /\ closed' = "user"
  /\ UNCHANGED <<modelVars, events, activeThreadCount, progressBars,
                 log, button, taskbar, taskbarVars>>

-----------------------------------------------------------------------------
Init ==
  /\ tasks = Tasks
  /\ stopped = FALSE
  /\ pc = [t \in Threads |-> "ready"]
  /\ task = [t \in Threads |-> NoTask]
  /\ units = [t \in Threads |-> 0]
  /\ events = <<>>
  /\ activeThreadCount = 0
  /\ progressBars = {}
  /\ log = FALSE
  /\ button = "Cancel"
  /\ taskbar = TRUE
  /\ closed = "no"
  /\ maxValue = 0
  /\ currentValue = 0
  /\ threadValues = [t \in Threads |-> 0]

Next ==
  \/ \E t \in Threads: RunThread(t)
  \/ HandleEvent
  \/ ClickCancel
  \/ ClickClose

Spec == Init /\ [][Next]_vars

\* The global pool has idealThreadCount() threads, so every runnable gets
\* one; the event loop goes on while the window is open.
FairSpec ==
  /\ Spec
  /\ \A t \in Threads: WF_vars(RunThread(t))
  /\ WF_vars(HandleEvent)

-----------------------------------------------------------------------------
(* Properties. *)

Executing == {"think", "prepare", "work"}

TypeOK ==
  /\ tasks \subseteq Tasks
  /\ stopped \in BOOLEAN
  /\ pc \in [Threads -> {"ready", "pick", "check", "leave", "ended"}
                          \union Executing]
  /\ task \in [Threads -> Tasks \union {NoTask}]
  /\ units \in [Threads -> Nat]
  /\ events \in Seq(Event)
  /\ activeThreadCount \in 0 .. Cardinality(Threads)
  /\ progressBars \subseteq Threads
  /\ log \in BOOLEAN
  /\ button \in {"Cancel", "disabled", "Close"}
  /\ taskbar \in BOOLEAN
  /\ closed \in {"no", "itself", "user"}
  /\ maxValue \in Nat
  /\ currentValue \in Int
  /\ threadValues \in [Threads -> Nat]

\* The window offers Close, or closes itself, only when the work is over: no
\* task is being executed and none will be.  The count of active threads can
\* drop to zero while a thread of the pool has not begun to run, and come
\* back from there; such a thread finds no task it may execute.
CloseMeansDone ==
  button = "Close" =>
    /\ \A t \in Threads: pc[t] \notin Executing
    /\ stopped \/ (tasks = {} /\ \A t \in Threads: pc[t] # "check")

\* No report reaches a window that cannot show it: the slots of a report
\* follow taskbar_, which the end of the last active thread has cleared, and
\* the thread's progress bar, without a check.
ReportsFindTheirBars ==
  closed = "no" /\ events # <<>> =>
    LET e == Head(events)
    IN  /\ e.type \in {"thinking", "initialized", "progress"} => taskbar
        /\ e.type # "started" => e.thread \in progressBars

\* A window that closes itself hides no failure: there is no message in its
\* log, nor one on its way.
NoMessageLost ==
  closed = "itself" =>
    /\ ~log
    /\ \A i \in 1 .. Len(events): events[i].type # "message"

\* However the threads are scheduled, and whether or not the user cancels,
\* the window gets to offer Close or closes.
WindowEnds == <>(button = "Close" \/ closed # "no")

\* packtask.cpp: "once all bytes processed - report 100% progress
\* explicitly".  When every task went through, the indicator in the taskbar
\* is at its maximum.
TaskbarGetsToTheEnd ==
  button = "Close" /\ ~stopped /\ ~log => currentValue = maxValue
=============================================================================
