-------------------------- MODULE TaskWindowProofs --------------------------
(***************************************************************************)
(* What the pack and unpack windows keep for any number of tasks and of    *)
(* threads: the window offers Close only when the work is over, a report   *)
(* never reaches a window that cannot show it, and a window that closes    *)
(* itself hides no message.                                                *)
(*                                                                         *)
(* The window sees the threads through the event queue only, so the        *)
(* invariant says what the queue holds of each thread: what was posted and *)
(* not handled is the end of "started, reports, completed".  The count of  *)
(* active threads is then the number of the threads whose bar is shown and *)
(* whose end was not handled.  When it gets to zero, whoever is not done   *)
(* began after another thread had found no task to do.                     *)
(***************************************************************************)
EXTENDS TaskWindow, FiniteSetTheorems, TLAPS

Positions == 1 .. Len(events)

Is(i, type, t) == events[i].type = type /\ events[i].thread = t

Posted(type, t) == \E i \in Positions: Is(i, type, t)

-----------------------------------------------------------------------------
(* The parts of the inductive invariant. *)

\* A thread that executes a task has one.
TaskInv ==
  \A t \in Threads: pc[t] \in Executing \union {"check"} => task[t] \in Tasks

\* A thread has a bar once its start was handled.
BarInv ==
  \A t \in Threads:
    /\ pc[t] = "ready" => t \notin progressBars
    /\ pc[t] # "ready" /\ t \notin progressBars => Posted("started", t)

\* What is posted was posted by a thread that began, after its start.
SourceInv ==
  \A i \in Positions:
    LET t == events[i].thread
    IN  /\ pc[t] # "ready"
        /\ events[i].type = "started" => t \notin progressBars
        /\ events[i].type # "started" =>
             t \in progressBars \/ \E j \in 1 .. i - 1: Is(j, "started", t)
        /\ events[i].type = "completed" => pc[t] = "ended"

\* The start of a thread is its first event, the end its last one.
OrderInv ==
  /\ \A i, j \in Positions:
       i < j /\ events[i].thread = events[j].thread =>
         events[i].type # "completed" /\ events[j].type # "started"
  /\ \A i \in Positions:
       LET t == events[i].thread
       IN  pc[t] = "ended" => Posted("completed", t)

\* The count is that of the threads that are shown and not known to be done.
Counted == {t \in progressBars: pc[t] # "ended" \/ Posted("completed", t)}

CountInv == activeThreadCount = Cardinality(Counted)

\* A thread leaves when there is nothing to do.
LeaveInv ==
  \A t \in Threads: pc[t] \in {"leave", "ended"} => stopped \/ tasks = {}

\* A thread that began after another one had ended finds nothing to do.
LateInv ==
  \A i, j \in Positions:
    LET t == events[i].thread
    IN  j < i /\ events[j].type = "completed" /\ events[i].type = "started" =>
          /\ pc[t] \notin Executing
          /\ pc[t] = "check" => stopped
          /\ \A k \in Positions:
               events[k].thread = t => events[k].type \in {"started", "completed"}

\* Once the window offers Close, threads come and go without a report.
CloseInv ==
  /\ button = "Close" =>
       /\ \A t \in Threads: pc[t] \notin Executing
       /\ stopped \/ (tasks = {} /\ \A t \in Threads: pc[t] # "check")
       /\ \A i \in Positions: events[i].type \in {"started", "completed"}
  /\ ~taskbar => button = "Close"
  /\ closed = "itself" => button = "Close" /\ ~log

IInv ==
  /\ TypeOK
  /\ TaskInv
  /\ BarInv
  /\ SourceInv
  /\ OrderInv
  /\ CountInv
  /\ LeaveInv
  /\ LateInv
  /\ CloseInv

-----------------------------------------------------------------------------
(* The threads and the event queue. *)

Types == {"started", "thinking", "initialized", "progress", "message",
          "completed"}

Labels == {"ready", "pick", "check", "leave", "ended"} \union Executing

\* There are finitely many threads, one for each task at most.
LEMMA ThreadsAreFinite ==
  /\ IsFiniteSet(Threads)
  /\ Threads \subseteq Int
<1>1. Cardinality(Tasks) \in Nat
  BY TasksAssumption, FS_CardinalityType
<1>2. PICK n \in Nat: Threads = 0 .. n - 1
  BY <1>1, ThreadAssumption DEF Threads
<1>3. QED
  BY <1>2, FS_Interval

\* Post adds one event at the end and leaves the others where they are.
LEMMA PostAppends ==
  ASSUME events \in Seq(Event),
         NEW type \in Types, NEW t \in Threads, NEW value \in Nat,
         Post(type, t, value)
  PROVE  /\ events' \in Seq(Event)
         /\ Len(events) \in Nat
         /\ Len(events') = Len(events) + 1
         /\ \A i \in Positions: events'[i] = events[i]
         /\ events'[Len(events) + 1].type = type
         /\ events'[Len(events) + 1].thread = t
<1> DEFINE e == [type |-> type, thread |-> t, value |-> value]
<1>1. e \in Event
  BY DEF Event, Types
<1>2. events' = Append(events, e)
  BY DEF Post
<1>3. e.type = type /\ e.thread = t
  OBVIOUS
<1> HIDE DEF e
<1>4. QED
  BY <1>1, <1>2, <1>3 DEF Positions

\* What is handled is the first event; the others move up.
LEMMA TakeShifts ==
  ASSUME events \in Seq(Event), events # <<>>, events' = Tail(events)
  PROVE  /\ events' \in Seq(Event)
         /\ Len(events) \in Nat /\ Len(events) > 0
         /\ Head(events) = events[1]
         /\ Len(events') = Len(events) - 1
         /\ \A i \in 1 .. Len(events) - 1: events'[i] = events[i + 1]
OBVIOUS

\* What waits in the queue is an event of a thread.
LEMMA EventType ==
  ASSUME events \in Seq(Event), NEW i \in Positions
  PROVE  /\ events[i].type \in Types
         /\ events[i].thread \in Threads
         /\ events[i].value \in Nat
<1>1. events[i] \in Event
  BY DEF Positions
<1>2. QED
  BY <1>1 DEF Event, Types

-----------------------------------------------------------------------------
(* Init. *)

\* The window opens before any task has reported.
LEMMA InitIInv == Init => IInv
<1> SUFFICES ASSUME Init PROVE IInv
  OBVIOUS
<1>1. Positions = {}
  BY DEF Init, Positions
<1>2. Cardinality(Counted) = 0
  BY FS_EmptySet DEF Init, Counted
<1>3. Cardinality(Threads) \in Nat
  BY ThreadsAreFinite, FS_CardinalityType
<1>4. TypeOK
  <2>1. events \in Seq(Event)
    BY DEF Init
  <2>2. activeThreadCount \in 0 .. Cardinality(Threads)
    BY <1>3 DEF Init
  <2>3. /\ task \in [Threads -> Tasks \union {NoTask}]
        /\ pc \in [Threads -> {"ready", "pick", "check", "leave", "ended"}
                               \union Executing]
    BY DEF Init
  <2>4. /\ units \in [Threads -> Nat]
        /\ threadValues \in [Threads -> Nat]
    BY DEF Init
  <2>5. /\ tasks \subseteq Tasks
        /\ progressBars \subseteq Threads
        /\ maxValue \in Nat /\ currentValue \in Int
    BY DEF Init
  <2>6. stopped \in BOOLEAN /\ log \in BOOLEAN /\ taskbar \in BOOLEAN
    BY DEF Init
  <2>7. /\ button \in {"Cancel", "disabled", "Close"}
        /\ closed \in {"no", "itself", "user"}
    BY DEF Init
  <2>8. QED
    BY <2>1, <2>2, <2>3, <2>4, <2>5, <2>6, <2>7 DEF TypeOK
<1>5. CountInv
  BY <1>2 DEF Init, CountInv
<1>6. TaskInv /\ BarInv /\ SourceInv /\ OrderInv /\ LeaveInv /\ LateInv
  BY <1>1
  DEF Init, TaskInv, Executing, BarInv, SourceInv, OrderInv, LeaveInv, LateInv
<1>7. CloseInv
  BY DEF Init, CloseInv
<1>8. QED
  BY <1>4, <1>5, <1>6, <1>7 DEF IInv

-----------------------------------------------------------------------------
(* Steps of a thread. *)

\* A step that says nothing: the thread goes on inside its run.
LEMMA SilentStep ==
  ASSUME IInv, NEW t \in Threads, NEW l \in Labels,
         pc[t] \notin {"ready", "ended"}, l \notin {"ready", "ended"},
         GoTo(t, l), events' = events,
         UNCHANGED stopped, UNCHANGED windowVars,
         tasks' \subseteq tasks,
         l = "leave" => stopped \/ tasks = {},
         l \in Executing => pc[t] \in Executing \/ (pc[t] = "check" /\ ~stopped),
         l = "check" => pc[t] # "check" /\ tasks # {}
  PROVE  BarInv' /\ SourceInv' /\ OrderInv' /\ CountInv' /\ LeaveInv'
         /\ LateInv' /\ CloseInv'
<1>1. /\ pc' = [pc EXCEPT ![t] = l]
      /\ \A u \in Threads: pc'[u] = IF u = t THEN l ELSE pc[u]
      /\ Positions' = Positions
      /\ \A i \in Positions: events'[i] = events[i]
      /\ \A i \in Positions: events[i].thread \in Threads
  BY EventType DEF IInv, TypeOK, GoTo, Positions
<1>2. \A type, u: Posted(type, u)' <=> Posted(type, u)
  BY DEF Posted, Is, Positions
<1>3. BarInv'
  BY <1>1, <1>2 DEF IInv, BarInv, windowVars
<1>4. SourceInv'
  BY <1>1 DEF IInv, SourceInv, windowVars, Is
<1>5. OrderInv'
  BY <1>1, <1>2 DEF IInv, OrderInv
<1>6. CountInv'
  <2>1. Counted' = Counted
    BY <1>1, <1>2 DEF IInv, TypeOK, Counted, windowVars
  <2>2. QED
    BY <2>1 DEF IInv, CountInv, windowVars
<1>7. LeaveInv'
  BY <1>1 DEF IInv, LeaveInv
<1>8. LateInv'
  <2>1. \A j \in Positions: events[j].type = "completed" => stopped \/ tasks = {}
    BY <1>1 DEF IInv, SourceInv, LeaveInv
  <2>2. QED
    BY <1>1, <2>1 DEF IInv, LateInv, Executing
<1>9. CloseInv'
  BY <1>1 DEF IInv, CloseInv, windowVars, Executing
<1>10. QED
  BY <1>3, <1>4, <1>5, <1>6, <1>7, <1>8, <1>9

\* A report of a task that is being executed.
LEMMA ReportStep ==
  ASSUME IInv, NEW t \in Threads, NEW l \in Labels,
         NEW type \in {"thinking", "initialized", "progress", "message"},
         NEW value \in Nat,
         pc[t] \in Executing, l \in Executing \union {"pick"},
         pc' = [pc EXCEPT ![t] = l], Post(type, t, value),
         UNCHANGED tasks, UNCHANGED stopped, UNCHANGED windowVars
  PROVE  BarInv' /\ SourceInv' /\ OrderInv' /\ CountInv' /\ LeaveInv'
         /\ LateInv' /\ CloseInv'
<1> DEFINE n == Len(events) + 1
<1>1. /\ n \in Nat /\ n > 0
      /\ Positions = 1 .. n - 1
      /\ Positions' = 1 .. n
      /\ \A i \in Positions: events'[i] = events[i]
      /\ events'[n].type = type /\ events'[n].thread = t
  BY PostAppends DEF IInv, TypeOK, Positions, Types
<1>2. /\ \A i \in Positions: events[i].thread \in Threads
      /\ \A u \in Threads: pc'[u] = IF u = t THEN l ELSE pc[u]
      /\ pc[t] \notin {"ready", "ended", "leave", "check"}
      /\ l \notin {"ready", "ended", "leave", "check"}
      /\ progressBars' = progressBars
  BY EventType DEF IInv, TypeOK, Executing, windowVars
<1> HIDE DEF n
<1>3. \A u: /\ Posted("started", u)' <=> Posted("started", u)
            /\ Posted("completed", u)' <=> Posted("completed", u)
  BY <1>1 DEF Posted, Is
<1>4. BarInv'
  BY <1>2, <1>3 DEF IInv, BarInv
<1>5. SourceInv'
  <2>1. t \in progressBars \/ \E j \in 1 .. n - 1: Is(j, "started", t)
    BY <1>1, <1>2 DEF IInv, BarInv, Posted
  <2>2. QED
    BY <1>1, <1>2, <2>1 DEF IInv, SourceInv, Is
<1>6. OrderInv'
  <2>1. \A i \in Positions: events[i].thread = t => events[i].type # "completed"
    BY <1>2 DEF IInv, SourceInv
  <2>2. QED
    BY <1>1, <1>2, <1>3, <2>1 DEF IInv, OrderInv
<1>7. CountInv'
  <2>1. Counted' = Counted
    BY <1>2, <1>3 DEF IInv, TypeOK, Counted
  <2>2. QED
    BY <2>1 DEF IInv, CountInv, windowVars
<1>8. LeaveInv'
  BY <1>2 DEF IInv, LeaveInv
<1>9. LateInv'
  BY <1>1, <1>2 DEF IInv, LateInv, Executing
<1>10. CloseInv'
  BY <1>1, <1>2 DEF IInv, CloseInv, windowVars, Executing
<1>11. QED
  BY <1>4, <1>5, <1>6, <1>7, <1>8, <1>9, <1>10

\* A thread begins: its start is its first event.
LEMMA StartStep ==
  ASSUME IInv, NEW t \in Threads, StartThread(t),
         UNCHANGED <<windowVars, taskbarVars>>
  PROVE  BarInv' /\ SourceInv' /\ OrderInv' /\ CountInv' /\ LeaveInv'
         /\ LateInv' /\ CloseInv'
<1> DEFINE n == Len(events) + 1
<1>1. /\ n \in Nat /\ n > 0
      /\ Positions = 1 .. n - 1
      /\ Positions' = 1 .. n
      /\ \A i \in Positions: events'[i] = events[i]
      /\ events'[n].type = "started" /\ events'[n].thread = t
  <2>1. events \in Seq(Event) /\ "started" \in Types /\ Post("started", t, 0)
    BY DEF IInv, TypeOK, StartThread, Types
  <2>2. QED
    BY <2>1, PostAppends DEF Positions
<1>2. /\ \A i \in Positions: events[i].thread \in Threads
      /\ pc[t] = "ready"
      /\ \A u \in Threads: pc'[u] = IF u = t THEN "pick" ELSE pc[u]
      /\ progressBars' = progressBars
      /\ t \notin progressBars
  BY EventType
  DEF IInv, TypeOK, BarInv, StartThread, GoTo, windowVars
<1>3. \A i \in Positions: events[i].thread # t
  BY <1>2 DEF IInv, SourceInv
<1> HIDE DEF n
<1>4. \A u: /\ Posted("started", u)' <=> Posted("started", u) \/ u = t
            /\ Posted("completed", u)' <=> Posted("completed", u)
  BY <1>1 DEF Posted, Is
<1>5. BarInv'
  BY <1>2, <1>4 DEF IInv, BarInv
<1>6. SourceInv'
  BY <1>1, <1>2, <1>3 DEF IInv, SourceInv, Is
<1>7. OrderInv'
  BY <1>1, <1>2, <1>3, <1>4 DEF IInv, OrderInv
<1>8. CountInv'
  <2>1. Counted' = Counted
    BY <1>2, <1>4 DEF IInv, TypeOK, Counted
  <2>2. QED
    BY <2>1 DEF IInv, CountInv, windowVars
<1>9. LeaveInv'
  BY <1>2 DEF IInv, LeaveInv, StartThread
<1>10. LateInv'
  BY <1>1, <1>2, <1>3 DEF IInv, LateInv, Executing, StartThread
<1>11. CloseInv'
  BY <1>1, <1>2 DEF IInv, CloseInv, windowVars, Executing, StartThread
<1>12. QED
  BY <1>5, <1>6, <1>7, <1>8, <1>9, <1>10, <1>11

\* A thread ends: nothing follows its last event.
LEMMA EndStep ==
  ASSUME IInv, NEW t \in Threads, CompleteThread(t),
         UNCHANGED <<windowVars, taskbarVars>>
  PROVE  BarInv' /\ SourceInv' /\ OrderInv' /\ CountInv' /\ LeaveInv'
         /\ LateInv' /\ CloseInv'
<1> DEFINE n == Len(events) + 1
<1>1. /\ n \in Nat /\ n > 0
      /\ Positions = 1 .. n - 1
      /\ Positions' = 1 .. n
      /\ \A i \in Positions: events'[i] = events[i]
      /\ events'[n].type = "completed" /\ events'[n].thread = t
  <2>1. events \in Seq(Event) /\ "completed" \in Types /\ Post("completed", t, 0)
    BY DEF IInv, TypeOK, CompleteThread, Types
  <2>2. QED
    BY <2>1, PostAppends DEF Positions
<1>2. /\ \A i \in Positions: events[i].thread \in Threads
      /\ pc[t] = "leave"
      /\ \A u \in Threads: pc'[u] = IF u = t THEN "ended" ELSE pc[u]
      /\ progressBars' = progressBars
  BY EventType DEF IInv, TypeOK, CompleteThread, GoTo, windowVars
<1> HIDE DEF n
<1>3. \A u: /\ Posted("started", u)' <=> Posted("started", u)
            /\ Posted("completed", u)' <=> Posted("completed", u) \/ u = t
  BY <1>1 DEF Posted, Is
<1>4. \A i \in Positions: events[i].thread = t => events[i].type # "completed"
  BY <1>2 DEF IInv, SourceInv
<1>5. BarInv'
  BY <1>2, <1>3 DEF IInv, BarInv
<1>6. SourceInv'
  <2>1. t \in progressBars \/ \E j \in 1 .. n - 1: Is(j, "started", t)
    BY <1>1, <1>2 DEF IInv, BarInv, Posted
  <2>2. QED
    BY <1>1, <1>2, <2>1 DEF IInv, SourceInv, Is
<1>7. OrderInv'
  BY <1>1, <1>2, <1>3, <1>4 DEF IInv, OrderInv
<1>8. CountInv'
  <2>1. Counted' = Counted
    BY <1>2, <1>3 DEF IInv, TypeOK, Counted
  <2>2. QED
    BY <2>1 DEF IInv, CountInv, windowVars
<1>9. LeaveInv'
  BY <1>2 DEF IInv, LeaveInv, CompleteThread
<1>10. LateInv'
  BY <1>1, <1>2 DEF IInv, LateInv, Executing, CompleteThread
<1>11. CloseInv'
  BY <1>1, <1>2 DEF IInv, CloseInv, windowVars, Executing, CompleteThread
<1>12. QED
  BY <1>5, <1>6, <1>7, <1>8, <1>9, <1>10, <1>11

\* The types survive a step of a thread.
LEMMA ThreadTypes ==
  ASSUME TypeOK, TaskInv, NEW t \in Threads, RunThread(t)
  PROVE  TypeOK' /\ TaskInv'
<1>1. /\ task' \in [Threads -> Tasks \union {NoTask}]
      /\ tasks' \subseteq Tasks
      /\ stopped' \in BOOLEAN
  BY DEF TypeOK, RunThread, StartThread, PickNextTask, CheckCancelled, Think,
         FailEarly, Initialize, Advance, LeaveTask, CompleteThread
<1>2. pc' \in [Threads -> {"ready", "pick", "check", "leave", "ended"}
                            \union Executing]
  BY DEF TypeOK, RunThread, StartThread, PickNextTask, CheckCancelled, Think,
         FailEarly, Initialize, Advance, LeaveTask, CompleteThread, GoTo,
         Executing
<1>3. units' \in [Threads -> Nat]
  <2>1. units[t] + 1 \in Nat /\ 0 \in Nat
    BY DEF TypeOK
  <2>2. \A v \in Nat: [units EXCEPT ![t] = v] \in [Threads -> Nat]
    BY DEF TypeOK
  <2>3. \/ UNCHANGED units
        \/ units' = [units EXCEPT ![t] = 0]
        \/ units' = [units EXCEPT ![t] = units[t] + 1]
    BY DEF TypeOK, RunThread, StartThread, PickNextTask, CheckCancelled,
           Think, FailEarly, Initialize, Advance, LeaveTask, CompleteThread
  <2>4. QED
    BY <2>1, <2>2, <2>3 DEF TypeOK
<1>4. events' \in Seq(Event)
  <2>1. \A type \in Types, value \in Nat:
          Post(type, t, value) => events' \in Seq(Event)
    BY PostAppends DEF TypeOK
  <2>2. Initialize(t) => Size[task[t]] \in Nat
    BY SizeAssumption DEF Initialize, TaskInv, Executing
  <2>3. units[t] + 1 \in Nat
    BY DEF TypeOK
  <2>4. QED
    BY <2>1, <2>2, <2>3
    DEF TypeOK, RunThread, StartThread, PickNextTask, CheckCancelled, Think,
        FailEarly, Initialize, Advance, LeaveTask, CompleteThread, Types
<1>5. TaskInv'
  BY DEF TypeOK, TaskInv, RunThread, StartThread, PickNextTask,
         CheckCancelled, Think, FailEarly, Initialize, Advance, LeaveTask,
         CompleteThread, GoTo, Executing
<1>6. TypeOK'
  BY <1>1, <1>2, <1>3, <1>4
  DEF TypeOK, RunThread, windowVars, taskbarVars
<1>7. QED
  BY <1>5, <1>6

\* Whatever a thread does, the invariant holds.
LEMMA ThreadStep ==
  ASSUME IInv, NEW t \in Threads, RunThread(t)
  PROVE  IInv'
<1> DEFINE Kept == BarInv' /\ SourceInv' /\ OrderInv' /\ CountInv' /\ LeaveInv'
                   /\ LateInv' /\ CloseInv'
<1> USE DEF RunThread
<1>1. TypeOK
  BY DEF IInv
<1>2. ASSUME StartThread(t) PROVE Kept
  BY <1>2, StartStep
<1>3. ASSUME PickNextTask(t) PROVE Kept
  <2>1. CASE tasks = {} /\ UNCHANGED tasks /\ GoTo(t, "leave")
    BY <1>3, <2>1, SilentStep DEF PickNextTask, Labels, Executing
  <2>2. CASE tasks # {} /\ tasks' \subseteq tasks /\ GoTo(t, "check")
    BY <1>3, <2>2, SilentStep DEF PickNextTask, Labels, Executing
  <2>3. QED
    BY <1>3, <2>1, <2>2 DEF PickNextTask
<1>4. ASSUME CheckCancelled(t) PROVE Kept
  <2>1. CASE stopped /\ GoTo(t, "leave")
    BY <1>4, <2>1, SilentStep DEF CheckCancelled, Labels, Executing
  <2>2. CASE ~stopped /\ GoTo(t, "think")
    BY <1>4, <2>2, SilentStep DEF CheckCancelled, Labels, Executing
  <2>3. QED
    BY <1>4, <2>1, <2>2 DEF CheckCancelled
<1>5. ASSUME Think(t) PROVE Kept
  BY <1>5, ReportStep DEF Think, GoTo, Labels, Labels, Executing
<1>6. ASSUME FailEarly(t) PROVE Kept
  <2>1. CASE Post("message", t, 0)
    BY <1>6, <2>1, ReportStep DEF FailEarly, GoTo, Labels, Executing
  <2>2. CASE UNCHANGED events
    BY <1>6, <2>2, SilentStep DEF FailEarly, Labels, Executing
  <2>3. QED
    BY <1>6, <2>1, <2>2 DEF FailEarly
<1>7. ASSUME Initialize(t) PROVE Kept
  <2>1. Size[task[t]] \in Nat
    BY <1>7, SizeAssumption DEF Initialize, IInv, TaskInv, Executing
  <2>2. QED
    BY <1>7, <2>1, ReportStep DEF Initialize, GoTo, Labels, Executing
<1>8. ASSUME Advance(t) PROVE Kept
  <2>1. /\ units[t] + 1 \in Nat
        /\ pc' = [pc EXCEPT ![t] = "work"]
    BY <1>1, <1>8 DEF TypeOK, Advance
  <2>2. QED
    BY <1>8, <2>1, ReportStep DEF Advance, Labels, Executing
<1>9. ASSUME LeaveTask(t) PROVE Kept
  <2>1. CASE Post("message", t, 0)
    BY <1>9, <2>1, ReportStep DEF LeaveTask, GoTo, Labels, Executing
  <2>2. CASE UNCHANGED events
    BY <1>9, <2>2, SilentStep DEF LeaveTask, Labels, Executing
  <2>3. QED
    BY <1>9, <2>1, <2>2 DEF LeaveTask
<1>10. ASSUME CompleteThread(t) PROVE Kept
  BY <1>10, EndStep
<1>11. Kept
  BY <1>2, <1>3, <1>4, <1>5, <1>6, <1>7, <1>8, <1>9, <1>10
<1>12. TypeOK' /\ TaskInv'
  BY ThreadTypes DEF IInv
<1>13. QED
  BY <1>11, <1>12 DEF IInv

-----------------------------------------------------------------------------
(* Steps of the window. *)

\* What handling an event does to the queue, whatever the event: its thread
\* gets a bar if the event is the thread's start.
LEMMA QueueStep ==
  ASSUME IInv, HandleEvent,
         progressBars' = IF Head(events).type = "started"
                         THEN progressBars \union {Head(events).thread}
                         ELSE progressBars
  PROVE  BarInv' /\ SourceInv' /\ OrderInv' /\ LateInv'
<1> DEFINE n == Len(events) - 1
           u == events[1].thread
<1>1. /\ n \in Nat
      /\ Positions = 1 .. n + 1
      /\ Positions' = 1 .. n
      /\ Head(events) = events[1]
      /\ \A i \in Positions': i + 1 \in Positions /\ events'[i] = events[i + 1]
  <2>1. events \in Seq(Event) /\ events # <<>> /\ events' = Tail(events)
    BY DEF IInv, TypeOK, HandleEvent
  <2>2. QED
    BY <2>1, TakeShifts DEF Positions
<1>2. /\ \A i \in Positions: events[i].thread \in Threads
      /\ 1 \in Positions
      /\ u \in Threads
  BY <1>1, EventType DEF IInv, TypeOK
<1>3. /\ UNCHANGED <<pc, stopped, tasks>>
      /\ progressBars' = IF events[1].type = "started"
                         THEN progressBars \union {u} ELSE progressBars
  BY <1>1 DEF HandleEvent, modelVars
<1> HIDE DEF n, u
<1>4. \A type, v: Posted(type, v) => Posted(type, v)' \/ Is(1, type, v)
  <2> SUFFICES ASSUME NEW type, NEW v, Posted(type, v), ~Is(1, type, v)
               PROVE  Posted(type, v)'
    OBVIOUS
  <2>1. PICK j \in Positions: Is(j, type, v)
    BY DEF Posted
  <2>2. j # 1
    BY <2>1
  <2>3. j - 1 \in Positions' /\ events'[j - 1] = events[j]
    BY <1>1, <2>2
  <2>4. QED
    BY <2>1, <2>3 DEF Posted, Is
<1>5. BarInv'
  <2>1. \A t \in Threads: t \notin progressBars' => ~Is(1, "started", t)
    BY <1>3 DEF Is, u
  <2>2. \A t \in Threads: t \notin progressBars' => t \notin progressBars
    BY <1>3
  <2>3. \A t \in Threads: pc[t] = "ready" => t \notin progressBars'
    BY <1>2, <1>3 DEF IInv, BarInv, SourceInv, u
  <2>4. QED
    BY <1>3, <1>4, <2>1, <2>2, <2>3 DEF IInv, BarInv
<1>6. SourceInv'
  <2> SUFFICES ASSUME NEW i \in Positions', NEW t, t = events'[i].thread
               PROVE  /\ pc[t] # "ready"
                      /\ events'[i].type = "started" => t \notin progressBars'
                      /\ events'[i].type # "started" =>
                           \/ t \in progressBars'
                           \/ \E j \in 1 .. i - 1: Is(j, "started", t)'
                      /\ events'[i].type = "completed" => pc[t] = "ended"
    BY <1>3 DEF SourceInv
  <2>1. /\ i + 1 \in Positions /\ events'[i] = events[i + 1]
        /\ t = events[i + 1].thread
    BY <1>1
  <2>2. events[i + 1].type = "started" => t # u
    BY <1>1, <1>2, <2>1 DEF IInv, OrderInv, u
  <2>3. ASSUME NEW j \in 1 .. i + 1 - 1, Is(j, "started", t),
               t \notin progressBars'
        PROVE  \E k \in 1 .. i - 1: Is(k, "started", t)'
    <3>1. j # 1
      BY <1>3, <2>3 DEF Is, u
    <3>2. /\ j - 1 \in 1 .. i - 1 /\ j - 1 \in Positions'
          /\ events'[j - 1] = events[j]
      BY <1>1, <3>1
    <3>3. QED
      BY <2>3, <3>2 DEF Is
  <2>4. events[i + 1].type # "started" =>
          t \in progressBars \/ \E j \in 1 .. i + 1 - 1: Is(j, "started", t)
    <3>1. \A k \in Positions:
            events[k].type # "started" =>
              \/ events[k].thread \in progressBars
              \/ \E j \in 1 .. k - 1: Is(j, "started", events[k].thread)
      BY DEF IInv, SourceInv
    <3>2. events[i + 1].type # "started" =>
            \/ events[i + 1].thread \in progressBars
            \/ \E j \in 1 .. i + 1 - 1: Is(j, "started", events[i + 1].thread)
      BY <1>1, <2>1, <3>1
    <3>3. QED
      BY <2>1, <3>2
  <2>5. /\ pc[t] # "ready"
        /\ events[i + 1].type = "started" => t \notin progressBars
        /\ events[i + 1].type = "completed" => pc[t] = "ended"
    BY <2>1 DEF IInv, SourceInv
  <2>6. t \in progressBars => t \in progressBars'
    BY <1>3
  <2>7. t # u => (t \in progressBars' <=> t \in progressBars)
    BY <1>3
  <2>8. QED
    BY <2>1, <2>2, <2>3, <2>4, <2>5, <2>6, <2>7
<1>7. OrderInv'
  <2>1. ASSUME NEW i \in Positions', NEW j \in Positions', i < j,
               events'[i].thread = events'[j].thread
        PROVE  events'[i].type # "completed" /\ events'[j].type # "started"
    BY <1>1, <2>1 DEF IInv, OrderInv
  <2>2. ASSUME NEW i \in Positions', pc[events'[i].thread] = "ended"
        PROVE  \A t: t = events'[i].thread => Posted("completed", t)'
    <3>1. /\ i + 1 \in Positions /\ events'[i] = events[i + 1] /\ 1 < i + 1
      BY <1>1
    <3>2. Posted("completed", events'[i].thread)
      BY <2>2, <3>1 DEF IInv, OrderInv
    <3>3. ~Is(1, "completed", events'[i].thread)
      BY <1>2, <3>1 DEF IInv, OrderInv, Is
    <3>4. QED
      BY <1>4, <3>2, <3>3
  <2>3. QED
    BY <1>3, <2>1, <2>2 DEF OrderInv
<1>8. LateInv'
  BY <1>1, <1>3 DEF IInv, LateInv
<1>9. QED
  BY <1>5, <1>6, <1>7, <1>8

\* A thread is counted from the handling of its start to that of its end.
LEMMA CountStep ==
  ASSUME IInv, HandleEvent
  PROVE  CountInv' /\ activeThreadCount' \in 0 .. Cardinality(Threads)
<1> DEFINE n == Len(events) - 1
<1>1. /\ n \in Nat
      /\ Positions = 1 .. n + 1
      /\ Positions' = 1 .. n
      /\ Head(events) = events[1]
      /\ \A i \in Positions': i + 1 \in Positions /\ events'[i] = events[i + 1]
  <2>1. events \in Seq(Event) /\ events # <<>> /\ events' = Tail(events)
    BY DEF IInv, TypeOK, HandleEvent
  <2>2. QED
    BY <2>1, TakeShifts DEF Positions
<1>2. /\ \A i \in Positions: events[i].thread \in Threads
      /\ 1 \in Positions
      /\ UNCHANGED pc
  BY <1>1, EventType DEF IInv, TypeOK, HandleEvent, modelVars
<1> HIDE DEF n
<1>u. PICK u \in Threads: u = events[1].thread
  BY <1>2
<1>3. \A v: Posted("completed", v) <=>
              Posted("completed", v)' \/ Is(1, "completed", v)
  <2>1. \A v: Posted("completed", v)' => Posted("completed", v)
    BY <1>1 DEF Posted, Is
  <2>2. \A v: Is(1, "completed", v) => Posted("completed", v)
    BY <1>2 DEF Posted
  <2>3. ASSUME NEW v, Posted("completed", v), ~Is(1, "completed", v)
        PROVE  Posted("completed", v)'
    <3>1. PICK j \in Positions: Is(j, "completed", v)
      BY <2>3 DEF Posted
    <3>2. j - 1 \in Positions' /\ events'[j - 1] = events[j]
      BY <1>u, <1>1, <2>3, <3>1
    <3>3. QED
      BY <3>1, <3>2 DEF Posted, Is
  <2>4. QED
    BY <2>1, <2>2, <2>3
<1>4. /\ Counted \subseteq Threads /\ IsFiniteSet(Counted)
      /\ Cardinality(Counted) \in Nat
      /\ activeThreadCount = Cardinality(Counted)
  BY ThreadsAreFinite, FS_Subset, FS_CardinalityType
  DEF IInv, TypeOK, Counted, CountInv
<1>5. ASSUME events[1].type = "started"
      PROVE  CountInv'
  <2>1. /\ activeThreadCount' = activeThreadCount + 1
        /\ progressBars' = progressBars \union {u}
    BY <1>u, <1>1, <1>5
    DEF HandleEvent, ThreadStarted, ThreadThinking, ThreadInitialized,
        ThreadProgress, ThreadMessage, ThreadCompleted
  <2>2. u \notin progressBars
    BY <1>u, <1>2, <1>5 DEF IInv, SourceInv
  <2>3. pc[u] = "ended" => Posted("completed", u)
    BY <1>u, <1>2 DEF IInv, OrderInv
  <2>4. \A v: ~Is(1, "completed", v)
    BY <1>5 DEF Is
  <2>5. Counted' = Counted \union {u}
    BY <1>2, <1>3, <2>1, <2>3, <2>4 DEF Counted
  <2>6. u \notin Counted
    BY <2>2 DEF Counted
  <2>7. QED
    BY <1>4, <2>1, <2>5, <2>6, FS_AddElement DEF CountInv
<1>6. ASSUME events[1].type = "completed"
      PROVE  CountInv'
  <2>1. /\ activeThreadCount' = activeThreadCount - 1
        /\ progressBars' = progressBars
    BY <1>u, <1>1, <1>6
    DEF HandleEvent, ThreadStarted, ThreadThinking, ThreadInitialized,
        ThreadProgress, ThreadMessage, ThreadCompleted
  <2>2. pc[u] = "ended" /\ u \in progressBars
    BY <1>u, <1>2, <1>6 DEF IInv, SourceInv
  <2>3. Is(1, "completed", u) /\ \A v: Is(1, "completed", v) => v = u
    BY <1>u, <1>6 DEF Is
  <2>4. ~Posted("completed", u)'
    <3> SUFFICES ASSUME NEW j \in Positions', Is(j, "completed", u)'
                 PROVE  FALSE
      BY DEF Posted
    <3>1. j + 1 \in Positions /\ 1 < j + 1 /\ events[j + 1].thread = u
      BY <1>u, <1>1 DEF Is
    <3>2. QED
      BY <1>u, <1>2, <1>6, <3>1 DEF IInv, OrderInv
  <2>5. Counted' = Counted \ {u}
    BY <1>2, <1>3, <2>1, <2>2, <2>3, <2>4 DEF Counted
  <2>6. u \in Counted
    BY <1>3, <2>2, <2>3 DEF Counted
  <2>7. QED
    BY <1>4, <2>1, <2>5, <2>6, FS_RemoveElement DEF CountInv
<1>7. ASSUME events[1].type \notin {"started", "completed"}
      PROVE  CountInv'
  <2>1. /\ activeThreadCount' = activeThreadCount
        /\ progressBars' = progressBars
    BY <1>u, <1>1, <1>7
    DEF HandleEvent, ThreadStarted, ThreadThinking, ThreadInitialized,
        ThreadProgress, ThreadMessage, ThreadCompleted, windowVars
  <2>2. \A v: ~Is(1, "completed", v)
    BY <1>7 DEF Is
  <2>3. Counted' = Counted
    BY <1>2, <1>3, <2>1, <2>2 DEF Counted
  <2>4. QED
    BY <1>4, <2>1, <2>3 DEF CountInv
<1>8. CountInv'
  BY <1>5, <1>6, <1>7
<1>9. Cardinality(Counted') \in 0 .. Cardinality(Threads)
  <2>1. Counted' \subseteq Threads
    <3>1. progressBars' \subseteq Threads
      BY <1>u, <1>1, <1>2
      DEF HandleEvent, ThreadStarted, ThreadThinking, ThreadInitialized,
          ThreadProgress, ThreadMessage, ThreadCompleted, windowVars,
          IInv, TypeOK
    <3>2. QED
      BY <3>1 DEF Counted
  <2>2. QED
    <3>1. Cardinality(Counted') <= Cardinality(Threads)
      BY <2>1, ThreadsAreFinite, FS_Subset
    <3>2. IsFiniteSet(Counted')
      BY <2>1, ThreadsAreFinite, FS_Subset
    <3>3. Cardinality(Counted') \in Nat /\ Cardinality(Threads) \in Nat
      BY <3>2, ThreadsAreFinite, FS_CardinalityType
    <3>4. QED
      BY <3>1, <3>3
<1>10. QED
  BY <1>8, <1>9 DEF CountInv

\* When the last thread that is counted ends, nobody has anything to do.
LEMMA NobodyIsBusy ==
  ASSUME IInv, HandleEvent, Head(events).type = "completed",
         activeThreadCount' = 0, CountInv'
  PROVE  /\ \A t \in Threads: pc[t] \notin Executing
         /\ stopped \/ (tasks = {} /\ \A t \in Threads: pc[t] # "check")
         /\ \A i \in Positions': events'[i].type \in {"started", "completed"}
<1> DEFINE n == Len(events) - 1
<1>1. /\ n \in Nat
      /\ Positions = 1 .. n + 1
      /\ Positions' = 1 .. n
      /\ Head(events) = events[1]
      /\ \A i \in Positions': i + 1 \in Positions /\ events'[i] = events[i + 1]
  <2>1. events \in Seq(Event) /\ events # <<>> /\ events' = Tail(events)
    BY DEF IInv, TypeOK, HandleEvent
  <2>2. QED
    BY <2>1, TakeShifts DEF Positions
<1>2. /\ \A i \in Positions: events[i].thread \in Threads
      /\ \A i \in Positions: events[i].type \in Types
      /\ 1 \in Positions
      /\ events[1].type = "completed"
  BY <1>1, EventType DEF IInv, TypeOK
<1> HIDE DEF n
<1>3. UNCHANGED <<pc, progressBars>>
  BY <1>1, <1>2
  DEF HandleEvent, modelVars, ThreadStarted, ThreadThinking,
      ThreadInitialized, ThreadProgress, ThreadMessage, ThreadCompleted
<1>4. Counted' = {}
  <2>1. Counted' \subseteq Threads
    BY <1>3 DEF Counted, IInv, TypeOK
  <2>2. IsFiniteSet(Counted')
    BY <2>1, ThreadsAreFinite, FS_Subset
  <2>3. QED
    BY <2>2, FS_EmptySet DEF CountInv
<1>5. stopped \/ tasks = {}
  BY <1>2 DEF IInv, SourceInv, LeaveInv
\* Who has a bar has ended, and nothing of it is left in the queue.
<1>6. ASSUME NEW t \in Threads, t \in progressBars
      PROVE  /\ pc[t] = "ended"
             /\ \A i \in Positions: i > 1 => events[i].thread # t
  <2>1. pc[t] = "ended" /\ ~Posted("completed", t)'
    BY <1>3, <1>4, <1>6 DEF Counted
  <2>2. ASSUME NEW i \in Positions, i > 1, events[i].thread = t
        PROVE  FALSE
    <3>1. PICK j \in Positions: Is(j, "completed", t)
      BY <2>1, <2>2 DEF IInv, OrderInv, Posted
    <3>2. j # 1
      BY <1>2, <2>2, <3>1 DEF IInv, OrderInv, Is
    <3>3. j - 1 \in Positions' /\ events'[j - 1] = events[j]
      BY <1>1, <3>2
    <3>4. QED
      BY <2>1, <3>1, <3>3 DEF Posted, Is
  <2>3. QED
    BY <2>1, <2>2
\* Whose start is in the queue began after the thread whose end is handled.
<1>7. ASSUME NEW i \in Positions, events[i].type = "started"
      PROVE  LET t == events[i].thread
             IN  /\ pc[t] \notin Executing
                 /\ pc[t] = "check" => stopped
                 /\ \A k \in Positions:
                      events[k].thread = t =>
                        events[k].type \in {"started", "completed"}
  <2>1. 1 < i
    BY <1>1, <1>2, <1>7
  <2>2. QED
    BY <1>2, <1>7, <2>1 DEF IInv, LateInv
<1>8. ASSUME NEW t \in Threads
      PROVE  pc[t] \notin Executing /\ (pc[t] = "check" => stopped)
  <2>1. CASE t \in progressBars
    BY <1>6, <2>1 DEF Executing
  <2>2. CASE t \notin progressBars /\ pc[t] = "ready"
    BY <2>2 DEF Executing
  <2>3. CASE Posted("started", t)
    BY <1>7, <2>3 DEF Posted, Is
  <2>4. QED
    BY <2>1, <2>2, <2>3 DEF IInv, BarInv
<1>9. ASSUME NEW i \in Positions'
      PROVE  events'[i].type \in {"started", "completed"}
  <2>1. /\ i + 1 \in Positions /\ i + 1 > 1
        /\ events'[i] = events[i + 1]
    BY <1>1
  <2>2. CASE events[i + 1].type # "started"
    <3>1. PICK t \in Threads: t = events[i + 1].thread
      BY <1>2, <2>1
    <3>2. t \notin progressBars
      BY <1>6, <2>1, <3>1
    <3>3. PICK j \in Positions: Is(j, "started", t)
      BY <1>1, <2>1, <2>2, <3>1, <3>2 DEF IInv, SourceInv
    <3>4. QED
      BY <1>7, <2>1, <3>1, <3>3 DEF Is
  <2>3. QED
    BY <2>1, <2>2
<1>10. QED
  BY <1>5, <1>8, <1>9

\* Handling an event keeps the invariant.
LEMMA EventStep ==
  ASSUME IInv, HandleEvent
  PROVE  IInv'
<1> DEFINE n == Len(events) - 1
           e == Head(events)
<1>1. /\ n \in Nat
      /\ Positions = 1 .. n + 1
      /\ Positions' = 1 .. n
      /\ e = events[1]
      /\ \A i \in Positions': i + 1 \in Positions /\ events'[i] = events[i + 1]
      /\ events' \in Seq(Event)
  <2>1. events \in Seq(Event) /\ events # <<>> /\ events' = Tail(events)
    BY DEF IInv, TypeOK, HandleEvent
  <2>2. QED
    BY <2>1, TakeShifts DEF Positions
<1>2. e.type \in Types /\ e.thread \in Threads /\ e.value \in Nat
  BY <1>1, EventType DEF IInv, TypeOK
<1>3. /\ closed = "no"
      /\ \/ ThreadStarted(e) \/ ThreadThinking(e) \/ ThreadInitialized(e)
         \/ ThreadProgress(e) \/ ThreadMessage(e) \/ ThreadCompleted(e)
      /\ UNCHANGED modelVars
  BY DEF HandleEvent
<1> HIDE DEF e, n
<1>4. progressBars' = IF e.type = "started"
                      THEN progressBars \union {e.thread} ELSE progressBars
  BY <1>3
  DEF ThreadStarted, ThreadThinking, ThreadInitialized, ThreadProgress,
      ThreadMessage, ThreadCompleted, windowVars
<1>5. BarInv' /\ SourceInv' /\ OrderInv' /\ LateInv'
  BY <1>4, QueueStep DEF e
<1>6. CountInv' /\ activeThreadCount' \in 0 .. Cardinality(Threads)
  BY CountStep
<1>7. LeaveInv' /\ TaskInv'
  BY <1>3 DEF modelVars, IInv, LeaveInv, TaskInv
<1>8. TypeOK'
  <2>1. threadValues' \in [Threads -> Nat] /\ currentValue' \in Int
    <3>1. threadValues[e.thread] \in Nat
      BY <1>2 DEF IInv, TypeOK
    <3>2. CASE ThreadProgress(e)
      <4>1. currentValue' = currentValue + (e.value - threadValues[e.thread])
        BY <3>2 DEF ThreadProgress
      <4>2. threadValues' = [threadValues EXCEPT ![e.thread] = e.value]
        BY <3>2 DEF ThreadProgress
      <4>3. currentValue' \in Int
        BY <1>2, <3>1, <4>1 DEF IInv, TypeOK
      <4>4. threadValues' \in [Threads -> Nat]
        BY <1>2, <4>2 DEF IInv, TypeOK
      <4>5. QED
        BY <4>3, <4>4
    <3>3. CASE ~ThreadProgress(e)
      BY <1>3, <3>3
      DEF IInv, TypeOK, ThreadStarted, ThreadThinking, ThreadInitialized,
          ThreadMessage, ThreadCompleted, taskbarVars
    <3>4. QED
      BY <3>2, <3>3
  <2>2. maxValue' \in Nat
    BY <1>2, <1>3
    DEF IInv, TypeOK, ThreadStarted, ThreadThinking, ThreadInitialized,
        ThreadProgress, ThreadMessage, ThreadCompleted, taskbarVars
  <2>3. /\ log' \in BOOLEAN /\ taskbar' \in BOOLEAN
    BY <1>3
    DEF IInv, TypeOK, ThreadStarted, ThreadThinking, ThreadInitialized,
        ThreadProgress, ThreadMessage, ThreadCompleted, windowVars
  <2>4. /\ button' \in {"Cancel", "disabled", "Close"}
        /\ closed' \in {"no", "itself", "user"}
    BY <1>3
    DEF IInv, TypeOK, ThreadStarted, ThreadThinking, ThreadInitialized,
        ThreadProgress, ThreadMessage, ThreadCompleted, windowVars
  <2>5. progressBars' \subseteq Threads
    BY <1>2, <1>4 DEF IInv, TypeOK
  <2>6. QED
    BY <1>1, <1>3, <1>6, <2>1, <2>2, <2>3, <2>4, <2>5
    DEF IInv, TypeOK, modelVars
<1>9. CloseInv'
  <2>1. CASE e.type = "completed" /\ activeThreadCount' = 0
    <3>1. /\ taskbar' = FALSE /\ button' = "Close" /\ UNCHANGED log
          /\ closed' \in IF log THEN {"no"} ELSE {"no", "itself"}
      BY <1>3, <2>1
      DEF ThreadStarted, ThreadThinking, ThreadInitialized, ThreadProgress,
          ThreadMessage, ThreadCompleted
    <3>2. /\ \A t \in Threads: pc[t] \notin Executing
          /\ stopped \/ (tasks = {} /\ \A t \in Threads: pc[t] # "check")
          /\ \A i \in Positions': events'[i].type \in {"started", "completed"}
      BY <1>6, <2>1, NobodyIsBusy DEF e
    <3>3. QED
      BY <1>3, <3>1, <3>2 DEF CloseInv, modelVars
  <2>2. CASE ~(e.type = "completed" /\ activeThreadCount' = 0)
    <3>1. UNCHANGED <<button, taskbar, closed>>
      BY <1>3, <2>2
      DEF ThreadStarted, ThreadThinking, ThreadInitialized, ThreadProgress,
          ThreadMessage, ThreadCompleted, windowVars
    <3>2. QED
      BY <1>1, <1>3, <3>1 DEF IInv, CloseInv, modelVars
  <2>3. QED
    BY <2>1, <2>2
<1>10. QED
  BY <1>5, <1>6, <1>7, <1>8, <1>9 DEF IInv

\* The buttons leave the queue and the threads alone.
LEMMA ButtonStep ==
  ASSUME IInv, ClickCancel \/ ClickClose
  PROVE  IInv'
<1>1. /\ UNCHANGED <<tasks, pc, task, units, events, activeThreadCount,
                     progressBars, log, taskbar, taskbarVars>>
      /\ stopped' \in BOOLEAN /\ (stopped => stopped')
      /\ button' \in {"Cancel", "disabled", "Close"}
      /\ closed' \in {"no", "itself", "user"}
      /\ closed' = "itself" => closed = "itself"
  BY DEF ClickCancel, ClickClose, modelVars, taskbarVars, IInv, TypeOK
<1>2. TypeOK' /\ TaskInv'
  BY <1>1 DEF IInv, TypeOK, TaskInv, taskbarVars
<1>3. Positions' = Positions /\ events' = events
  BY <1>1 DEF Positions
<1>4. \A type, t: Posted(type, t)' <=> Posted(type, t)
  BY <1>3 DEF Posted, Is
<1>5. BarInv' /\ OrderInv'
  BY <1>1, <1>3, <1>4 DEF IInv, BarInv, OrderInv
<1>6. SourceInv' /\ LateInv' /\ LeaveInv'
  BY <1>1, <1>3 DEF IInv, SourceInv, LateInv, LeaveInv, Is
<1>7. CountInv'
  <2>1. Counted' = Counted
    BY <1>1, <1>4 DEF Counted
  <2>2. QED
    BY <1>1, <2>1 DEF IInv, CountInv
<1>8. CloseInv'
  <2>1. /\ button' = "Close" => button = "Close"
        /\ button = "Close" => button' = "Close"
    BY DEF ClickCancel, ClickClose
  <2>2. QED
    BY <1>1, <1>3, <2>1 DEF IInv, CloseInv
<1>9. QED
  BY <1>2, <1>5, <1>6, <1>7, <1>8 DEF IInv

-----------------------------------------------------------------------------
(* The theorems. *)

\* The invariant holds in every state of every behaviour.
LEMMA Invariance == Spec => []IInv
<1>1. IInv /\ [Next]_vars => IInv'
  <2> SUFFICES ASSUME IInv, [Next]_vars PROVE IInv'
    OBVIOUS
  <2>1. CASE UNCHANGED vars
    <3>1. UNCHANGED <<tasks, stopped, pc, task, units, events,
                      activeThreadCount, progressBars, log, button, taskbar,
                      closed, maxValue, currentValue, threadValues>>
      BY <2>1 DEF vars, modelVars, windowVars, taskbarVars
    <3>2. QED
      BY <3>1
      DEF IInv, TypeOK, TaskInv, BarInv, SourceInv, OrderInv, CountInv,
          LeaveInv, LateInv, CloseInv, Counted, Posted, Is, Positions
  <2>2. QED
    BY <2>1, ThreadStep, EventStep, ButtonStep DEF Next
<1>2. QED
  BY InitIInv, <1>1, PTL DEF Spec

\* The types hold for any tasks and any number of threads; the count of
\* active threads never goes below zero.
THEOREM TaskTypesCorrect == Spec => []TypeOK
<1>1. IInv => TypeOK
  BY DEF IInv
<1>2. QED
  BY Invariance, <1>1, PTL

\* Close is offered, and the window closes itself, when the work is over.
THEOREM CloseComesLast == Spec => []CloseMeansDone
<1>1. IInv => CloseMeansDone
  BY DEF IInv, CloseInv, CloseMeansDone
<1>2. QED
  BY Invariance, <1>1, PTL

\* A report that is handled finds the taskbar and the thread's bar there.
THEOREM ReportsAreShown == Spec => []ReportsFindTheirBars
<1>1. IInv => ReportsFindTheirBars
  <2> SUFFICES ASSUME IInv, events # <<>>
               PROVE  /\ events[1].type \in {"thinking", "initialized", "progress"}
                           => taskbar
                      /\ events[1].type # "started" =>
                           events[1].thread \in progressBars
    BY DEF ReportsFindTheirBars
  <2>1. 1 \in Positions
    BY DEF IInv, TypeOK, Positions
  <2>2. QED
    BY <2>1 DEF IInv, SourceInv, CloseInv
<1>2. QED
  BY Invariance, <1>1, PTL

\* A window that closes itself had no message, and gets none afterwards.
THEOREM MessagesAreSeen == Spec => []NoMessageLost
<1>1. IInv => NoMessageLost
  BY DEF IInv, CloseInv, NoMessageLost, Positions
<1>2. QED
  BY Invariance, <1>1, PTL

=============================================================================
