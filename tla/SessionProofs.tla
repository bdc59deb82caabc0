---------------------------- MODULE SessionProofs ----------------------------
(***************************************************************************)
(* Safety of a session's control and shutdown, for every set of strategies *)
(* beside arb, every command line, channel bound and set of tasks that may *)
(* panic; and, at the end, of the start-up that comes before it, for every *)
(* listing, configuration and number of launches.                          *)
(***************************************************************************)
EXTENDS Session, Startup, FiniteSums, TLAPS

USE SessionAssumption
USE DEF SessionAssumption

LEMMA Bounds ==
  /\ OppCap \in Nat /\ JobCap \in Nat /\ Workers \in Nat /\ StoreCap \in Nat
  /\ CtlCap \in Nat /\ TuiCap \in Nat /\ MaxKeys \in Nat /\ LateKeys \in Nat
  /\ MaxEpochs \in Nat
OBVIOUS

LEMMA Three ==
  ASSUME NEW S, NEW a \in S, NEW b \in S, NEW c \in S
  PROVE  <<a, b, c>> \in Seq(S)
OBVIOUS

-----------------------------------------------------------------------------
(* Type correctness, one group of variables at a time.  The last step of   *)
(* each lemma is about the actions that leave the group alone.             *)

LEMMA ProcessStep == TypeOK /\ [Next]_vars => ProcessOK'
<1> SUFFICES ASSUME TypeOK, [Next]_vars PROVE ProcessOK'
  OBVIOUS
<1> USE DEF ProcessOK
<1>1. CASE Start
  BY <1>1 DEF Start, TypeOK
<1>2. CASE TakeCommand
  BY <1>2 DEF TakeCommand, TypeOK
<1>3. CASE Reexec
  <2>1. epoch < MaxEpochs /\ epoch \in 0..MaxEpochs
    BY <1>3 DEF Reexec, TypeOK, MainOK
  <2>2. QED
    BY <1>3, <2>1 DEF Reexec, TypeOK
<1>4. CASE UNCHANGED process
  BY <1>4 DEF TypeOK, process
<1>5. QED
  BY <1>1, <1>2, <1>3, <1>4
     DEF Next, Pool, Coordinate, Executor, Loop, Writer, Screen, Main, Refuse, Emit, AskSolve,
         StartSolve, FinishSolve, LpEnds, TakeOpp, TakeReport, CoordEnds, HandleCtl, Execute,
         ExecEnds, Forward, ArbStep, Tick, Obey, LoopEnds, Panic, Write, WriterEnds, Publish,
         Press, SendKey, TuiEnds, KillSwitch, NoticeKill, Finish, Send, AbortFeed, Join,
         AwaitWriter, Exit, vars, process

LEMMA MainStep == TypeOK /\ [Next]_vars => MainOK'
<1> SUFFICES ASSUME TypeOK, [Next]_vars PROVE MainOK'
  OBVIOUS
<1> USE DEF MainOK
<1>1. CASE Start
  BY <1>1 DEF Start, TypeOK, MainState, ProcessOK, Released, Mode
<1>2. CASE Refuse
  BY <1>2 DEF Refuse, TypeOK, MainState, process
<1>3. CASE NoticeKill
  BY <1>3 DEF NoticeKill, TypeOK, MainState, Stop
<1>4. CASE Finish
  BY <1>4 DEF Finish, TypeOK, MainState, Stop, process
<1>5. CASE TakeCommand
  <2>1. Head(tui.queue) \in Command /\ main \in MainState
    BY <1>5 DEF TakeCommand, TypeOK, ScreenOK
  <2>2. ASSUME NEW c \in {"pause", "resume", "golive"}
        PROVE  Sends(c) \in Seq(Errand) /\ Sends(c) # <<>>
    <3>1. /\ \A n \in {"arb", "live", "mm", "copy"}, m \in Message : To(n, m) \in Errand
          /\ To("main", "released") \in Errand
          /\ {"pause", "resume", "release"} = Message
      BY DEF Errand, To, Message
    <3>2. QED
      BY <3>1 DEF Sends
  <2>3. QED
    BY <1>5, <2>1, <2>2, ZenonT(20) DEF TakeCommand, TypeOK, MainState, Stop, Command, process
<1>6. CASE Send
  <2>1. main.todo \in Seq(Errand) /\ main.todo # <<>> /\ main \in MainState
    BY <1>6 DEF Send, TypeOK, MainState
  <2> HIDE DEF MainOK
  <2>2. Tail(main.todo) \in Seq(Errand) /\ (Len(main.todo) # 1 => Tail(main.todo) # <<>>)
    <3>1. /\ Tail(main.todo) \in Seq(Errand) /\ Len(main.todo) >= 1
          /\ Len(Tail(main.todo)) = Len(main.todo) - 1
      BY <2>1
    <3>2. Len(main.todo) \in Nat /\ Len(<<>>) = 0
      BY <2>1
    <3>3. Len(main.todo) # 1 => Len(Tail(main.todo)) # Len(<<>>)
      BY <3>1, <3>2
    <3>4. QED
      BY <3>1, <3>3
  <2>3. main' = [main EXCEPT !.todo = Tail(@),
                             !.pc = IF Len(main.todo) = 1 THEN "run" ELSE "send",
                             !.released = @ \/ Head(main.todo).to = "main"]
        /\ epoch' = epoch
    BY <1>6 DEF Send, process
  <2>4. main' \in MainState
    BY <2>1, <2>2, <2>3 DEF MainState
  <2>5. main'.trigger = main.trigger /\ main'.todo = Tail(main.todo)
        /\ (main'.pc = "send" => Len(main.todo) # 1)
    BY <2>1, <2>3 DEF MainState
  <2>6. QED
    BY <2>2, <2>3, <2>4, <2>5 DEF TypeOK, MainOK
<1>7. CASE AbortFeed
  BY <1>7 DEF AbortFeed, TypeOK, MainState, process
<1>8. CASE Join
  BY <1>8 DEF Join, TypeOK, MainState, process
<1>9. CASE AwaitWriter
  BY <1>9 DEF AwaitWriter, TypeOK, MainState, process
<1>10. CASE Exit
  BY <1>10 DEF Exit, TypeOK, MainState, process
<1>11. CASE Reexec
  BY <1>11 DEF Reexec, TypeOK, MainState, Resumes, ProcessOK, Mode
<1>12. CASE UNCHANGED <<main, epoch>>
  BY <1>12 DEF TypeOK
<1>13. QED
  BY <1>1, <1>2, <1>3, <1>4, <1>5, <1>6, <1>7, <1>8, <1>9, <1>10, <1>11, <1>12
     DEF Next, Pool, Coordinate, Executor, Loop, Writer, Screen, Main, Emit, AskSolve,
         StartSolve, FinishSolve, LpEnds, TakeOpp, TakeReport, CoordEnds, HandleCtl,
         Execute, ExecEnds, Forward, ArbStep, Tick, Obey, LoopEnds, Panic, Write,
         WriterEnds, Publish, Press, SendKey, TuiEnds, KillSwitch, vars, process,
         pipeline, operator

LEMMA TasksStep == TypeOK /\ [Next]_vars => TasksOK'
<1> SUFFICES ASSUME TypeOK, [Next]_vars PROVE TasksOK'
  OBVIOUS
<1> USE DEF TasksOK
<1>1. CASE Start
  BY <1>1 DEF Start, TypeOK, Up, End, pipeline, Task
<1>2. CASE LpEnds
  BY <1>2 DEF LpEnds, TypeOK, Up, End, pipeline, Task
<1>3. CASE TakeOpp
  BY <1>3 DEF TakeOpp, TypeOK, Up, End, pipeline, Task
<1>4. CASE TakeReport
  BY <1>4 DEF TakeReport, TypeOK, Up, End, pipeline, Task
<1>5. CASE CoordEnds
  BY <1>5 DEF CoordEnds, TypeOK, Up, End, pipeline, Task
<1>6. CASE Execute
  BY <1>6 DEF Execute, TypeOK, Up, End, pipeline, Task
<1>7. CASE ExecEnds
  BY <1>7 DEF ExecEnds, TypeOK, Up, End, pipeline, Task
<1>8. CASE Forward
  BY <1>8 DEF Forward, TypeOK, Up, End, pipeline, Task
<1>9. CASE ArbStep
  BY <1>9 DEF ArbStep, TypeOK, Up, End, pipeline, Task
<1>10. CASE \E s \in Loops : LoopEnds(s)
  BY <1>10 DEF LoopEnds, TypeOK, Up, End, pipeline, Task
<1>11. CASE \E t \in MayPanic : Panic(t)
  BY <1>11 DEF Panic, TypeOK, Up, End, pipeline, Task
<1>12. CASE WriterEnds
  BY <1>12 DEF WriterEnds, TypeOK, Up, End, pipeline, Task
<1>13. CASE Publish
  BY <1>13 DEF Publish, TypeOK, Up, End, pipeline, Task
<1>14. CASE AbortFeed
  BY <1>14 DEF AbortFeed, TypeOK, Up, End, pipeline, Task
<1>15. CASE Reexec
  BY <1>15 DEF Reexec, TypeOK, Up, End, pipeline, Task
<1>16. CASE UNCHANGED <<task, awaits, basket>>
  BY <1>16 DEF TypeOK
<1>17. QED
  BY <1>1, <1>2, <1>3, <1>4, <1>5, <1>6, <1>7, <1>8, <1>9, <1>10, <1>11, <1>12, <1>13,
     <1>14, <1>15, <1>16
     DEF Next, Pool, Coordinate, Executor, Loop, Writer, Screen, Main, Refuse, Emit,
         AskSolve, StartSolve, FinishSolve, HandleCtl, Tick, Obey, Write, Press,
         SendKey, TuiEnds, KillSwitch, NoticeKill, Finish, TakeCommand, Send, Join,
         AwaitWriter, Exit, vars, process, pipeline, operator

LEMMA CountersStep == TypeOK /\ [Next]_vars => CountersOK'
<1> SUFFICES ASSUME TypeOK, [Next]_vars PROVE CountersOK'
  OBVIOUS
<1> USE DEF CountersOK
<1>1. CASE Emit
  BY <1>1 DEF Emit, TypeOK, pipeline
<1>2. CASE AskSolve
  BY <1>2 DEF AskSolve, TypeOK, pipeline
<1>3. CASE StartSolve
  BY <1>3 DEF StartSolve, TypeOK, pipeline
<1>4. CASE FinishSolve
  BY <1>4 DEF FinishSolve, TypeOK, pipeline
<1>5. CASE TakeOpp
  BY <1>5 DEF TakeOpp, TypeOK, pipeline
<1>6. CASE \E t \in MayPanic : Panic(t)
  BY <1>6 DEF Panic, TypeOK, pipeline
<1>7. CASE Reexec
  BY <1>7 DEF Reexec, TypeOK, pipeline
<1>8. CASE UNCHANGED <<opps, jobs, solves>>
  BY <1>8 DEF TypeOK
<1>9. QED
  BY <1>1, <1>2, <1>3, <1>4, <1>5, <1>6, <1>7, <1>8
     DEF Next, Pool, Coordinate, Executor, Loop, Writer, Screen, Main, Start, Refuse,
         LpEnds, TakeReport, CoordEnds, HandleCtl, Execute, ExecEnds, Forward, ArbStep,
         Tick, Obey, LoopEnds, Write, WriterEnds, Publish, Press, SendKey, TuiEnds,
         KillSwitch, NoticeKill, Finish, TakeCommand, Send, AbortFeed, Join, AwaitWriter,
         Exit, vars, process, pipeline, operator

LEMMA StoreStep == TypeOK /\ [Next]_vars => StoreOK'
<1> SUFFICES ASSUME TypeOK, [Next]_vars PROVE StoreOK'
  OBVIOUS
<1> USE DEF StoreOK
<1>1. ASSUME rows' = Queued, UNCHANGED <<days, lost>> PROVE StoreOK'
  BY <1>1 DEF Queued, TypeOK
<1>2. CASE TakeOpp
  BY <1>1, <1>2 DEF TakeOpp, TypeOK, written
<1>3. CASE CoordEnds
  BY <1>1, <1>3 DEF CoordEnds, written
<1>4. CASE Execute
  BY <1>1, <1>4 DEF Execute, written
<1>5. CASE \E s \in Loops : Tick(s)
  BY <1>5 DEF Tick, TypeOK
<1>6. CASE Write
  <2>1. /\ \/ rows > 0 /\ rows' = rows - 1 /\ days' = days
           \/ days > 0 /\ days' = days - 1 /\ rows' = rows
        /\ lost' \subseteq lost \cup {"row", "day"}
    BY <1>6, Zenon DEF Write
  <2>2. rows \in Nat /\ days \in Nat /\ rows + days <= StoreCap /\ lost \subseteq {"row", "day"}
    BY DEF TypeOK
  <2>3. QED
    BY <2>1, <2>2
<1>7. CASE Reexec
  BY <1>7 DEF Reexec, TypeOK
<1>8. CASE UNCHANGED store
  BY <1>8 DEF TypeOK, store
<1>9. QED
  BY <1>2, <1>3, <1>4, <1>5, <1>6, <1>7, <1>8
     DEF Next, Pool, Coordinate, Executor, Loop, Writer, Screen, Main, Start, Refuse, Emit,
         AskSolve, StartSolve, FinishSolve, LpEnds, TakeReport, HandleCtl, ExecEnds,
         Forward, ArbStep, Obey, LoopEnds, Panic, WriterEnds, Publish, Press, SendKey,
         TuiEnds, KillSwitch, NoticeKill, Finish, TakeCommand, Send, AbortFeed, Join,
         AwaitWriter, Exit, vars, store

LEMMA InboxStep == TypeOK /\ [Next]_vars => InboxOK'
<1> SUFFICES ASSUME TypeOK, [Next]_vars PROVE InboxOK'
  OBVIOUS
<1> USE DEF InboxOK
<1>1. CASE HandleCtl
  <2>1. /\ inbox["coord"] \in Seq(Message) /\ inbox["coord"] # <<>> /\ "coord" \in Inbox
        /\ Len(inbox["coord"]) <= CtlCap
    BY <1>1 DEF HandleCtl, TypeOK, Inbox
  <2>2. Tail(inbox["coord"]) \in Seq(Message) /\ Len(Tail(inbox["coord"])) <= CtlCap
    BY <2>1, Bounds
  <2>3. inbox' = [inbox EXCEPT !["coord"] = Tail(@)]
    BY <1>1 DEF HandleCtl
  <2>4. QED
    BY <2>1, <2>2, <2>3 DEF TypeOK
<1>2. CASE \E s \in Loops : Obey(s)
  <2>1. PICK s \in Loops : Obey(s)
    BY <1>2
  <2>2. inbox[s] \in Seq(Message) /\ inbox[s] # <<>> /\ s \in Inbox
    BY <2>1 DEF Obey, TypeOK, Inbox
  <2>3. Tail(inbox[s]) \in Seq(Message) /\ Len(Tail(inbox[s])) <= Len(inbox[s])
    BY <2>2
  <2>4. inbox' = [inbox EXCEPT ![s] = Tail(@)]
    BY <2>1 DEF Obey
  <2>5. QED
    BY <2>2, <2>3, <2>4 DEF TypeOK
<1>3. CASE Forward
  <2>1. PICK i \in {"arb", "live"} :
          /\ inbox[i] # <<>>
          /\ \/ /\ Len(inbox["coord"]) < CtlCap
                /\ inbox' = [inbox EXCEPT ![i] = Tail(@),
                                          !["coord"] = Append(@, Head(inbox[i]))]
             \/ UNCHANGED inbox
    BY <1>3 DEF Forward
  <2>2. /\ inbox[i] \in Seq(Message) /\ inbox["coord"] \in Seq(Message)
        /\ i \in Inbox /\ "coord" \in Inbox /\ i # "coord"
    BY DEF TypeOK, Inbox
  <2>3. /\ Tail(inbox[i]) \in Seq(Message) /\ Len(Tail(inbox[i])) <= Len(inbox[i])
        /\ Append(inbox["coord"], Head(inbox[i])) \in Seq(Message)
        /\ Len(Append(inbox["coord"], Head(inbox[i]))) = Len(inbox["coord"]) + 1
    BY <2>1, <2>2
  <2>4. CASE UNCHANGED inbox
    BY <2>4 DEF TypeOK
  <2>5. CASE Len(inbox["coord"]) < CtlCap /\ inbox' # inbox
    <3>1. Len(inbox["coord"]) + 1 <= CtlCap
      BY <2>2, <2>5
    <3> DEFINE taken == [inbox EXCEPT ![i] = Tail(@)]
               given == Append(inbox["coord"], Head(inbox[i]))
    <3>2. taken["coord"] = inbox["coord"] /\ taken \in [Inbox -> Seq(Message)]
      BY <2>2, <2>3 DEF TypeOK
    <3>3. \A b \in Inbox : Len(taken[b]) <= CtlCap
      <4>1. Len(inbox[i]) <= CtlCap /\ Len(inbox[i]) \in Nat /\ Len(Tail(inbox[i])) \in Nat
        BY <2>2, <2>3 DEF TypeOK
      <4>2. QED
        BY <2>2, <2>3, <4>1, Bounds DEF TypeOK
    <3>4. inbox' = [taken EXCEPT !["coord"] = given]
      BY <2>1, <2>2, <2>5, <3>2
    <3> HIDE DEF taken, given
    <3>5. given \in Seq(Message) /\ Len(given) <= CtlCap
      BY <2>3, <3>1 DEF given
    <3>6. QED
      BY <2>2, <3>2, <3>3, <3>4, <3>5 DEF TypeOK
  <2>6. QED
    BY <2>1, <2>4, <2>5
<1>4. CASE Send
  <2> DEFINE e == Head(main.todo)
  <2>1. e \in Errand
    BY <1>4 DEF Send, TypeOK, MainOK, MainState
  <2>2. CASE ~Reachable(e.to)
    BY <1>4, <2>2 DEF Send, TypeOK
  <2>3. CASE Reachable(e.to)
    <3>1. e.to \in {"arb", "live"} \cup Loops /\ e.to # "main"
      BY <2>3 DEF Reachable, Present
    <3>2. e.msg \in Message /\ e.to \in Inbox
      BY <2>1, <3>1 DEF Errand, To, Inbox
    <3>3. Len(inbox[e.to]) < CtlCap /\ inbox' = [inbox EXCEPT ![e.to] = Append(@, e.msg)]
      BY <1>4, <2>3 DEF Send
    <3>4. /\ Append(inbox[e.to], e.msg) \in Seq(Message)
          /\ Len(Append(inbox[e.to], e.msg)) <= CtlCap
      <4>1. inbox[e.to] \in Seq(Message)
        BY <3>2 DEF TypeOK
      <4>2. QED
        BY <3>2, <3>3, <4>1
    <3>5. QED
      BY <3>2, <3>3, <3>4 DEF TypeOK
  <2>4. QED
    BY <2>2, <2>3
<1>5. CASE Reexec
  BY <1>5 DEF Reexec, TypeOK
<1>6. CASE UNCHANGED inbox
  BY <1>6 DEF TypeOK
<1>7. QED
  BY <1>1, <1>2, <1>3, <1>4, <1>5, <1>6
     DEF Next, Pool, Coordinate, Executor, Loop, Writer, Screen, Main, Start, Refuse,
         Emit, AskSolve, StartSolve, FinishSolve, LpEnds, TakeOpp, TakeReport,
         CoordEnds, Execute, ExecEnds, ArbStep, Tick, LoopEnds, Panic, Write,
         WriterEnds, Publish, Press, SendKey, TuiEnds, KillSwitch, NoticeKill, Finish,
         TakeCommand, AbortFeed, Join, AwaitWriter, Exit, vars, process, pipeline,
         operator

LEMMA LatchesStep == TypeOK /\ [Next]_vars => LatchesOK'
<1> SUFFICES ASSUME TypeOK, [Next]_vars PROVE LatchesOK'
  OBVIOUS
<1> USE DEF LatchesOK
<1>1. CASE Start
  <2>1. Released(mode, main.released) \in BOOLEAN
    BY DEF TypeOK, ProcessOK, Mode, MainOK, MainState, Released
  <2>2. QED
    BY <1>1, <2>1 DEF Start, TypeOK, atVenue, store, written
<1>2. CASE HandleCtl
  BY <1>2 DEF HandleCtl, TypeOK, ProcessOK, Mode, atVenue, store
<1>3. CASE \E s \in Loops : Tick(s)
  BY <1>3 DEF Tick, TypeOK, ProcessOK, Mode
<1>4. CASE \E s \in Loops : Obey(s)
  <2>1. PICK s \in Loops : Obey(s)
    BY <1>4
  <2>2. UNCHANGED <<released, kill, failed>> /\ paused' \in [{"arb"} \cup Loops -> BOOLEAN]
    BY <2>1 DEF Obey, TypeOK, store
  <2>3. resting' \in BOOLEAN /\ stuck' \in BOOLEAN
    BY <2>1 DEF Obey, CancelAll, TypeOK, atVenue
  <2>4. QED
    BY <2>2, <2>3 DEF TypeOK
<1>5. CASE \E s \in Loops : LoopEnds(s)
  <2>1. UNCHANGED <<paused, released, kill, failed>> /\ resting' \in BOOLEAN /\ stuck' \in BOOLEAN
    BY <1>5 DEF LoopEnds, CancelAll, TypeOK, atVenue, store
  <2>2. QED
    BY <2>1 DEF TypeOK
<1>6. CASE Write
  BY <1>6 DEF Write, TypeOK, ProcessOK, Mode, atVenue
<1>7. CASE KillSwitch
  BY <1>7 DEF KillSwitch, TypeOK, ProcessOK, Mode, atVenue, store
<1>8. CASE TakeCommand
  BY <1>8 DEF TakeCommand, TypeOK, ProcessOK, Mode, atVenue, store
<1>9. CASE Reexec
  BY <1>9 DEF Reexec, TypeOK, ProcessOK, Mode
<1>10. CASE UNCHANGED <<paused, released, atVenue, kill, failed>>
  BY <1>10 DEF TypeOK, atVenue
<1>11. QED
  BY <1>1, <1>2, <1>3, <1>4, <1>5, <1>6, <1>7, <1>8, <1>9, <1>10
     DEF store, written, Next, Pool, Coordinate, Executor, Loop, Writer, Screen, Main,
         Refuse, Emit, AskSolve, StartSolve, FinishSolve, LpEnds, TakeOpp, TakeReport, CoordEnds,
         Execute, ExecEnds, Forward, ArbStep, Panic, WriterEnds, Publish, Press,
         SendKey, TuiEnds, NoticeKill, Finish, Send, AbortFeed, Join, AwaitWriter, Exit,
         vars, process, pipeline, operator, atVenue

LEMMA ScreenStep == TypeOK /\ [Next]_vars => ScreenOK'
<1> SUFFICES ASSUME TypeOK, [Next]_vars PROVE ScreenOK'
  OBVIOUS
<1> USE DEF ScreenOK
<1>1. CASE Start
  <2>1. tui' = [tui EXCEPT !.pc = IF mode.tui THEN "on" ELSE "off"] /\ UNCHANGED <<shown, keys>>
    BY <1>1 DEF Start
  <2>2. QED
    BY <2>1 DEF TypeOK
<1>2. CASE Publish
  <2>1. shown' \in BOOLEAN /\ UNCHANGED <<tui, keys>>
    BY <1>2 DEF Publish, TypeOK
  <2>2. QED
    BY <2>1 DEF TypeOK
<1>3. CASE Press
  <2>1. keys' \in 0..(MaxKeys + LateKeys) /\ shown' = shown
    BY <1>3, Bounds DEF Press, TypeOK
  <2>2. PICK c \in Command : tui' = [tui EXCEPT !.pc = "sending", !.key = c]
    BY <1>3 DEF Press, Command
  <2>3. QED
    BY <2>1, <2>2 DEF TypeOK, Command
<1>4. CASE SendKey
  <2>1. tui.queue \in Seq(Command) /\ tui.key \in Command /\ Len(tui.queue) < TuiCap
    BY <1>4 DEF SendKey, TypeOK
  <2>2. /\ Append(tui.queue, tui.key) \in Seq(Command)
        /\ Len(Append(tui.queue, tui.key)) <= TuiCap
    BY <2>1
  <2>3. tui' = [pc |-> IF tui.key = "quit" THEN "off" ELSE "on",
                queue |-> Append(tui.queue, tui.key), key |-> "none"]
        /\ UNCHANGED <<shown, keys>>
    BY <1>4 DEF SendKey
  <2>4. QED
    BY <2>2, <2>3 DEF TypeOK
<1>5. CASE TuiEnds
  BY <1>5 DEF TuiEnds, TypeOK, ProcessOK
<1>6. CASE TakeCommand
  <2>1. tui.queue \in Seq(Command) /\ tui.queue # <<>> /\ Len(tui.queue) <= TuiCap
    BY <1>6 DEF TakeCommand, TypeOK
  <2>2. Tail(tui.queue) \in Seq(Command) /\ Len(Tail(tui.queue)) <= TuiCap
    BY <2>1
  <2>3. tui' = [tui EXCEPT !.queue = Tail(@)] /\ UNCHANGED <<shown, keys>>
    BY <1>6 DEF TakeCommand
  <2>4. QED
    BY <2>2, <2>3 DEF TypeOK
<1>7. CASE Reexec
  <2>1. tui' = [tui EXCEPT !.queue = <<>>] /\ shown' = FALSE /\ keys' = keys /\ tui.pc = "off"
    BY <1>7 DEF Reexec
  <2>2. <<>> \in Seq(Command) /\ Len(<<>>) <= TuiCap
    BY Bounds
  <2>3. QED
    BY <2>1, <2>2 DEF TypeOK
<1>8. CASE UNCHANGED <<tui, shown, keys>>
  BY <1>8 DEF TypeOK
<1>9. QED
  BY <1>1, <1>2, <1>3, <1>4, <1>5, <1>6, <1>7, <1>8
     DEF Next, Pool, Coordinate, Executor, Loop, Writer, Screen, Main, Refuse, Emit,
         AskSolve, StartSolve, FinishSolve, LpEnds, TakeOpp, TakeReport, CoordEnds,
         HandleCtl, Execute, ExecEnds, Forward, ArbStep, Tick, Obey, LoopEnds, Panic,
         Write, WriterEnds, KillSwitch, NoticeKill, Finish, Send, AbortFeed, Join,
         AwaitWriter, Exit, vars, process, pipeline, operator

LEMMA InitTyped == Init => TypeOK
<1> SUFFICES ASSUME Init PROVE TypeOK
  OBVIOUS
<1> USE DEF Init
<1>1. ProcessOK /\ CountersOK
  <2>1. /\ 0 \in 0..OppCap /\ 0 \in 0..JobCap /\ 0 \in 0..Workers
        /\ 0 \in 0..MaxEpochs
    BY Bounds
  <2>2. QED
    BY <2>1 DEF ProcessOK, CountersOK
<1>2. MainOK
  BY DEF MainOK, MainState
<1>3. TasksOK /\ LatchesOK /\ StoreOK
  <2>1. TasksOK
    BY DEF TasksOK
  <2>2. LatchesOK
    BY Zenon DEF LatchesOK
  <2>3. StoreOK
    BY Bounds DEF StoreOK
  <2>4. QED
    BY <2>1, <2>2, <2>3
<1>4. InboxOK
  BY Bounds DEF InboxOK
<1>5. ScreenOK
  <2>1. 0 \in 0..(MaxKeys + LateKeys) /\ Len(<<>>) <= TuiCap
    BY Bounds
  <2>2. /\ tui \in [pc: {"off", "on", "sending"}, queue: Seq(Command),
                    key: Command \cup {"none"}]
        /\ tui.pc = "off" /\ tui.queue = <<>>
    OBVIOUS
  <2>3. shown \in BOOLEAN /\ keys = 0
    OBVIOUS
  <2>4. QED
    BY <2>1, <2>2, <2>3 DEF ScreenOK
<1>6. QED
  BY <1>1, <1>2, <1>3, <1>4, <1>5 DEF TypeOK

(* Every variable keeps its type, whatever panics and whoever presses.             *)
THEOREM TypeCorrect == Spec => []TypeOK
<1>1. TypeOK /\ [Next]_vars => TypeOK'
  BY ProcessStep, MainStep, TasksStep, CountersStep, StoreStep, InboxStep, LatchesStep, ScreenStep
     DEF TypeOK
<1>2. QED
  BY InitTyped, <1>1, PTL DEF Spec

-----------------------------------------------------------------------------
(* Real money before a confirmation.  Nothing anywhere in the process may  *)
(* stand for a release: not the resume variable, not what main has still   *)
(* to send, not a message on its way through the bridge.                   *)

Unconfirmed == Money /\ ~confirmed
Plain == {"pause", "resume"}
Consent ==
  Unconfirmed =>
    /\ ~released /\ ~main.released
    /\ main.todo \in Seq([to: {"arb", "live", "mm", "copy"}, msg: Plain])
    /\ inbox \in [Inbox -> Seq(Plain)]

LEMMA ConsentStep == TypeOK /\ Consent /\ [Next]_vars => Consent'
<1> SUFFICES ASSUME TypeOK, Consent, [Next]_vars PROVE Consent'
  OBVIOUS
<1> USE DEF Consent
<1>1. CASE Start
  <2> SUFFICES ASSUME Unconfirmed'
               PROVE  ~released' /\ ~main'.released /\ UNCHANGED <<main.todo, inbox>>
    BY <1>1 DEF Start, Unconfirmed, Money
  <2>1. Unconfirmed /\ mode.live /\ ~mode.shadow /\ mode.tui
    BY <1>1 DEF Start, Unconfirmed, Money
  <2>2. ~main.released
    BY <2>1
  <2>3. Released(mode, main.released) = FALSE
    BY <2>1, <2>2 DEF Released
  <2>4. QED
    BY <1>1, <2>3 DEF Start, TypeOK, MainOK, MainState
<1>2. CASE Refuse
  BY <1>2 DEF Refuse, Unconfirmed, Money, process, TypeOK, MainOK, MainState
<1>3. CASE HandleCtl
  <2> SUFFICES ASSUME Unconfirmed PROVE Consent'
    BY <1>3 DEF HandleCtl, Unconfirmed, Money, process
  <2>1. inbox["coord"] \in Seq(Plain) /\ inbox["coord"] # <<>> /\ "coord" \in Inbox
    BY <1>3 DEF HandleCtl, Inbox
  <2>2. Head(inbox["coord"]) \in Plain /\ Tail(inbox["coord"]) \in Seq(Plain)
    BY <2>1
  <2>3. ~released' /\ UNCHANGED main
    BY <1>3, <2>2 DEF HandleCtl, Plain
  <2>4. inbox' \in [Inbox -> Seq(Plain)]
    BY <1>3, <2>1, <2>2 DEF HandleCtl
  <2>5. QED
    BY <2>3, <2>4
<1>4. CASE Forward
  <2> SUFFICES ASSUME Unconfirmed PROVE inbox' \in [Inbox -> Seq(Plain)]
    BY <1>4 DEF Forward, Unconfirmed, Money, process
  <2>1. PICK i \in {"arb", "live"} :
          /\ inbox[i] # <<>>
          /\ \/ inbox' = [inbox EXCEPT ![i] = Tail(@), !["coord"] = Append(@, Head(inbox[i]))]
             \/ UNCHANGED inbox
    BY <1>4 DEF Forward
  <2>2. inbox[i] \in Seq(Plain) /\ inbox["coord"] \in Seq(Plain)
    BY DEF Inbox
  <2>3. Tail(inbox[i]) \in Seq(Plain) /\ Append(inbox["coord"], Head(inbox[i])) \in Seq(Plain)
    BY <2>1, <2>2
  <2>4. QED
    BY <2>1, <2>3 DEF Inbox
<1>5. CASE \E s \in Loops : Obey(s)
  <2>1. PICK s \in Loops : Obey(s)
    BY <1>5
  <2>2. UNCHANGED <<mode, confirmed, main, released>>
    BY <2>1 DEF Obey, process
  <2>3. Unconfirmed => inbox' \in [Inbox -> Seq(Plain)]
    <3> SUFFICES ASSUME Unconfirmed PROVE inbox' \in [Inbox -> Seq(Plain)]
      OBVIOUS
    <3>1. inbox[s] \in Seq(Plain) /\ inbox[s] # <<>>
      BY <2>1 DEF Obey, Inbox
    <3>2. Tail(inbox[s]) \in Seq(Plain)
      BY <3>1
    <3>3. QED
      BY <2>1, <3>2 DEF Obey
  <2>4. QED
    BY <2>2, <2>3 DEF Unconfirmed, Money
<1>6. CASE NoticeKill
  BY <1>6 DEF NoticeKill, Stop, Unconfirmed, Money, process, TypeOK, MainOK, MainState
<1>7. CASE Finish
  BY <1>7 DEF Finish, Stop, Unconfirmed, Money, process, TypeOK, MainOK, MainState
<1>8. CASE TakeCommand
  <2> DEFINE c == Head(tui.queue)
  <2> SUFFICES ASSUME Unconfirmed' PROVE Consent'
    OBVIOUS
  <2>1. Unconfirmed /\ ~(c = "golive" /\ mode.live) /\ mode.live
    BY <1>8 DEF TakeCommand, Unconfirmed, Money
  <2>2. c \in Command
    BY <1>8 DEF TakeCommand, TypeOK, ScreenOK
  <2>3. c \in Plain => Sends(c) \in Seq([to: {"arb", "live", "mm", "copy"}, msg: Plain])
    <3>1. \A n \in {"arb", "live", "mm", "copy"}, m \in Plain :
            To(n, m) \in [to: {"arb", "live", "mm", "copy"}, msg: Plain]
      BY DEF To
    <3> DEFINE Calls == [to: {"arb", "live", "mm", "copy"}, msg: Plain]
    <3>2. ASSUME c \in Plain
          PROVE  /\ Sends(c) = <<To("arb", c), To("mm", c), To("copy", c)>>
                 /\ To("arb", c) \in Calls /\ To("mm", c) \in Calls /\ To("copy", c) \in Calls
      BY <3>1, <3>2 DEF Sends, Plain
    <3> HIDE DEF Calls
    <3>3. ASSUME c \in Plain PROVE Sends(c) \in Seq(Calls)
      <4>1. <<To("arb", c), To("mm", c), To("copy", c)>> \in Seq(Calls)
        BY <3>2, <3>3, Three
      <4>2. QED
        BY <3>2, <3>3, <4>1
    <3>4. QED
      BY <3>3 DEF Calls
  <2>4. main'.released = main.released /\ main'.todo \in {main.todo, Sends(c)}
        /\ (c \notin Plain => main'.todo = main.todo)
    BY <1>8, <2>1, <2>2 DEF TakeCommand, Stop, Command, Plain, TypeOK, MainOK, MainState
  <2>5. UNCHANGED <<released, inbox>>
    BY <1>8 DEF TakeCommand
  <2>6. QED
    BY <2>1, <2>3, <2>4, <2>5
<1>9. CASE Send
  <2> SUFFICES ASSUME Unconfirmed PROVE Consent'
    BY <1>9 DEF Send, Unconfirmed, Money, process
  <2> DEFINE e == Head(main.todo)
             Errands == [to: {"arb", "live", "mm", "copy"}, msg: Plain]
  <2>1. main.todo \in Seq(Errands) /\ main.todo # <<>>
    BY <1>9 DEF Send, TypeOK, MainOK
  <2> HIDE DEF Errands
  <2>2. e \in Errands /\ Tail(main.todo) \in Seq(Errands)
    BY <2>1
  <2>3. e.to # "main" /\ e.msg \in Plain
    BY <2>2 DEF Errands
  <2>4. ~main'.released /\ main'.todo = Tail(main.todo) /\ released' = released
    BY <1>9, <2>3 DEF Send, TypeOK, MainOK, MainState
  <2>5. inbox' \in [Inbox -> Seq(Plain)]
    <3>1. CASE ~Reachable(e.to)
      BY <1>9, <3>1 DEF Send
    <3>2. CASE Reachable(e.to)
      <4>1. e.to \in Inbox /\ inbox' = [inbox EXCEPT ![e.to] = Append(@, e.msg)]
        BY <1>9, <3>2 DEF Send, Reachable, Present, Inbox
      <4>2. Append(inbox[e.to], e.msg) \in Seq(Plain)
        BY <2>3, <4>1
      <4>3. QED
        BY <4>1, <4>2
    <3>3. QED
      BY <3>1, <3>2
  <2>6. QED
    BY <2>2, <2>4, <2>5 DEF Errands
<1>10. CASE AbortFeed
  BY <1>10 DEF AbortFeed, Unconfirmed, Money, process, TypeOK, MainOK, MainState
<1>11. CASE Join
  BY <1>11 DEF Join, Unconfirmed, Money, process, TypeOK, MainOK, MainState
<1>12. CASE AwaitWriter
  BY <1>12 DEF AwaitWriter, Unconfirmed, Money, process, TypeOK, MainOK, MainState
<1>13. CASE Exit
  BY <1>13 DEF Exit, Unconfirmed, Money, process, TypeOK, MainOK, MainState
<1>14. CASE Reexec
  <2> SUFFICES ASSUME Unconfirmed' PROVE Consent'
    OBVIOUS
  <2>1. Unconfirmed
    BY <1>14 DEF Reexec, Unconfirmed, Money
  <2>2. ~Resumes
    BY <2>1 DEF Resumes
  <2>3. /\ main' = [pc |-> "start", trigger |-> "none", todo |-> <<>>, released |-> Resumes]
        /\ released' = FALSE /\ inbox' = [i \in Inbox |-> <<>>]
    BY <1>14 DEF Reexec
  <2>4. QED
    BY <2>2, <2>3
<1>15. CASE UNCHANGED <<mode, confirmed, released, main, inbox>>
  BY <1>15 DEF Unconfirmed, Money
<1>16. QED
  BY <1>1, <1>2, <1>3, <1>4, <1>5, <1>6, <1>7, <1>8, <1>9, <1>10, <1>11, <1>12, <1>13,
     <1>14, <1>15
     DEF Next, Pool, Coordinate, Executor, Loop, Writer, Screen, Main, Emit, AskSolve,
         StartSolve, FinishSolve, LpEnds, TakeOpp, TakeReport, CoordEnds, Execute,
         ExecEnds, ArbStep, Tick, LoopEnds, Panic, Write, WriterEnds, Publish, Press,
         SendKey, TuiEnds, KillSwitch, vars, process, pipeline, operator

(* The coordinator does not trade real money before the operator has typed *)
(* the phrase or "live", in this process or in one it was re-executed from *)
(* (the hold of main, the bridge and PM_RESUME_LIVE).                       *)
THEOREM LiveIsConfirmed == Spec => []ConfirmedLive
<1>1. Init => Consent
  BY DEF Init, Consent
<1>2. Consent => ConfirmedLive
  BY DEF Consent, ConfirmedLive, Unconfirmed
<1>3. QED
  BY <1>1, <1>2, ConsentStep, TypeCorrect, PTL DEF Spec

-----------------------------------------------------------------------------
(* The shutdown cascade: what each ended task leaves behind it, and which  *)
(* tasks have ended before main is as far as it is.                        *)

Left ==
  /\ task["lp"] = "ended" => jobs = 0
  /\ task["coord"] = "ended" => opps = 0 /\ solves = 0 /\ ~Up("lp")
  /\ task["exec"] = "ended" => ~Up("coord") /\ basket # "sent"
  /\ resting => "mm" \in Loops /\ (task["mm"] # "ended" \/ stuck)

Senders == {"coord", "exec", "arb"} \cup Loops
Order ==
  /\ task["writer"] = "ended" => rows = 0 /\ days = 0 /\ \A t \in Senders : ~Up(t)
  /\ main.pc \in {"drain", "screen", "exit0", "exit2"} =>
       \A s \in {"arb"} \cup Loops : ~Up(s)
  /\ main.pc \in {"screen", "exit0", "exit2"} => task["writer"] = "ended"
  /\ main.pc = "exit0" => Healthy
  /\ main.pc = "exit2" => ~Healthy
  /\ failed <=> "row" \in lost

LEMMA LeftStep == TypeOK /\ Left /\ [Next]_vars => Left'
<1> SUFFICES ASSUME TypeOK, Left, [Next]_vars PROVE Left'
  OBVIOUS
<1> USE DEF Left, TypeOK, TasksOK, CountersOK, Up, End, Task, pipeline, atVenue
<1>1. CASE Start
  BY <1>1 DEF Start
<1>2. CASE Emit
  BY <1>2 DEF Emit
<1>3. CASE AskSolve
  BY <1>3 DEF AskSolve
<1>4. CASE StartSolve
  BY <1>4 DEF StartSolve
<1>5. CASE FinishSolve
  BY <1>5 DEF FinishSolve
<1>6. CASE LpEnds
  BY <1>6 DEF LpEnds
<1>7. CASE TakeOpp
  BY <1>7 DEF TakeOpp
<1>8. CASE TakeReport
  BY <1>8 DEF TakeReport
<1>9. CASE CoordEnds
  BY <1>9 DEF CoordEnds
<1>10. CASE Execute
  BY <1>10 DEF Execute
<1>11. CASE ExecEnds
  BY <1>11 DEF ExecEnds
<1>12. CASE Forward
  BY <1>12 DEF Forward
<1>13. CASE ArbStep
  BY <1>13 DEF ArbStep
<1>14. CASE \E s \in Loops : Tick(s)
  <2>1. PICK s \in Loops : Tick(s)
    BY <1>14
  <2>2. UNCHANGED <<task, jobs, opps, solves, basket, stuck>> /\ task[s] = "up"
    BY <2>1 DEF Tick
  <2>3. resting' => resting \/ s = "mm"
    BY <2>1, Zenon DEF Tick
  <2>4. QED
    BY <2>2, <2>3
<1>15. CASE \E s \in Loops : Obey(s)
  BY <1>15 DEF Obey, CancelAll
<1>16. CASE \E s \in Loops : LoopEnds(s)
  <2>1. PICK s \in Loops : LoopEnds(s)
    BY <1>16
  <2>2. /\ task' = [task EXCEPT ![s] = "ended"] /\ UNCHANGED <<jobs, opps, solves, basket>>
        /\ s \notin {"lp", "coord", "exec"}
    BY <2>1 DEF LoopEnds
  <2>3. resting' => "mm" \in Loops /\ (task'["mm"] # "ended" \/ stuck')
    <3>1. CASE s = "mm"
      BY <2>1, <3>1 DEF LoopEnds, CancelAll
    <3>2. CASE s # "mm"
      <4>1. UNCHANGED <<resting, stuck>>
        BY <2>1, <3>2, Zenon DEF LoopEnds, CancelAll
      <4>2. task'["mm"] = task["mm"]
        BY <2>2, <3>2
      <4>3. QED
        BY <4>1, <4>2
    <3>3. QED
      BY <3>1, <3>2
  <2>4. \A t \in {"lp", "coord", "exec"} : task'[t] = task[t]
    BY <2>2
  <2>5. QED
    BY <2>2, <2>3, <2>4
<1>17. CASE \E t \in MayPanic : Panic(t)
  BY <1>17 DEF Panic
<1>18. CASE WriterEnds
  BY <1>18 DEF WriterEnds
<1>19. CASE Publish
  BY <1>19 DEF Publish
<1>20. CASE AbortFeed
  BY <1>20 DEF AbortFeed
<1>21. CASE Reexec
  BY <1>21 DEF Reexec
<1>22. CASE UNCHANGED <<task, jobs, opps, solves, basket, atVenue>>
  BY <1>22
<1>23. QED
  BY <1>1, <1>2, <1>3, <1>4, <1>5, <1>6, <1>7, <1>8, <1>9, <1>10, <1>11, <1>12, <1>13,
     <1>14, <1>15, <1>16, <1>17, <1>18, <1>19, <1>20, <1>21, <1>22
     DEF Next, Pool, Coordinate, Executor, Loop, Writer, Screen, Main, Refuse,
         HandleCtl, Write, Press, SendKey, TuiEnds, KillSwitch, NoticeKill, Finish,
         TakeCommand, Send, Join, AwaitWriter, Exit, vars, process, pipeline, operator

LEMMA OrderStep == TypeOK /\ Order /\ [Next]_vars => Order'
<1> SUFFICES ASSUME TypeOK, Order, [Next]_vars PROVE Order'
  OBVIOUS
<1> USE DEF Order, TypeOK, MainOK, MainState, TasksOK, CountersOK, StoreOK, LatchesOK,
           Senders, Healthy, Up, End, Task, pipeline, store, written
<1>1. CASE Start
  BY <1>1 DEF Start
<1>2. CASE Refuse
  BY <1>2 DEF Refuse
<1>3. CASE LpEnds
  BY <1>3 DEF LpEnds
<1>4. CASE TakeOpp
  BY <1>4 DEF TakeOpp
<1>5. CASE CoordEnds
  BY <1>5 DEF CoordEnds
<1>6. CASE Execute
  BY <1>6 DEF Execute
<1>7. CASE ExecEnds
  BY <1>7 DEF ExecEnds
<1>8. CASE Forward
  BY <1>8, SMTT(20) DEF Forward
<1>9. CASE ArbStep
  BY <1>9 DEF ArbStep
<1>10. CASE \E s \in Loops : Tick(s)
  BY <1>10 DEF Tick
<1>11. CASE \E s \in Loops : LoopEnds(s)
  <2>1. PICK s \in Loops : LoopEnds(s)
    BY <1>11
  <2>2. /\ task[s] = "up" /\ task' = [task EXCEPT ![s] = "ended"]
        /\ UNCHANGED <<main, rows, days, failed, lost>>
    BY <2>1 DEF LoopEnds
  <2>3. \A t \in Task : /\ task'[t] = "up" => task[t] = "up"
                        /\ task'[t] = "panicked" <=> task[t] = "panicked"
                        /\ t # s => task'[t] = task[t]
    BY <2>2
  <2>4. s # "writer" /\ Senders \subseteq Task /\ {"coord", "writer", "arb"} \subseteq Task
    BY SessionAssumption
  <2> HIDE DEF TypeOK, MainOK, MainState, TasksOK, CountersOK, StoreOK, LatchesOK
  <2>5. QED
    BY <2>2, <2>3, <2>4, SessionAssumption
<1>12. CASE \E t \in MayPanic : Panic(t)
  BY <1>12 DEF Panic
<1>13. CASE Write
  BY <1>13 DEF Write
<1>14. CASE WriterEnds
  BY <1>14 DEF WriterEnds
<1>15. CASE Publish
  <2> HIDE DEF Order, Healthy, Up
  <2>1. \A t \in Senders \cup {"coord", "writer"} : task'[t] = task[t]
    BY <1>15 DEF Publish
  <2>2. UNCHANGED <<main, store>>
    BY <1>15 DEF Publish
  <2>3. QED
    BY <2>1, <2>2 DEF Order, Healthy, Up, store
<1>16. CASE NoticeKill
  BY <1>16 DEF NoticeKill, Stop
<1>17. CASE Finish
  BY <1>17 DEF Finish, Stop
<1>18. CASE TakeCommand
  <2>1. UNCHANGED <<task, store>>
    BY <1>18 DEF TakeCommand
  <2>2. main'.pc \in {"run", "send", "grace"}
    <3>1. main' = main \/ (\E todo : main' = [main EXCEPT !.pc = "send", !.todo = todo]) \/ Stop("end")
      BY <1>18, Zenon DEF TakeCommand
    <3>2. main.pc = "run"
      BY <1>18 DEF TakeCommand
    <3> QED BY <3>1, <3>2 DEF Stop
  <2> HIDE DEF TypeOK, MainOK
  <2> QED BY <2>1, <2>2
<1>19. CASE Send
  BY <1>19 DEF Send
<1>20. CASE AbortFeed
  BY <1>20 DEF AbortFeed
<1>21. CASE Join
  BY <1>21 DEF Join
<1>22. CASE AwaitWriter
  BY <1>22 DEF AwaitWriter
<1>23. CASE Exit
  BY <1>23 DEF Exit
<1>24. CASE Reexec
  BY <1>24 DEF Reexec
<1>25. CASE UNCHANGED <<task, main, store>>
  BY <1>25
<1>26. QED
  BY <1>1, <1>2, <1>3, <1>4, <1>5, <1>6, <1>7, <1>8, <1>9, <1>10, <1>11, <1>12, <1>13,
     <1>14, <1>15, <1>16, <1>17, <1>18, <1>19, <1>20, <1>21, <1>22, <1>23, <1>24, <1>25
     DEF Next, Pool, Coordinate, Executor, Loop, Writer, Screen, Main, Emit, AskSolve,
         StartSolve, FinishSolve, TakeReport, HandleCtl, Obey, Press, SendKey, TuiEnds,
         KillSwitch, vars, process, pipeline, operator

Cascade == TypeOK /\ Left /\ Order

LEMMA CascadeHolds == Spec => []Cascade
<1>1. Init => Left /\ Order
  BY DEF Init, Left, Order, Up, Task, Senders, Healthy
<1>2. QED
  BY <1>1, LeftStep, OrderStep, TypeCorrect, PTL DEF Spec, Cascade

(* The exit status: 0 means that the coordinator and every strategy came   *)
(* to their end and the writer took every message and failed on none that  *)
(* it counts; 2, that one of them died or such a row was lost, and not     *)
(* that an add to the day's ledger was dropped (main.rs:2707).             *)
THEOREM HealthIsTrue == Spec => []HealthTruth
<1>1. Cascade => HealthTruth
  BY DEF Cascade, Order, Senders, Healthy, HealthTruth, TypeOK, TasksOK, Task, Up
<1>2. QED
  BY <1>1, CascadeHolds, PTL

(* When main leaves, nothing is left in a channel of a task that came to   *)
(* its end, and no quote rests for a maker that did unless the venue        *)
(* refused its last sweep (the order in which the tasks end).               *)
THEOREM DrainsAll == Spec => []Drained
<1>1. Cascade => Drained
  <2> SUFFICES ASSUME Cascade, main.pc \in {"screen", "exit0", "exit2"}
               PROVE  Drained
    BY DEF Drained
  <2>1. rows = 0 /\ days = 0 /\ \A s \in Loops : ~Up(s)
    BY DEF Cascade, Order
  <2>2. resting => task["mm"] = "panicked" \/ stuck
    BY <2>1 DEF Cascade, Left, TypeOK, TasksOK, Task, Up
  <2>3. QED
    BY <2>1, <2>2 DEF Cascade, Left, Drained
<1>2. QED
  BY <1>1, CascadeHolds, PTL

-----------------------------------------------------------------------------
HIDE SessionAssumption
HIDE DEF SessionAssumption

(***************************************************************************)
(* The start-up: what main assembles before anything trades.  The walks of *)
(* mm_market_selection, select_reward_markets and pack_components are      *)
(* folds; what each returns is shown by induction on the set it walks.     *)
(***************************************************************************)

\* the registry of a launch: no market twice
Registries == {r \in Seq(Condition) : \A i \in DOMAIN r, j \in DOMAIN r : r[i] = r[j] => i = j}

LEMMA MarketsRegistered ==
  ASSUME reg \in Registries
  PROVE  /\ Len(reg) \in Nat /\ DOMAIN reg = 1 .. Len(reg)
         /\ ToSet(reg) \subseteq Condition /\ IsFiniteSet(ToSet(reg))
         /\ \A m \in ToSet(reg) : IdOf(m) \in 1 .. Len(reg) /\ reg[IdOf(m)] = m
         /\ \A i \in DOMAIN reg : reg[i] \in ToSet(reg) /\ IdOf(reg[i]) = i
<1>1. Len(reg) \in Nat /\ DOMAIN reg = 1 .. Len(reg) /\ \A i \in DOMAIN reg : reg[i] \in Condition
  BY DEF Registries
<1>2. ToSet(reg) = {reg[i] : i \in DOMAIN reg} /\ ToSet(reg) \subseteq Condition
  BY <1>1 DEF ToSet
<1>3. IsFiniteSet(ToSet(reg))
  BY <1>2, StartupAssumption, FS_Subset DEF StartupAssumption
<1>4. ASSUME NEW m \in ToSet(reg) PROVE IdOf(m) \in 1 .. Len(reg) /\ reg[IdOf(m)] = m
  <2>1. \E i \in DOMAIN reg : reg[i] = m
    BY <1>2
  <2>2. QED
    BY <1>1, <2>1 DEF IdOf
<1>5. ASSUME NEW i \in DOMAIN reg PROVE reg[i] \in ToSet(reg) /\ IdOf(reg[i]) = i
  <2>1. reg[i] \in ToSet(reg)
    BY <1>2
  <2>2. IdOf(reg[i]) \in DOMAIN reg /\ reg[IdOf(reg[i])] = reg[i]
    BY <1>1, <1>4, <2>1
  <2>3. QED
    BY <2>1, <2>2 DEF Registries
<1>6. QED
  BY <1>1, <1>2, <1>3, <1>4, <1>5

(* The two ranks are total orders: the id decides between equals.          *)
LEMMA LastRankedIs ==
  ASSUME reg \in Registries, NEW s \in SUBSET ToSet(reg), s # {}
  PROVE  LastRanked(s) \in s /\ \A n \in s \ {LastRanked(s)} : Outranks(n, LastRanked(s))
<1> DEFINE S == ToSet(reg)
           R == {p \in S \X S : Outranks(p[1], p[2])}
<1>1. IsFiniteSet(S) /\ \A m \in S : /\ Metrics[m].volume \in Int /\ Metrics[m].liquidity \in Int
                                     /\ IdOf(m) \in Nat /\ reg[IdOf(m)] = m
  BY MarketsRegistered, StartupAssumption DEF StartupAssumption
<1>2. \A m \in S, n \in S : <<m, n>> \in R <=> Outranks(m, n)
  OBVIOUS
<1>3. ASSUME NEW m \in S, NEW n \in S, m # n PROVE Outranks(m, n) \/ Outranks(n, m)
  <2>1. IdOf(m) # IdOf(n)
    BY <1>1, <1>3
  <2>2. QED
    BY <1>1, <2>1 DEF Outranks, Ahead
<1>4. ASSUME NEW k \in S, NEW m \in S, NEW n \in S, Outranks(k, m), Outranks(m, n) PROVE Outranks(k, n)
  BY <1>1, <1>4 DEF Outranks, Ahead
<1>5. \E m \in s : \A n \in s \ {m} : <<n, m>> \in R
  <2>1. \A m \in S, n \in S : m # n => <<m, n>> \in R \/ <<n, m>> \in R
    BY <1>2, <1>3
  <2>2. \A k \in S, m \in S, n \in S : <<k, m>> \in R /\ <<m, n>> \in R => <<k, n>> \in R
    BY ONLY <1>2, <1>4
  <2>3. IsFiniteSet(S)
    BY <1>1
  <2> HIDE DEF R, S
  <2>4. s \in SUBSET S
    BY DEF S
  <2>5. QED
    BY <2>1, <2>2, <2>3, <2>4, LastInOrder
<1>6. \E m \in s : \A n \in s \ {m} : Outranks(n, m)
  BY <1>5
<1>7. QED
  BY <1>6 DEF LastRanked

LEMMA LastPaidIs ==
  ASSUME reg \in Registries, NEW s \in SUBSET ToSet(reg), s # {}
  PROVE  LastPaid(s) \in s
<1> DEFINE S == ToSet(reg)
           R == {p \in S \X S : Pays(p[1], p[2])}
<1>1. IsFiniteSet(S) /\ \A m \in S : Metrics[m].rate \in Int /\ IdOf(m) \in Nat /\ reg[IdOf(m)] = m
  BY MarketsRegistered, StartupAssumption DEF StartupAssumption
<1>2. \A m \in S, n \in S : <<m, n>> \in R <=> Pays(m, n)
  OBVIOUS
<1>3. ASSUME NEW m \in S, NEW n \in S, m # n PROVE Pays(m, n) \/ Pays(n, m)
  <2>1. IdOf(m) # IdOf(n)
    BY <1>1, <1>3
  <2>2. QED
    BY <1>1, <2>1 DEF Pays
<1>4. ASSUME NEW k \in S, NEW m \in S, NEW n \in S, Pays(k, m), Pays(m, n) PROVE Pays(k, n)
  BY <1>1, <1>4 DEF Pays
<1>5. \E m \in s : \A n \in s \ {m} : <<n, m>> \in R
  <2>1. \A m \in S, n \in S : m # n => <<m, n>> \in R \/ <<n, m>> \in R
    BY <1>2, <1>3
  <2>2. \A k \in S, m \in S, n \in S : <<k, m>> \in R /\ <<m, n>> \in R => <<k, n>> \in R
    BY ONLY <1>2, <1>4
  <2>3. IsFiniteSet(S)
    BY <1>1
  <2> HIDE DEF R, S
  <2>4. s \in SUBSET S
    BY DEF S
  <2>5. QED
    BY <2>1, <2>2, <2>3, <2>4, LastInOrder
<1>6. \E m \in s : \A n \in s \ {m} : Pays(n, m)
  BY <1>5
<1>7. QED
  BY <1>6 DEF LastPaid

\* g[s] is what the walk down the ranks picks of s
Selects(g, S) ==
  /\ g[{}] = {}
  /\ \A s \in SUBSET S : g[s] \in SUBSET Condition /\ (s # {} => g[s] = IF FullFor(LastRanked(s), g[s \ {LastRanked(s)}]) THEN g[s \ {LastRanked(s)}]
                          ELSE g[s \ {LastRanked(s)}] \cup {LastRanked(s)})

(* mm_market_selection is a fold over the ranks: there is one.             *)
LEMMA SelectedFolds ==
  ASSUME reg \in Registries, NEW S, S = {m \in ToSet(reg) : Routed(m)}
  PROVE  \E g : Selected = g[S] /\ Selects(g, S)
<1> DEFINE T == SUBSET Condition
           op(m, picked) == IF FullFor(m, picked) THEN picked ELSE picked \cup {m}
           f == [x \in S \X T |-> op(x[1], x[2])]
           p == [s \in SUBSET S |-> LastRanked(s)]
           Folds(g) == g = [s \in SUBSET S |-> IF s = {} THEN {} ELSE op(LastRanked(s), g[s \ {LastRanked(s)}])]
<1>1. S \subseteq ToSet(reg) /\ S \subseteq Condition /\ IsFiniteSet(S)
  BY MarketsRegistered, FS_Subset
<1>2. \A s \in SUBSET S : s # {} => LastRanked(s) \in s
  BY <1>1, LastRankedIs
<1>3. \A x \in S, t \in T : op(x, t) \in T
  BY <1>1
<1>4. \A x \in S, t \in T : f[<<x, t>>] = op(x, t)
  OBVIOUS
<1>5. PICK g : FoldsWith(g, f, {}, p, SUBSET S) /\ \A s \in SUBSET S : g[s] \in T
  <2>1. \A s \in SUBSET S : s # {} => p[s] \in s
    BY <1>2
  <2>2. \A x \in S, t \in T : f[<<x, t>>] \in T
    BY <1>3, <1>4
  <2>3. {} \in T
    OBVIOUS
  <2> HIDE DEF f, p, T, op
  <2>4. IsFiniteSet(S)
    BY <1>1
  <2>5. QED
    BY ONLY <2>1, <2>2, <2>3, <2>4, FoldsInto
<1>6. ASSUME NEW s \in SUBSET S
      PROVE  g[s] = IF s = {} THEN {} ELSE op(LastRanked(s), g[s \ {LastRanked(s)}])
  <2>1. g[s] = IF s = {} THEN {} ELSE f[<<LastRanked(s), g[s \ {LastRanked(s)}]>>]
    <3> HIDE DEF f, op
    <3>1. QED
      BY <1>5 DEF FoldsWith
  <2>2. s # {} => LastRanked(s) \in S /\ g[s \ {LastRanked(s)}] \in T
    BY <1>2, <1>5
  <2> HIDE DEF f, op, T
  <2>3. QED
    BY <1>4, <2>1, <2>2
<1>7. Folds(g)
  <2>1. g = [s \in SUBSET S |-> g[s]]
    BY <1>5 DEF FoldsWith
  <2> HIDE DEF op, f, p
  <2>2. QED
    BY <1>6, <2>1
<1>8. Selected = (CHOOSE h : Folds(h))[S]
  BY Zenon DEF Selected, MapThenFoldSet
<1> DEFINE h == CHOOSE h : Folds(h)
<1>9. Folds(h)
  <2> HIDE DEF Folds
  <2>1. QED
    BY <1>7, Zenon
<1>10. h[{}] = {} /\ \A s \in SUBSET S : s # {} => h[s] = op(LastRanked(s), h[s \ {LastRanked(s)}])
  <2> HIDE DEF h, op
  <2>1. QED
    BY <1>9
<1> DEFINE G == {s \in SUBSET S : h[s] \in T}
<1>11. ASSUME NEW s \in SUBSET S, \A x \in s : s \ {x} \in G
       PROVE  s \in G
  <2> HIDE DEF h
  <2>1. CASE s = {}
    BY <1>10, <2>1
  <2>2. CASE s # {}
    <3>1. LastRanked(s) \in S /\ h[s \ {LastRanked(s)}] \in T
      BY <1>2, <1>11, <2>2
    <3> HIDE DEF op, T
    <3>2. op(LastRanked(s), h[s \ {LastRanked(s)}]) \in T
      BY <1>3, <3>1
    <3>3. QED
      BY <1>10, <2>2, <3>2
  <2>3. QED
    BY <2>1, <2>2
<1>12. SUBSET S \subseteq G
  <2> HIDE DEF G
  <2>1. IsFiniteSet(S)
    BY <1>1
  <2>2. \A s \in SUBSET S : (\A x \in s : s \ {x} \in G) => s \in G
    BY ONLY <1>11
  <2>3. QED
    BY ONLY <2>1, <2>2, SubsetInduction
<1>13. QED
  <2> HIDE DEF h
  <2>1. QED
    BY <1>8, <1>10, <1>12 DEF h, Selects

\* g[s] is what is funded of s
Funds(g, S) ==
  /\ g[{}] = {}
  /\ \A s \in SUBSET S : g[s] \in SUBSET Condition /\ (s # {} => g[s] = IF Affordable(LastPaid(s), g[s \ {LastPaid(s)}])
                          THEN g[s \ {LastPaid(s)}] \cup {LastPaid(s)} ELSE g[s \ {LastPaid(s)}])

(* select_reward_markets too.                                              *)
LEMMA FundedFolds ==
  ASSUME reg \in Registries, NEW S, S = {m \in ToSet(reg) : Farmable(m)}
  PROVE  \E g : Funded = g[S] /\ Funds(g, S)
<1> DEFINE T == SUBSET Condition
           op(m, picked) == IF Affordable(m, picked) THEN picked \cup {m} ELSE picked
           f == [x \in S \X T |-> op(x[1], x[2])]
           p == [s \in SUBSET S |-> LastPaid(s)]
           Folds(g) == g = [s \in SUBSET S |-> IF s = {} THEN {} ELSE op(LastPaid(s), g[s \ {LastPaid(s)}])]
<1>1. S \subseteq ToSet(reg) /\ S \subseteq Condition /\ IsFiniteSet(S)
  BY MarketsRegistered, FS_Subset
<1>2. \A s \in SUBSET S : s # {} => LastPaid(s) \in s
  BY <1>1, LastPaidIs
<1>3. \A x \in S, t \in T : op(x, t) \in T
  BY <1>1
<1>4. \A x \in S, t \in T : f[<<x, t>>] = op(x, t)
  OBVIOUS
<1>5. PICK g : FoldsWith(g, f, {}, p, SUBSET S) /\ \A s \in SUBSET S : g[s] \in T
  <2>1. \A s \in SUBSET S : s # {} => p[s] \in s
    BY <1>2
  <2>2. \A x \in S, t \in T : f[<<x, t>>] \in T
    BY <1>3, <1>4
  <2>3. {} \in T
    OBVIOUS
  <2> HIDE DEF f, p, T, op
  <2>4. IsFiniteSet(S)
    BY <1>1
  <2>5. QED
    BY ONLY <2>1, <2>2, <2>3, <2>4, FoldsInto
<1>6. ASSUME NEW s \in SUBSET S
      PROVE  g[s] = IF s = {} THEN {} ELSE op(LastPaid(s), g[s \ {LastPaid(s)}])
  <2>1. g[s] = IF s = {} THEN {} ELSE f[<<LastPaid(s), g[s \ {LastPaid(s)}]>>]
    <3> HIDE DEF f, op
    <3>1. QED
      BY <1>5 DEF FoldsWith
  <2>2. s # {} => LastPaid(s) \in S /\ g[s \ {LastPaid(s)}] \in T
    BY <1>2, <1>5
  <2> HIDE DEF f, op, T
  <2>3. QED
    BY <1>4, <2>1, <2>2
<1>7. Folds(g)
  <2>1. g = [s \in SUBSET S |-> g[s]]
    BY <1>5 DEF FoldsWith
  <2> HIDE DEF op, f, p
  <2>2. QED
    BY <1>6, <2>1
<1>8. Funded = (CHOOSE h : Folds(h))[S]
  BY Zenon DEF Funded, MapThenFoldSet
<1> DEFINE h == CHOOSE h : Folds(h)
<1>9. Folds(h)
  <2> HIDE DEF Folds
  <2>1. QED
    BY <1>7, Zenon
<1>10. h[{}] = {} /\ \A s \in SUBSET S : s # {} => h[s] = op(LastPaid(s), h[s \ {LastPaid(s)}])
  <2> HIDE DEF h, op
  <2>1. QED
    BY <1>9
<1> DEFINE G == {s \in SUBSET S : h[s] \in T}
<1>11. ASSUME NEW s \in SUBSET S, \A x \in s : s \ {x} \in G
       PROVE  s \in G
  <2> HIDE DEF h
  <2>1. CASE s = {}
    BY <1>10, <2>1
  <2>2. CASE s # {}
    <3>1. LastPaid(s) \in S /\ h[s \ {LastPaid(s)}] \in T
      BY <1>2, <1>11, <2>2
    <3> HIDE DEF op, T
    <3>2. op(LastPaid(s), h[s \ {LastPaid(s)}]) \in T
      BY <1>3, <3>1
    <3>3. QED
      BY <1>10, <2>2, <3>2
  <2>3. QED
    BY <2>1, <2>2
<1>12. SUBSET S \subseteq G
  <2> HIDE DEF G
  <2>1. IsFiniteSet(S)
    BY <1>1
  <2>2. \A s \in SUBSET S : (\A x \in s : s \ {x} \in G) => s \in G
    BY ONLY <1>11
  <2>3. QED
    BY ONLY <2>1, <2>2, SubsetInduction
<1>13. QED
  <2> HIDE DEF h
  <2>1. QED
    BY <1>8, <1>10, <1>12 DEF h, Funds

(* The components: disjoint, and none is empty.                            *)
LEMMA ComponentsAre ==
  ASSUME reg \in Registries
  PROVE  /\ ComponentsOf \in SUBSET SUBSET ToSet(reg) /\ IsFiniteSet(ComponentsOf)
         /\ \A a \in ComponentsOf : IsFiniteSet(a) /\ Cardinality(a) \in Nat
         /\ \A a \in ComponentsOf, b \in ComponentsOf : a \subseteq b => a = b
<1>1. IsFiniteSet(ToSet(reg))
  BY MarketsRegistered
<1>2. ComponentsOf \subseteq SUBSET ToSet(reg)
  BY DEF ComponentsOf
<1>3. IsFiniteSet(ComponentsOf)
  BY <1>1, <1>2, FS_SUBSET, FS_Subset
<1>4. \A a \in ComponentsOf : IsFiniteSet(a) /\ Cardinality(a) \in Nat
  BY <1>1, <1>2, FS_Subset, FS_CardinalityType
<1>5. ASSUME NEW a \in ComponentsOf, NEW b \in ComponentsOf, a \subseteq b PROVE a = b
  <2>1. PICK d \in ToSet(reg) : a = {m \in ToSet(reg) : Event[m] = Event[d]}
    BY DEF ComponentsOf
  <2>2. PICK e : b = {m \in ToSet(reg) : Event[m] = e}
    BY DEF ComponentsOf
  <2>3. Event[d] = e
    BY <1>5, <2>1, <2>2
  <2>4. QED
    BY <2>1, <2>2, <2>3
<1>6. QED
  BY <1>2, <1>3, <1>4, <1>5

LEMMA SmallestIs ==
  ASSUME reg \in Registries, NEW s \in SUBSET ComponentsOf, s # {}
  PROVE  Smallest(s) \in s
<1> DEFINE N == {Cardinality(a) : a \in s}
<1>1. \A a \in s : Cardinality(a) \in Nat
  BY ComponentsAre
<1>2. N \subseteq Nat /\ N # {}
  BY <1>1
<1>3. PICK k \in N : \A n \in N : k <= n
  <2> HIDE DEF N
  <2>1. QED
    BY <1>2, LeastExists
<1>4. \E a \in s : \A b \in s : Cardinality(a) <= Cardinality(b)
  BY <1>3
<1>5. QED
  BY <1>4 DEF Smallest

\* comp went whole into one chunk, where it fits, or became one of its own; the others stay
OneTakes(packed, open, comp, cap) ==
  /\ DOMAIN open \subseteq DOMAIN packed
  /\ \E i \in DOMAIN packed :
       /\ packed[i] = comp \/ (i \in DOMAIN open /\ packed[i] = open[i] \cup comp /\ Fits(open[i], comp, cap))
       /\ i \in DOMAIN open => packed[i] = open[i] \cup comp
       /\ \A j \in DOMAIN packed : j # i => j \in DOMAIN open /\ packed[j] = open[j]

LEMMA PackedIntoIs ==
  ASSUME NEW U, NEW open \in Seq(SUBSET U), NEW comp \in SUBSET U, NEW cap,
         NEW packed, packed = PackedInto(open, comp, cap)
  PROVE  packed \in Seq(SUBSET U) /\ OneTakes(packed, open, comp, cap)
<1> DEFINE fitting == {i \in DOMAIN open : Fits(open[i], comp, cap)}
<1>1. Len(open) \in Nat /\ DOMAIN open = 1 .. Len(open) /\ \A i \in DOMAIN open : open[i] \in SUBSET U
  OBVIOUS
<1>2. CASE fitting = {}
  <2>1. packed = Append(open, comp)
    BY <1>2 DEF PackedInto
  <2>2. packed \in Seq(SUBSET U) /\ DOMAIN packed = 1 .. Len(open) + 1 /\ packed[Len(open) + 1] = comp
        /\ \A j \in 1 .. Len(open) : packed[j] = open[j]
    BY <1>1, <2>1
  <2> HIDE DEF fitting
  <2>3. /\ Len(open) + 1 \in DOMAIN packed /\ Len(open) + 1 \notin DOMAIN open
        /\ DOMAIN open \subseteq DOMAIN packed
        /\ \A j \in DOMAIN packed : j # Len(open) + 1 => j \in DOMAIN open /\ packed[j] = open[j]
    BY <1>1, <2>2
  <2>4. QED
    BY <2>2, <2>3 DEF OneTakes
<1>3. CASE fitting # {}
  <2>1. PICK i \in fitting : \A j \in fitting : i <= j
    <3>1. fitting \subseteq Nat
      BY <1>1
    <3> HIDE DEF fitting
    <3>2. QED
      BY <1>3, <3>1, LeastExists
  <2> DEFINE First(x) == Fits(open[x], comp, cap) /\ \A j \in 1 .. x - 1 : ~Fits(open[j], comp, cap)
             least == CHOOSE x \in DOMAIN open : First(x)
  <2>2. i \in DOMAIN open /\ First(i)
    <3>1. ASSUME NEW j \in 1 .. i - 1 PROVE ~Fits(open[j], comp, cap)
      <4>1. j \in DOMAIN open /\ ~(i <= j)
        BY <1>1
      <4>2. QED
        BY <2>1, <4>1
    <3>2. QED
      BY <3>1
  <2>3. least \in DOMAIN open /\ First(least)
    <3> HIDE DEF First
    <3>1. QED
      BY <2>2
  <2>4. packed = [open EXCEPT ![least] = @ \cup comp]
    <3>1. \E x \in DOMAIN open : Fits(open[x], comp, cap)
      BY <2>2
    <3>2. QED
      BY <3>1, Zenon DEF PackedInto
  <2> HIDE DEF least, First
  <2>5. /\ DOMAIN packed = DOMAIN open /\ packed[least] = open[least] \cup comp
        /\ \A j \in DOMAIN packed : j # least => packed[j] = open[j]
    BY <2>3, <2>4
  <2>6. packed \in Seq(SUBSET U)
    BY <1>1, <2>3, <2>4
  <2>7. QED
    BY <2>3, <2>5, <2>6 DEF First, OneTakes
<1>4. QED
  BY <1>2, <1>3

\* g[s] are the chunks of the components s
Packs(g, S, cap) ==
  /\ g[{}] = <<>>
  /\ \A s \in SUBSET S : g[s] \in Seq(SUBSET ToSet(reg)) /\ (s # {} => g[s] = PackedInto(g[s \ {Smallest(s)}], Smallest(s), cap))

(* And pack_components, over the components.                               *)
LEMMA PackedFolds ==
  ASSUME reg \in Registries, NEW cap
  PROVE  \E g : Packed(cap) = g[ComponentsOf] /\ Packs(g, ComponentsOf, cap)
<1> DEFINE S == ComponentsOf
           T == Seq(SUBSET ToSet(reg))
           op(comp, open) == PackedInto(open, comp, cap)
           f == [x \in S \X T |-> op(x[1], x[2])]
           p == [s \in SUBSET S |-> Smallest(s)]
           Folds(g) == g = [s \in SUBSET S |-> IF s = {} THEN <<>> ELSE op(Smallest(s), g[s \ {Smallest(s)}])]
<1>1. S \in SUBSET SUBSET ToSet(reg) /\ IsFiniteSet(S)
  BY ComponentsAre
<1>2. \A s \in SUBSET S : s # {} => Smallest(s) \in s
  BY SmallestIs
<1>3. \A x \in S, t \in T : op(x, t) \in T
  BY <1>1, PackedIntoIs
<1>4. \A x \in S, t \in T : f[<<x, t>>] = op(x, t)
  OBVIOUS
<1>5. PICK g : FoldsWith(g, f, <<>>, p, SUBSET S) /\ \A s \in SUBSET S : g[s] \in T
  <2>1. \A s \in SUBSET S : s # {} => p[s] \in s
    BY <1>2
  <2>2. \A x \in S, t \in T : f[<<x, t>>] \in T
    BY <1>3, <1>4
  <2>3. <<>> \in T
    OBVIOUS
  <2> HIDE DEF f, p, T, op
  <2>4. IsFiniteSet(S)
    BY <1>1
  <2>5. QED
    BY ONLY <2>1, <2>2, <2>3, <2>4, FoldsInto
<1>6. ASSUME NEW s \in SUBSET S
      PROVE  g[s] = IF s = {} THEN <<>> ELSE op(Smallest(s), g[s \ {Smallest(s)}])
  <2>1. g[s] = IF s = {} THEN <<>> ELSE f[<<Smallest(s), g[s \ {Smallest(s)}]>>]
    <3> HIDE DEF f, op
    <3>1. QED
      BY <1>5 DEF FoldsWith
  <2>2. s # {} => Smallest(s) \in S /\ g[s \ {Smallest(s)}] \in T
    BY <1>2, <1>5
  <2> HIDE DEF f, op, T
  <2>3. QED
    BY <1>4, <2>1, <2>2
<1>7. Folds(g)
  <2>1. g = [s \in SUBSET S |-> g[s]]
    BY <1>5 DEF FoldsWith
  <2> HIDE DEF op, f, p
  <2>2. QED
    BY <1>6, <2>1
<1>8. Packed(cap) = (CHOOSE h : Folds(h))[S]
  BY Zenon DEF Packed, MapThenFoldSet
<1> DEFINE h == CHOOSE h : Folds(h)
<1>9. Folds(h)
  <2> HIDE DEF Folds
  <2>1. QED
    BY <1>7, Zenon
<1>10. h[{}] = <<>> /\ \A s \in SUBSET S : s # {} => h[s] = op(Smallest(s), h[s \ {Smallest(s)}])
  <2> HIDE DEF h, op
  <2>1. QED
    BY <1>9
<1> DEFINE G == {s \in SUBSET S : h[s] \in T}
<1>11. ASSUME NEW s \in SUBSET S, \A x \in s : s \ {x} \in G
       PROVE  s \in G
  <2> HIDE DEF h
  <2>1. CASE s = {}
    <3>1. <<>> \in T
      OBVIOUS
    <3> HIDE DEF T, op
    <3>2. QED
      BY <1>10, <2>1, <3>1
  <2>2. CASE s # {}
    <3>1. Smallest(s) \in S /\ h[s \ {Smallest(s)}] \in T
      BY <1>2, <1>11, <2>2
    <3> HIDE DEF op, T
    <3>2. op(Smallest(s), h[s \ {Smallest(s)}]) \in T
      BY <1>3, <3>1
    <3>3. QED
      BY <1>10, <2>2, <3>2
  <2>3. QED
    BY <2>1, <2>2
<1>12. SUBSET S \subseteq G
  <2> HIDE DEF G
  <2>1. IsFiniteSet(S)
    BY <1>1
  <2>2. \A s \in SUBSET S : (\A x \in s : s \ {x} \in G) => s \in G
    BY ONLY <1>11
  <2>3. QED
    BY ONLY <2>1, <2>2, SubsetInduction
<1>13. QED
  <2> HIDE DEF h
  <2>1. QED
    BY <1>8, <1>10, <1>12 DEF h, Packs

\* why a market is passed over, and what the walk over s has picked
Passed(m, P) ==
  \/ Cardinality(P) = cfg.mmMarkets /\ (cfg.perEvent # 0 \/ \A n \in P : Outranks(n, m))
  \/ /\ cfg.perEvent # 0 /\ SameEvent(m, P) = cfg.perEvent
     /\ \A n \in P : Event[n] = Event[m] => Outranks(n, m)
SelectedWell(P, s) ==
  /\ P \subseteq s /\ Cardinality(P) <= cfg.mmMarkets
  /\ cfg.perEvent # 0 => \A m \in P : SameEvent(m, P) <= cfg.perEvent
  /\ \A m \in s \ P : Passed(m, P)

(* One step of the walk: x ranks below everything before it.               *)
LEMMA SelectsOne ==
  ASSUME NEW s, NEW x, x \notin s, IsFiniteSet(s), NEW P, SelectedWell(P, s),
         \A n \in s : Outranks(n, x), cfg.mmMarkets \in Nat, cfg.perEvent \in Nat,
         NEW Q, Q = IF FullFor(x, P) THEN P ELSE P \cup {x}
  PROVE  SelectedWell(Q, s \cup {x})
<1> DEFINE like(m, R) == {n \in R : Event[n] = Event[m]}
<1>1. /\ P \subseteq s /\ x \notin P /\ IsFiniteSet(P) /\ Cardinality(P) \in Nat
      /\ \A m : IsFiniteSet(like(m, P)) /\ Cardinality(like(m, P)) \in Nat
  <2>1. P \subseteq s /\ x \notin P
    BY DEF SelectedWell
  <2>2. IsFiniteSet(P) /\ \A m : like(m, P) \subseteq P
    BY <2>1, FS_Subset
  <2>3. \A m : IsFiniteSet(like(m, P))
    BY <2>2, FS_Subset
  <2>4. QED
    BY <2>1, <2>2, <2>3, FS_CardinalityType
<1>2. \A m, R : SameEvent(m, R) = Cardinality(like(m, R))
  BY DEF SameEvent
<1>6. \A m : SameEvent(m, P) \in Nat
  BY <1>1, <1>2
<1> HIDE DEF like
<1>3. ASSUME ~FullFor(x, P) PROVE SelectedWell(Q, s \cup {x})
  <2>1. Q = P \cup {x} /\ Q \subseteq s \cup {x}
    BY <1>1, <1>3
  <2>2. Cardinality(P) < cfg.mmMarkets /\ (cfg.perEvent # 0 => SameEvent(x, P) < cfg.perEvent)
    BY <1>1, <1>3, <1>6 DEF FullFor
  <2>3. Cardinality(Q) = Cardinality(P) + 1
    BY <1>1, <2>1, FS_AddElement
  <2>4. ASSUME NEW m, Event[m] = Event[x] PROVE SameEvent(m, Q) = SameEvent(x, P) + 1
    <3>1. like(m, Q) = like(x, P) \cup {x} /\ x \notin like(x, P)
      BY <1>1, <2>1, <2>4 DEF like
    <3>2. Cardinality(like(m, Q)) = Cardinality(like(x, P)) + 1
      BY <1>1, <3>1, FS_AddElement
    <3>3. QED
      BY <1>2, <3>2
  <2>5. ASSUME NEW m, Event[m] # Event[x] PROVE like(m, Q) = like(m, P) /\ SameEvent(m, Q) = SameEvent(m, P)
    <3>1. like(m, Q) = like(m, P)
      BY <1>1, <2>1, <2>5 DEF like
    <3>2. QED
      BY <1>2, <3>1
  <2>6. ASSUME cfg.perEvent # 0, NEW m \in Q PROVE SameEvent(m, Q) <= cfg.perEvent
    <3>1. CASE Event[m] = Event[x]
      BY <1>6, <2>2, <2>4, <2>6, <3>1
    <3>2. CASE Event[m] # Event[x]
      <4>1. m \in P
        BY <2>1, <2>6, <3>2
      <4>2. QED
        BY <2>5, <2>6, <3>2, <4>1 DEF SelectedWell
    <3>3. QED
      BY <3>1, <3>2
  <2>7. ASSUME NEW m \in (s \cup {x}) \ Q PROVE Passed(m, Q)
    <3>1. m \in s \ P
      BY <2>1
    <3>2. Passed(m, P)
      BY <3>1 DEF SelectedWell
    <3>3. /\ cfg.perEvent # 0 /\ SameEvent(m, P) = cfg.perEvent
          /\ \A n \in P : Event[n] = Event[m] => Outranks(n, m)
      BY <1>1, <2>2, <3>2 DEF Passed
    <3>4. Event[m] # Event[x]
      <4>1. SUFFICES ASSUME Event[m] = Event[x] PROVE FALSE
        OBVIOUS
      <4>2. SameEvent(m, P) = SameEvent(x, P)
        <5>1. like(m, P) = like(x, P)
          BY <4>1 DEF like
        <5>2. QED
          BY <1>2, <5>1
      <4>3. QED
        BY <1>6, <2>2, <3>3, <4>2
    <3>5. QED
      <4>1. \A n \in Q : Event[n] = Event[m] => Outranks(n, m)
        BY <2>1, <3>3, <3>4
      <4>2. SameEvent(m, Q) = cfg.perEvent
        BY <2>5, <3>3, <3>4
      <4>3. QED
        BY <3>3, <4>1, <4>2 DEF Passed
  <2>8. QED
    <3>1. Cardinality(Q) <= cfg.mmMarkets
      BY <1>1, <2>2, <2>3
    <3>2. QED
      BY <2>1, <2>6, <2>7, <3>1 DEF SelectedWell
<1>4. ASSUME FullFor(x, P) PROVE SelectedWell(Q, s \cup {x})
  <2>1. Q = P
    BY <1>4
  <2>2. Cardinality(P) <= cfg.mmMarkets /\ \A n \in P : Outranks(n, x)
    BY <1>1 DEF SelectedWell
  <2>3. Passed(x, P)
    <3>1. CASE Cardinality(P) >= cfg.mmMarkets
      BY <1>1, <2>2, <3>1 DEF Passed
    <3>2. CASE cfg.perEvent # 0 /\ SameEvent(x, P) >= cfg.perEvent
      <4>1. like(x, P) # {}
        <5>1. SUFFICES ASSUME like(x, P) = {} PROVE FALSE
          OBVIOUS
        <5>2. SameEvent(x, P) = 0
          BY <1>2, <5>1, FS_EmptySet
        <5>3. QED
          BY <3>2, <5>2
      <4>2. PICK n \in P : Event[n] = Event[x]
        BY <4>1 DEF like
      <4>3. SameEvent(n, P) = SameEvent(x, P)
        <5>1. like(n, P) = like(x, P)
          BY <4>2 DEF like
        <5>2. QED
          BY <1>2, <5>1
      <4>4. SameEvent(n, P) <= cfg.perEvent
        BY <3>2, <4>2 DEF SelectedWell
      <4>5. SameEvent(x, P) = cfg.perEvent
        BY <1>6, <3>2, <4>3, <4>4
      <4>6. QED
        BY <2>2, <3>2, <4>5 DEF Passed
    <3>3. QED
      BY <1>4, <3>1, <3>2 DEF FullFor
  <2>4. \A m \in (s \cup {x}) \ P : Passed(m, P)
    BY <2>3 DEF SelectedWell
  <2>5. QED
    BY <2>1, <2>4 DEF SelectedWell
<1>5. QED
  BY <1>3, <1>4

(* What mm_market_selection returns, whatever the registry has.            *)
LEMMA SelectedIsBest ==
  ASSUME reg \in Registries, cfg.mmMarkets \in Nat, cfg.perEvent \in Nat
  PROVE  SelectedWell(Selected, {m \in ToSet(reg) : Routed(m)})
<1> DEFINE S == {m \in ToSet(reg) : Routed(m)}
<1>1. PICK g : Selected = g[S] /\ Selects(g, S)
  <2>1. S = {m \in ToSet(reg) : Routed(m)}
    OBVIOUS
  <2> HIDE DEF S
  <2>2. QED
    BY <2>1, SelectedFolds
<1> DEFINE G == {s \in SUBSET S : SelectedWell(g[s], s)}
<1>2. IsFiniteSet(S) /\ S \subseteq ToSet(reg)
  BY MarketsRegistered, FS_Subset
<1>3. ASSUME NEW s \in SUBSET S, \A x \in s : s \ {x} \in G
      PROVE  s \in G
  <2>1. CASE s = {}
    <3>1. g[s] = {} /\ Cardinality({}) = 0
      BY <1>1, <2>1, FS_EmptySet DEF Selects
    <3>2. SelectedWell({}, {})
      BY <3>1 DEF SelectedWell
    <3>3. QED
      BY <2>1, <3>1, <3>2
  <2>2. CASE s # {}
    <3> DEFINE x == LastRanked(s)
               rest == s \ {x}
    <3>1. x \in s /\ \A n \in rest : Outranks(n, x)
      BY <1>2, <2>2, LastRankedIs
    <3>2. SelectedWell(g[rest], rest)
      BY <1>3, <3>1
    <3>3. g[s] = IF FullFor(x, g[rest]) THEN g[rest] ELSE g[rest] \cup {x}
      BY <1>1, <2>2 DEF Selects
    <3>4. x \notin rest /\ IsFiniteSet(rest) /\ s = rest \cup {x}
      BY <1>2, <3>1, FS_Subset
    <3> HIDE DEF x, rest, S
    <3>5. SelectedWell(g[s], rest \cup {x})
      BY <3>1, <3>2, <3>3, <3>4, SelectsOne
    <3>6. QED
      BY <3>4, <3>5
  <2>3. QED
    BY <2>1, <2>2
<1>4. SUBSET S \subseteq G
  <2> HIDE DEF G
  <2>1. IsFiniteSet(S)
    BY <1>2
  <2>2. \A s \in SUBSET S : (\A x \in s : s \ {x} \in G) => s \in G
    BY ONLY <1>3
  <2>3. QED
    BY ONLY <2>1, <2>2, SubsetInduction
<1>5. QED
  <2>1. S \in G
    BY <1>4
  <2>2. QED
    BY <1>1, <2>1

\* what the walk over s has funded
FundedWell(P, s) ==
  /\ P \subseteq s /\ CostOf(P) \in Int /\ CostOf(P) <= cfg.mmCapital
  /\ \A m \in s \ P : ~Affordable(m, P)

LEMMA FundsOne ==
  ASSUME NEW s, NEW x, x \notin s, IsFiniteSet(s), s \subseteq Condition, x \in Condition,
         \A m \in s \cup {x} : CostOfMarket[m] \in Nat, NEW P, FundedWell(P, s),
         cfg.mmCapital \in Int, NEW Q, Q = IF Affordable(x, P) THEN P \cup {x} ELSE P
  PROVE  FundedWell(Q, s \cup {x})
<1>1. \A R : CostOf(R) = Total(CostOfMarket, R)
  BY Zenon DEF CostOf, SumFunctionOnSet, FoldFunctionOnSet, Total, MapThenSumSet
<1>2. P \subseteq s /\ x \notin P /\ IsFiniteSet(P)
  BY FS_Subset DEF FundedWell
<1>3. ASSUME Affordable(x, P) PROVE FundedWell(Q, s \cup {x})
  <2>1. Q = P \cup {x} /\ IsFiniteSet(Q) /\ Q \ {x} = P
    BY <1>2, <1>3, FS_AddElement
  <2>2. CostOf(Q) = CostOfMarket[x] + CostOf(P)
    <3>1. \A m \in Q : CostOfMarket[m] \in Int
      BY <1>2, <2>1
    <3>2. Total(CostOfMarket, Q) = CostOfMarket[x] + Total(CostOfMarket, Q \ {x})
      BY <2>1, <3>1, TotalTake
    <3>3. QED
      BY <1>1, <2>1, <3>2
  <2>3. CostOf(P) \in Int /\ CostOfMarket[x] \in Nat /\ CostOf(P) + CostOfMarket[x] <= cfg.mmCapital
    BY <1>3 DEF FundedWell, Affordable
  <2>4. ASSUME NEW m \in (s \cup {x}) \ Q PROVE ~Affordable(m, Q)
    <3>1. m \in s \ P /\ CostOfMarket[m] \in Nat
      BY <2>1
    <3>2. ~(CostOf(P) + CostOfMarket[m] <= cfg.mmCapital)
      BY <3>1 DEF FundedWell, Affordable
    <3>3. QED
      BY <2>2, <2>3, <3>1, <3>2 DEF Affordable
  <2>5. Q \subseteq s \cup {x} /\ CostOf(Q) \in Int /\ CostOf(Q) <= cfg.mmCapital
    BY <1>2, <2>1, <2>2, <2>3
  <2>6. QED
    BY <2>4, <2>5 DEF FundedWell
<1>4. ASSUME ~Affordable(x, P) PROVE FundedWell(Q, s \cup {x})
  BY <1>2, <1>4 DEF FundedWell
<1>5. QED
  BY <1>3, <1>4

(* What select_reward_markets returns.                                     *)
LEMMA FundedIsBest ==
  ASSUME reg \in Registries, cfg.mmCapital \in Nat
  PROVE  FundedWell(Funded, {m \in ToSet(reg) : Farmable(m)})
<1> DEFINE S == {m \in ToSet(reg) : Farmable(m)}
<1>1. PICK g : Funded = g[S] /\ Funds(g, S)
  <2>1. S = {m \in ToSet(reg) : Farmable(m)}
    OBVIOUS
  <2> HIDE DEF S
  <2>2. QED
    BY <2>1, FundedFolds
<1> DEFINE G == {s \in SUBSET S : FundedWell(g[s], s)}
<1>2. IsFiniteSet(S) /\ S \subseteq ToSet(reg) /\ S \subseteq Condition
  BY MarketsRegistered, FS_Subset
<1>3. \A m \in S : CostOfMarket[m] \in Nat
  <2>1. \A m \in S : CostOfMarket[m] \in Int /\ CostOfMarket[m] > 0
    BY <1>2, StartupAssumption DEF StartupAssumption, Farmable, CostOfMarket
  <2>2. QED
    BY <2>1
<1>4. ASSUME NEW s \in SUBSET S, \A x \in s : s \ {x} \in G
      PROVE  s \in G
  <2>1. CASE s = {}
    <3>1. g[s] = {}
      BY <1>1, <2>1 DEF Funds
    <3>2. CostOf({}) = 0
      <4>1. CostOf({}) = Total(CostOfMarket, {})
        BY Zenon DEF CostOf, SumFunctionOnSet, FoldFunctionOnSet, Total, MapThenSumSet
      <4>2. QED
        BY <4>1, TotalEmpty
    <3>3. FundedWell({}, {})
      BY <3>2 DEF FundedWell
    <3>4. QED
      BY <2>1, <3>1, <3>3
  <2>2. CASE s # {}
    <3> DEFINE x == LastPaid(s)
               rest == s \ {x}
    <3>1. x \in s
      BY <1>2, <2>2, LastPaidIs
    <3>2. FundedWell(g[rest], rest)
      BY <1>4, <3>1
    <3>3. g[s] = IF Affordable(x, g[rest]) THEN g[rest] \cup {x} ELSE g[rest]
      BY <1>1, <2>2 DEF Funds
    <3>4. /\ x \notin rest /\ IsFiniteSet(rest) /\ s = rest \cup {x} /\ rest \subseteq Condition
          /\ x \in Condition /\ \A m \in rest \cup {x} : CostOfMarket[m] \in Nat
      BY <1>2, <1>3, <3>1, FS_Subset
    <3>5. cfg.mmCapital \in Int
      OBVIOUS
    <3> HIDE DEF x, rest, S
    <3>6. FundedWell(g[s], rest \cup {x})
      BY <3>2, <3>3, <3>4, <3>5, FundsOne
    <3>7. QED
      BY <3>4, <3>6
  <2>3. QED
    BY <2>1, <2>2
<1>5. SUBSET S \subseteq G
  <2> HIDE DEF G
  <2>1. IsFiniteSet(S)
    BY <1>2
  <2>2. \A s \in SUBSET S : (\A x \in s : s \ {x} \in G) => s \in G
    BY ONLY <1>4
  <2>3. QED
    BY ONLY <2>1, <2>2, SubsetInduction
<1>6. QED
  <2>1. S \in G
    BY <1>5
  <2>2. QED
    BY <1>1, <2>1

\* every component of s is in a chunk, and no chunk is shared beyond its capacity
PackedWell(open, s, cap) ==
  /\ \A c \in s : \E i \in DOMAIN open : c \subseteq open[i]
  /\ \A i \in DOMAIN open : open[i] \in s \/ 2 * Cardinality(open[i]) <= cap

LEMMA PacksOne ==
  ASSUME NEW U, IsFiniteSet(U), NEW open \in Seq(SUBSET U), NEW comp \in SUBSET U, NEW cap \in Nat,
         NEW s, PackedWell(open, s, cap)
  PROVE  PackedWell(PackedInto(open, comp, cap), s \cup {comp}, cap)
<1> DEFINE packed == PackedInto(open, comp, cap)
<1>0. packed = PackedInto(open, comp, cap)
  OBVIOUS
<1> HIDE DEF packed
<1>1. OneTakes(packed, open, comp, cap)
  BY <1>0, PackedIntoIs
<1>5. PICK i \in DOMAIN packed :
         /\ packed[i] = comp \/ (i \in DOMAIN open /\ packed[i] = open[i] \cup comp /\ Fits(open[i], comp, cap))
         /\ i \in DOMAIN open => packed[i] = open[i] \cup comp
         /\ \A j \in DOMAIN packed : j # i => j \in DOMAIN open /\ packed[j] = open[j]
  BY <1>1 DEF OneTakes
<1>6. DOMAIN open \subseteq DOMAIN packed
  BY <1>1 DEF OneTakes
<1>2. ASSUME NEW c \in s \cup {comp} PROVE \E j \in DOMAIN packed : c \subseteq packed[j]
  <2>1. CASE c = comp
    BY <1>5, <1>6, <2>1
  <2>2. CASE c \in s
    <3>1. PICK j \in DOMAIN open : c \subseteq open[j]
      BY <2>2 DEF PackedWell
    <3>2. j \in DOMAIN packed /\ open[j] \subseteq packed[j]
      BY <1>5, <1>6, <3>1
    <3>3. QED
      BY <3>1, <3>2
  <2>3. QED
    BY <2>1, <2>2
<1>3. ASSUME NEW j \in DOMAIN packed PROVE packed[j] \in s \cup {comp} \/ 2 * Cardinality(packed[j]) <= cap
  <2>1. CASE j # i
    BY <1>5, <2>1 DEF PackedWell
  <2>2. CASE j = i /\ packed[i] = comp
    BY <2>2
  <2>3. CASE j = i /\ i \in DOMAIN open /\ packed[i] = open[i] \cup comp /\ Fits(open[i], comp, cap)
    <3>1. open[i] \in SUBSET U
      BY <2>3
    <3>2. IsFiniteSet(open[i]) /\ IsFiniteSet(comp) /\ IsFiniteSet(open[i] \cap comp)
      BY <3>1, FS_Subset
    <3>3. /\ Cardinality(open[i]) \in Nat /\ Cardinality(comp) \in Nat /\ Cardinality(open[i] \cap comp) \in Nat
          /\ Cardinality(packed[i]) \in Nat
          /\ Cardinality(packed[i]) = Cardinality(open[i]) + Cardinality(comp) - Cardinality(open[i] \cap comp)
      BY <2>3, <3>2, FS_Union, FS_CardinalityType
    <3>4. 2 * (Cardinality(open[i]) + Cardinality(comp)) <= cap
      BY <2>3 DEF Fits
    <3>5. QED
      BY <2>3, <3>3, <3>4
  <2>4. QED
    BY <1>5, <2>1, <2>2, <2>3
<1>4. QED
  BY <1>2, <1>3 DEF PackedWell, packed

(* What pack_components returns: no component is split.                    *)
LEMMA PackedIsWhole ==
  ASSUME reg \in Registries, NEW cap \in Nat
  PROVE  PackedWell(Packed(cap), ComponentsOf, cap)
<1> DEFINE S == ComponentsOf
           T == Seq(SUBSET ToSet(reg))
<1>1. PICK g : Packed(cap) = g[S] /\ Packs(g, S, cap)
  <2>1. S = ComponentsOf
    OBVIOUS
  <2> HIDE DEF S
  <2>2. QED
    BY <2>1, PackedFolds
<1> DEFINE G == {s \in SUBSET S : PackedWell(g[s], s, cap)}
<1>2. IsFiniteSet(S) /\ S \subseteq SUBSET ToSet(reg) /\ IsFiniteSet(ToSet(reg))
  BY ComponentsAre, MarketsRegistered
<1>3. ASSUME NEW s \in SUBSET S, \A x \in s : s \ {x} \in G
      PROVE  s \in G
  <2>1. CASE s = {}
    <3>1. g[s] = <<>> /\ DOMAIN g[s] = {}
      BY <1>1, <2>1 DEF Packs
    <3>2. PackedWell(g[s], s, cap)
      BY <2>1, <3>1 DEF PackedWell
    <3>3. QED
      BY <3>2
  <2>2. CASE s # {}
    <3> DEFINE x == Smallest(s)
               rest == s \ {x}
               U == ToSet(reg)
    <3>1. x \in s
      BY <2>2, SmallestIs
    <3>2. PackedWell(g[rest], rest, cap)
      BY <1>3, <3>1
    <3>3. g[s] = PackedInto(g[rest], x, cap) /\ g[rest] \in Seq(SUBSET U)
      BY <1>1, <2>2 DEF Packs
    <3>4. s = rest \cup {x} /\ x \in SUBSET U /\ IsFiniteSet(U)
      BY <1>2, <3>1
    <3> HIDE DEF x, rest, S, U
    <3>5. PackedWell(g[s], rest \cup {x}, cap)
      BY <3>2, <3>3, <3>4, PacksOne
    <3>6. QED
      BY <3>4, <3>5
  <2>3. QED
    BY <2>1, <2>2
<1>4. SUBSET S \subseteq G
  <2> HIDE DEF G
  <2>1. IsFiniteSet(S)
    BY <1>2
  <2>2. \A s \in SUBSET S : (\A x \in s : s \ {x} \in G) => s \in G
    BY ONLY <1>3
  <2>3. QED
    BY ONLY <2>1, <2>2, SubsetInduction
<1>5. QED
  <2>1. S \in G
    BY <1>4
  <2>2. QED
    BY <1>1, <2>1

(* The registry's handles: two to a market.                                *)
LEMMA HandlesAre ==
  ASSUME reg \in Registries
  PROVE  /\ \A m \in ToSet(reg) : TokensOf(m) = {2 * IdOf(m) - 1, 2 * IdOf(m)} /\ TokensOf(m) \subseteq Known
         /\ \A m \in ToSet(reg), s \in Side : HandleOf(<<m, s>>) \in TokensOf(m)
         /\ \A m \in ToSet(reg), n \in ToSet(reg) : TokensOf(m) \cap TokensOf(n) # {} => m = n
<1>1. /\ Len(reg) \in Nat
      /\ \A m \in ToSet(reg) : IdOf(m) \in 1 .. Len(reg) /\ reg[IdOf(m)] = m
  BY MarketsRegistered
<1>2. \A m \in ToSet(reg) : HandleOf(<<m, "yes">>) = 2 * IdOf(m) - 1 /\ HandleOf(<<m, "no">>) = 2 * IdOf(m)
  <2> TAKE m \in ToSet(reg)
  <2>1. \A s \in Side : HandleOf(<<m, s>>) = 2 * IdOf(m) - (IF s = "yes" THEN 1 ELSE 0)
    BY Zenon DEF HandleOf, IdOf
  <2>2. QED
    BY <1>1, <2>1 DEF Side
<1>3. ASSUME NEW m \in ToSet(reg)
      PROVE  /\ TokensOf(m) = {2 * IdOf(m) - 1, 2 * IdOf(m)} /\ TokensOf(m) \subseteq Known
             /\ \A s \in Side : HandleOf(<<m, s>>) \in TokensOf(m)
  <2>1. TokensOf(m) = {2 * IdOf(m) - 1, 2 * IdOf(m)}
    BY <1>2 DEF TokensOf, Side
  <2>2. 2 * IdOf(m) - 1 \in Known /\ 2 * IdOf(m) \in Known
    <3>1. IdOf(m) \in 1 .. Len(reg) /\ Len(reg) \in Nat
      BY <1>1
    <3>2. QED
      BY <3>1 DEF Known
  <2>3. QED
    BY <2>1, <2>2 DEF TokensOf
<1>4. ASSUME NEW m \in ToSet(reg), NEW n \in ToSet(reg), TokensOf(m) \cap TokensOf(n) # {} PROVE m = n
  <2>1. IdOf(m) \in Nat /\ IdOf(n) \in Nat
    BY <1>1
  <2>2. IdOf(m) = IdOf(n)
    BY <1>3, <1>4, <2>1
  <2>3. QED
    BY <1>1, <2>2
<1>5. QED
  BY <1>3, <1>4

(* A handle is one token of the venue, and no other handle is.             *)
LEMMA VenueOfIs ==
  ASSUME reg \in Registries
  PROVE  /\ \A t \in Known : VenueOf(t) \in VenueToken
         /\ \A t \in Known, u \in Known : VenueOf(t) = VenueOf(u) => t = u
<1>1. Len(reg) \in Nat /\ DOMAIN reg = 1 .. Len(reg) /\ \A i \in 1 .. Len(reg) : reg[i] \in Condition
  BY DEF Registries
<1>2. ASSUME NEW t \in Known
      PROVE  /\ t \in Nat /\ (t + 1) \div 2 \in 1 .. Len(reg)
             /\ t = 2 * ((t + 1) \div 2) - (IF t % 2 = 1 THEN 1 ELSE 0)
  <2>1. t \in Nat /\ 1 <= t /\ t <= 2 * Len(reg)
    BY <1>1 DEF Known
  <2>2. QED
    BY <1>1, <2>1
<1>3. ASSUME NEW t \in Known PROVE VenueOf(t) \in VenueToken
  BY <1>1, <1>2 DEF VenueOf, VenueToken, Side
<1>4. ASSUME NEW t \in Known, NEW u \in Known, VenueOf(t) = VenueOf(u) PROVE t = u
  <2>1. reg[(t + 1) \div 2] = reg[(u + 1) \div 2] /\ (t % 2 = 1 <=> u % 2 = 1)
    BY <1>4 DEF VenueOf
  <2>2. (t + 1) \div 2 = (u + 1) \div 2
    BY <1>1, <1>2, <2>1 DEF Registries
  <2>3. QED
    BY <1>2, <2>1, <2>2
<1>5. QED
  BY <1>3, <1>4

LEMMA PickedRegistered ==
  ASSUME reg \in Registries, cfg.mmMarkets \in Nat, cfg.perEvent \in Nat, cfg.mmCapital \in Nat
  PROVE  Picked \subseteq ToSet(reg)
<1>1. Selected \subseteq ToSet(reg)
  BY SelectedIsBest DEF SelectedWell
<1>2. Funded \subseteq ToSet(reg)
  BY FundedIsBest DEF FundedWell
<1>3. QED
  BY <1>1, <1>2 DEF Picked

(* Only markets picked are quoted; without signals each of them is.        *)
LEMMA ServedIs ==
  ASSUME reg \in Registries, cfg.mmMarkets \in Nat, cfg.perEvent \in Nat, cfg.mmCapital \in Nat
  PROVE  /\ Quoted \subseteq Known
         /\ cfg.mm => LET served == {m \in ToSet(reg) : TokensOf(m) \cap Quoted # {}}
                      IN  /\ served \subseteq Picked
                          /\ RewardFarm(cfg) \/ favoured = {} => served = Picked
<1>1. Picked \subseteq ToSet(reg)
  BY PickedRegistered
<1>2. \A m \in ToSet(reg) : QuotesOf(m) \subseteq TokensOf(m)
  BY HandlesAre DEF QuotesOf, Side
<1>3. Quoted \subseteq Known
  BY <1>1, <1>2, HandlesAre DEF Quoted
<1>4. ASSUME cfg.mm, NEW m \in ToSet(reg), TokensOf(m) \cap Quoted # {} PROVE m \in Picked
  <2>1. PICK t : t \in TokensOf(m) /\ t \in Quoted
    BY <1>4
  <2>2. PICK n \in Picked : t \in QuotesOf(n)
    BY <1>4, <2>1 DEF Quoted
  <2>3. m = n
    BY <1>1, <1>2, <2>1, <2>2, HandlesAre
  <2>4. QED
    BY <2>2, <2>3
<1>5. ASSUME cfg.mm, RewardFarm(cfg) \/ favoured = {}, NEW m \in Picked PROVE TokensOf(m) \cap Quoted # {}
  <2>1. QuotesOf(m) # {} /\ QuotesOf(m) \subseteq TokensOf(m)
    <3>1. TokensOf(m) # {}
      BY <1>1, HandlesAre DEF Side
    <3>2. QED
      BY <1>1, <1>2, <1>5, <3>1 DEF QuotesOf
  <2>2. QuotesOf(m) \subseteq Quoted
    BY <1>5 DEF Quoted
  <2>3. QED
    BY <2>1, <2>2
<1>6. QED
  BY <1>1, <1>3, <1>4, <1>5

-----------------------------------------------------------------------------
(* What always holds of a launch: no market has two ids, nothing is quoted *)
(* that has no handle, and what a live market maker resumed is backed.     *)
StartupInv ==
  /\ phase # "off" => cfg \in Configs /\ Valid(cfg)
  /\ reg \in Registries /\ Len(reg) <= Cardinality(Condition)
  /\ quotes \subseteq Known /\ (phase # "run" => quotes = {})
  /\ lots \in [Handle -> Int] /\ inv \in [Handle -> Int] /\ wallet \in [VenueToken -> Nat]
  /\ NoPhantomAsk

LEMMA KnownHandles ==
  ASSUME reg \in Registries, Len(reg) <= Cardinality(Condition) PROVE Known \subseteq Handle
<1>1. Len(reg) \in Nat /\ Cardinality(Condition) \in Nat
  BY StartupAssumption, FS_CardinalityType, MarketsRegistered DEF StartupAssumption
<1>2. QED
  BY <1>1 DEF Known, Handle

LEMMA StartupInitially == StartupInit => StartupInv
<1> SUFFICES ASSUME StartupInit PROVE StartupInv
  OBVIOUS
<1>1. <<>> \in Registries /\ Len(<<>>) = 0
  BY DEF Registries
<1>2. Cardinality(Condition) \in Nat
  BY StartupAssumption, FS_CardinalityType DEF StartupAssumption
<1>3. Nothing \in [Handle -> Int]
  BY DEF Nothing
<1>4. QED
  BY <1>1, <1>2, <1>3 DEF StartupInit, StartupInv, NoPhantomAsk

(* The seed is typed, and on a live run backed by the wallet.              *)
LEMMA SeedBacked ==
  ASSUME StartupInv, NEW q \in SUBSET Known, NEW f \in Seeds(q)
  PROVE  /\ f \in [Handle -> Int]
         /\ live => \A t \in Known : VenueOf(t)[1] \notin resolved /\ f[t] > 0 => f[t] <= wallet[VenueOf(t)]
<1>1. Known \subseteq Handle /\ \A t \in Known : wallet[VenueOf(t)] \in Nat
  BY KnownHandles, VenueOfIs DEF StartupInv
<1>2. StoreSeed(q) \in [Handle -> Int]
  BY DEF StoreSeed, StartupInv
<1>3. /\ Reconciled(StoreSeed(q)) \in [Handle -> Int]
      /\ \A t \in Known : VenueOf(t)[1] \notin resolved /\ Reconciled(StoreSeed(q))[t] > 0
                          => Reconciled(StoreSeed(q))[t] <= wallet[VenueOf(t)]
  <2> DEFINE g == StoreSeed(q)
  <2>1. g \in [Handle -> Int]
    BY <1>2
  <2> HIDE DEF g
  <2>2. Reconciled(g) \in [Handle -> Int]
    BY <1>1, <2>1 DEF Reconciled, SmallerOf
  <2>3. \A t \in Known : VenueOf(t)[1] \notin resolved /\ Reconciled(g)[t] > 0
                         => Reconciled(g)[t] <= wallet[VenueOf(t)]
    BY <1>1, <2>1 DEF Reconciled, SmallerOf
  <2>4. QED
    BY <2>2, <2>3 DEF g
<1>4. Nothing \in [Handle -> Int] /\ \A t \in Known : Nothing[t] = 0
  BY <1>1 DEF Nothing
<1>5. QED
  BY <1>2, <1>3, <1>4 DEF Seeds

(* A fill moves one handle and the wallet's shares of its token together.  *)
LEMMA FillBacked ==
  ASSUME StartupInv, NEW t \in Handle, NEW n \in {1, -1}, MmFill(t, n)
  PROVE  /\ lots' \in [Handle -> Int] /\ inv' \in [Handle -> Int] /\ wallet' \in [VenueToken -> Nat]
         /\ NoPhantomAsk'
<1>1. t \in quotes /\ t \in Known /\ VenueOf(t) \in VenueToken
  BY VenueOfIs DEF MmFill, Trading, StartupInv
<1>2. \A u \in quotes : u \in Known /\ VenueOf(u) \in VenueToken /\ (VenueOf(u) = VenueOf(t) => u = t)
  BY <1>1, VenueOfIs DEF StartupInv
<1>3. inv' = [inv EXCEPT ![t] = @ + n] /\ inv' \in [Handle -> Int] /\ lots' \in [Handle -> Int]
  BY DEF MmFill, StartupInv
<1>4. wallet \in [VenueToken -> Nat] /\ inv \in [Handle -> Int] /\ quotes \subseteq Handle
  BY KnownHandles DEF StartupInv
<1>5. /\ wallet' \in [VenueToken -> Nat]
      /\ MmTradesLive => wallet' = [wallet EXCEPT ![VenueOf(t)] = @ + n]
  <2>1. CASE ~MmTradesLive
    BY <1>4, <2>1 DEF MmFill, ToWallet
  <2>2. CASE MmTradesLive
    <3>1. wallet' = [wallet EXCEPT ![VenueOf(t)] = @ + n]
      BY <2>2 DEF MmFill, ToWallet
    <3>2. wallet[VenueOf(t)] \in Nat /\ (n < 0 => wallet[VenueOf(t)] > 0)
      BY <1>1, <1>4, <2>2 DEF MmFill
    <3>3. wallet[VenueOf(t)] + n \in Nat
      BY <3>2
    <3>4. QED
      BY <1>4, <3>1, <3>3
  <2>3. QED
    BY <2>1, <2>2
<1>6. /\ UNCHANGED <<quotes, resolved, live, cfg, reg, phase>> /\ phase = "run"
      /\ \A u : VenueOf(u)' = VenueOf(u)
  BY DEF MmFill, Trading, assembled, VenueOf
<1>7. (MmTradesLive' <=> MmTradesLive) /\ (CopyTradesLive' <=> CopyTradesLive)
  BY <1>6 DEF MmTradesLive, CopyTradesLive
<1>8. ASSUME MmTradesLive, ~CopyTradesLive, NEW u \in quotes, VenueOf(u)[1] \notin resolved, inv'[u] > 0
      PROVE  inv'[u] <= wallet'[VenueOf(u)]
  <2>1. inv[u] > 0 => inv[u] <= wallet[VenueOf(u)]
    BY <1>6, <1>8 DEF StartupInv, NoPhantomAsk
  <2>2. wallet[VenueOf(u)] \in Nat /\ inv[u] \in Int /\ VenueOf(u) \in VenueToken
    BY <1>2, <1>4
  <2>3. CASE u = t
    <3>1. inv'[u] = inv[u] + n /\ wallet'[VenueOf(u)] = wallet[VenueOf(u)] + n
      BY <1>3, <1>4, <1>5, <1>8, <2>2, <2>3
    <3>2. n < 0 => inv[u] > 0
      BY <2>3 DEF MmFill
    <3>3. QED
      BY <1>8, <2>1, <2>2, <3>1, <3>2
  <2>4. CASE u # t
    <3>1. inv'[u] = inv[u] /\ wallet'[VenueOf(u)] = wallet[VenueOf(u)]
      BY <1>2, <1>3, <1>4, <1>5, <1>8, <2>2, <2>4
    <3>2. QED
      BY <1>8, <2>1, <3>1
  <2>5. QED
    BY <2>3, <2>4
<1>9. NoPhantomAsk'
  BY <1>6, <1>7, <1>8 DEF NoPhantomAsk
<1>10. QED
  BY <1>3, <1>5, <1>9

(* A step that leaves the launch and the market maker's books alone, and   *)
(* takes nothing from the wallet unless the copy strategy trades live.     *)
LEMMA WalletBacked ==
  ASSUME StartupInv, UNCHANGED <<phase, cfg, live, reg, quotes, inv, lots>>,
         resolved \subseteq resolved', wallet' \in [VenueToken -> Nat],
         ~CopyTradesLive => \A v \in VenueToken : wallet'[v] >= wallet[v]
  PROVE  StartupInv'
<1>1. /\ MmTradesLive' <=> MmTradesLive
      /\ CopyTradesLive' <=> CopyTradesLive
      /\ \A u : VenueOf(u)' = VenueOf(u)
      /\ Known' = Known
  BY DEF MmTradesLive, CopyTradesLive, VenueOf, Known
<1>2. \A u \in quotes : VenueOf(u) \in VenueToken /\ inv[u] \in Int /\ wallet[VenueOf(u)] \in Nat
  BY VenueOfIs, KnownHandles DEF StartupInv
<1>3. NoPhantomAsk'
  <2> SUFFICES ASSUME phase = "run", MmTradesLive, ~CopyTradesLive, NEW t \in quotes,
                      VenueOf(t)[1] \notin resolved', inv[t] > 0
               PROVE  inv[t] <= wallet'[VenueOf(t)]
    BY <1>1 DEF NoPhantomAsk
  <2>1. inv[t] <= wallet[VenueOf(t)]
    BY DEF StartupInv, NoPhantomAsk
  <2>2. wallet'[VenueOf(t)] >= wallet[VenueOf(t)] /\ wallet'[VenueOf(t)] \in Nat
    BY <1>2
  <2>3. QED
    BY <1>2, <2>1, <2>2
<1>4. QED
  BY <1>1, <1>3 DEF StartupInv

(* What Config::validate makes of a launch's configuration.                *)
LEMMA ConfigIs ==
  ASSUME StartupInv, phase # "off"
  PROVE  cfg.mmMarkets \in Nat /\ cfg.perEvent \in Nat /\ cfg.mmCapital \in Nat /\ cfg.chunk \in Nat
  BY StartupAssumption DEF StartupInv, StartupAssumption, Valid

LEMMA WireBacked == StartupInv /\ Wire => StartupInv'
<1> SUFFICES ASSUME StartupInv, Wire PROVE StartupInv'
  OBVIOUS
<1>1. UNCHANGED <<cfg, live, reg, lots, wallet, resolved>> /\ phase = "wire" /\ phase' = "run"
      /\ quotes' = Quoted /\ inv' \in Seeds(quotes')
  BY DEF Wire, chain
<1>2. Quoted \subseteq Known
  BY <1>1, ConfigIs, ServedIs DEF StartupInv
<1>3. /\ inv' \in [Handle -> Int]
      /\ live => \A t \in Known : VenueOf(t)[1] \notin resolved /\ inv'[t] > 0 => inv'[t] <= wallet[VenueOf(t)]
  BY <1>1, <1>2, SeedBacked
<1>4. /\ MmTradesLive' => live
      /\ \A u : VenueOf(u)' = VenueOf(u)
      /\ Known' = Known
  BY <1>1 DEF MmTradesLive, VenueOf, Known
<1>5. NoPhantomAsk'
  BY <1>1, <1>2, <1>3, <1>4 DEF NoPhantomAsk
<1>6. QED
  BY <1>1, <1>2, <1>3, <1>4, <1>5 DEF StartupInv

LEMMA StartupStep == StartupInv /\ [StartupNext]_startupVars => StartupInv'
<1> SUFFICES ASSUME StartupInv, [StartupNext]_startupVars PROVE StartupInv'
  OBVIOUS
<1>1. ASSUME NEW c \in Configs, NEW l \in BOOLEAN, Load(c, l) PROVE StartupInv'
  BY <1>1 DEF Load, StartupInv, NoPhantomAsk, Known, chain
<1>2. CASE OpenStore
  BY <1>2 DEF OpenStore, StartupInv, NoPhantomAsk, Known, assembled, chain
<1>3. ASSUME NEW top, NEW copying, NEW found \in Arrangement, Sync(top, copying, found) PROVE StartupInv'
  <2>1. found \in Registries /\ Len(found) <= Cardinality(Condition)
    <3>1. PICK n \in 1 .. Cardinality(Condition) : found \in [1 .. n -> Condition] /\ IsInjective(found)
      BY <1>3 DEF Arrangement
    <3>2. Cardinality(Condition) \in Nat
      BY StartupAssumption, FS_CardinalityType DEF StartupAssumption
    <3>3. found \in Seq(Condition) /\ Len(found) = n /\ DOMAIN found = 1 .. n
      BY <3>1, <3>2
    <3>4. \A i \in DOMAIN found, j \in DOMAIN found : found[i] = found[j] => i = j
      BY <3>1 DEF IsInjective
    <3>5. QED
      BY <3>1, <3>2, <3>3, <3>4 DEF Registries
  <2>2. quotes' = {} /\ phase' = "wire"
    BY <1>3 DEF Sync, StartupInv
  <2>3. QED
    BY <1>3, <2>1, <2>2 DEF Sync, StartupInv, NoPhantomAsk, chain
<1>4. CASE Wire
  BY <1>4, WireBacked
<1>5. CASE Ends
  <2>1. <<>> \in Registries /\ Len(<<>>) = 0
    BY DEF Registries
  <2>2. Cardinality(Condition) \in Nat
    BY StartupAssumption, FS_CardinalityType DEF StartupAssumption
  <2>3. Nothing \in [Handle -> Int]
    BY DEF Nothing
  <2>4. QED
    BY <1>5, <2>1, <2>2, <2>3 DEF Ends, StartupInv, NoPhantomAsk, chain
<1>6. ASSUME NEW t \in Handle, NEW n \in {1, -1}, MmFill(t, n) PROVE StartupInv'
  <2>1. UNCHANGED <<phase, cfg, live, reg, quotes>>
    BY <1>6 DEF MmFill, assembled
  <2>2. QED
    BY <1>6, <2>1, FillBacked DEF StartupInv, Known
<1>7. ASSUME NEW m \in Condition, ArbHolds(m) PROVE StartupInv'
  <2>1. wallet' = [v \in VenueToken |-> wallet[v] + IF v[1] = m THEN 1 ELSE 0]
        /\ UNCHANGED <<phase, cfg, live, reg, quotes, inv, lots, resolved>>
    BY <1>7 DEF ArbHolds, assembled
  <2>2. wallet' \in [VenueToken -> Nat] /\ \A v \in VenueToken : wallet'[v] >= wallet[v]
    BY <2>1 DEF StartupInv
  <2>3. QED
    BY <2>1, <2>2, WalletBacked
<1>8. ASSUME NEW m \in Condition, Resolve(m) PROVE StartupInv'
  <2>1. UNCHANGED <<phase, cfg, live, reg, quotes, inv, lots, wallet>> /\ resolved \subseteq resolved'
    BY <1>8 DEF Resolve, assembled
  <2>2. wallet' \in [VenueToken -> Nat] /\ \A v \in VenueToken : wallet'[v] >= wallet[v]
    BY <2>1 DEF StartupInv
  <2>3. QED
    BY <2>1, <2>2, WalletBacked
<1>9. ASSUME NEW v \in VenueToken, NEW n \in {1, -1}, CopyTrade(v, n) PROVE StartupInv'
  <2>1. UNCHANGED <<phase, cfg, live, reg, quotes, inv, lots, resolved>> /\ CopyTradesLive
        /\ wallet' = [wallet EXCEPT ![v] = @ + n] /\ wallet[v] + n >= 0
    BY <1>9 DEF CopyTrade, assembled
  <2>2. wallet' \in [VenueToken -> Nat]
    BY <2>1 DEF StartupInv
  <2>3. QED
    BY <2>1, <2>2, WalletBacked
<1>10. CASE UNCHANGED startupVars
  BY <1>10 DEF startupVars, assembled, chain, StartupInv, NoPhantomAsk, Known, VenueOf, MmTradesLive, CopyTradesLive
<1>11. QED
  BY <1>1, <1>2, <1>3, <1>4, <1>5, <1>6, <1>7, <1>8, <1>9, <1>10 DEF StartupNext

(* A live market maker never offers shares the wallet does not have,       *)
(* whatever rows the store resumes and however the venue lists its markets.*)
THEOREM AsksAreBacked == StartupSpec => []NoPhantomAsk
<1>1. StartupInv => NoPhantomAsk
  BY DEF StartupInv
<1>2. QED
  BY <1>1, StartupInitially, StartupStep, PTL DEF StartupSpec

(* The supervisors' chunks as Wire makes them.                             *)
LEMMA ChunksWhole ==
  ASSUME StartupInv, Wire PROVE WholeComponents'
<1>1. UNCHANGED <<cfg, reg>> /\ chunks' = Packed(cfg.chunk) /\ reg \in Registries /\ cfg.chunk \in Nat
  BY ConfigIs DEF Wire, StartupInv
<1>2. PackedWell(chunks', ComponentsOf, cfg.chunk)
  BY <1>1, PackedIsWhole
<1>3. ASSUME NEW c \in ComponentsOf
      PROVE  \E i \in DOMAIN chunks' :
                c \subseteq chunks'[i] /\ (chunks'[i] = c \/ 2 * Cardinality(chunks'[i]) <= cfg.chunk)
  <2>1. PICK i \in DOMAIN chunks' : c \subseteq chunks'[i]
    BY <1>2 DEF PackedWell
  <2>2. chunks'[i] \in ComponentsOf \/ 2 * Cardinality(chunks'[i]) <= cfg.chunk
    BY <1>2 DEF PackedWell
  <2>3. chunks'[i] \in ComponentsOf => chunks'[i] = c
    BY <1>1, <2>1, ComponentsAre
  <2>4. QED
    BY <2>1, <2>2, <2>3
<1>4. ComponentsOf' = ComponentsOf
  BY <1>1 DEF ComponentsOf
<1>5. QED
  BY <1>1, <1>3, <1>4 DEF WholeComponents

(* What the market maker quotes as Wire has chosen it.                     *)
LEMMA ServedAtWire ==
  ASSUME StartupInv, Wire, cfg.mm
  PROVE  /\ Served' \subseteq Picked /\ Picked \subseteq ToSet(reg)
         /\ RewardFarm(cfg) \/ favoured = {} => Served' = Picked
         /\ UNCHANGED <<cfg, reg, favoured>>
         /\ \A m, n : Outranks(m, n)' <=> Outranks(m, n)
         /\ \A m : (Routed(m)' <=> Routed(m)) /\ (Farmable(m)' <=> Farmable(m))
<1>1. UNCHANGED <<cfg, reg, favoured>> /\ quotes' = Quoted /\ reg \in Registries
      /\ cfg.mmMarkets \in Nat /\ cfg.perEvent \in Nat /\ cfg.mmCapital \in Nat
  BY ConfigIs DEF Wire, StartupInv
<1>2. \A m : IdOf(m)' = IdOf(m)
  BY <1>1 DEF IdOf
<1>3. \A m : TokensOf(m)' = TokensOf(m)
  BY <1>1 DEF TokensOf, HandleOf
<1>4. Served' = {m \in ToSet(reg) : TokensOf(m) \cap Quoted # {}}
  BY <1>1, <1>3 DEF Served
<1>5. /\ Served' \subseteq Picked
      /\ RewardFarm(cfg) \/ favoured = {} => Served' = Picked
  BY <1>1, <1>4, ServedIs
<1>6. \A m, n : Outranks(m, n)' <=> Outranks(m, n)
  BY <1>2 DEF Outranks, Ahead
<1>7. \A m : (Routed(m)' <=> Routed(m)) /\ (Farmable(m)' <=> Farmable(m))
  BY <1>1 DEF Routed, Farmable, CostOfMarket
<1>8. QED
  BY <1>1, <1>5, <1>6, <1>7, PickedRegistered

LEMMA FundedAtWire ==
  ASSUME StartupInv, Wire, cfg.mm, RewardFarm(cfg) PROVE BestFunded'
<1>1. Served' = Funded /\ UNCHANGED <<cfg, reg>> /\ \A m : Farmable(m)' <=> Farmable(m)
  BY ServedAtWire DEF Picked
<1>2. FundedWell(Funded, {m \in ToSet(reg) : Farmable(m)})
  BY ConfigIs, FundedIsBest DEF Wire, StartupInv
<1>3. CostOf(Served)' = CostOf(Funded) /\ \A m : Affordable(m, Served)' <=> Affordable(m, Funded)
  <2>1. CostOf(Served)' = CostOf(Funded)
    BY <1>1 DEF CostOf
  <2>2. QED
    BY <1>1, <2>1 DEF Affordable, CostOfMarket
<1>4. CostOf(Served)' <= cfg'.mmCapital
  BY <1>1, <1>2, <1>3 DEF FundedWell
<1>5. \A m \in {m \in ToSet(reg) \ Funded : Farmable(m)} : ~Affordable(m, Funded)
  BY <1>2 DEF FundedWell
<1>6. QED
  BY <1>1, <1>3, <1>4, <1>5 DEF BestFunded

LEMMA RoutedAtWire ==
  ASSUME StartupInv, Wire, cfg.mm, ~RewardFarm(cfg) PROVE BestRouted'
<1>1. /\ Served' \subseteq Selected /\ Selected \subseteq ToSet(reg)
      /\ favoured = {} => Served' = Selected
      /\ UNCHANGED <<cfg, reg, favoured>>
      /\ \A m, n : Outranks(m, n)' <=> Outranks(m, n)
      /\ \A m : Routed(m)' <=> Routed(m)
  BY ServedAtWire DEF Picked
<1>2. cfg.mmMarkets \in Nat /\ cfg.perEvent \in Nat /\ reg \in Registries
  BY ConfigIs DEF Wire, StartupInv
<1>3. SelectedWell(Selected, {m \in ToSet(reg) : Routed(m)})
  BY <1>2, SelectedIsBest
<1> DEFINE full(m) == {n \in Served' : Event[n] = Event[m]}
           like(m) == {n \in Selected : Event[n] = Event[m]}
<1>4. IsFiniteSet(Selected)
  BY <1>1, <1>2, MarketsRegistered, FS_Subset
<1>5. Cardinality(Served') <= cfg.mmMarkets
  <2>1. Cardinality(Served') <= Cardinality(Selected) /\ Cardinality(Served') \in Nat /\ Cardinality(Selected) \in Nat
    BY <1>1, <1>4, FS_Subset, FS_CardinalityType
  <2>2. Cardinality(Selected) <= cfg.mmMarkets
    BY <1>3 DEF SelectedWell
  <2>3. QED
    BY <1>2, <2>1, <2>2
<1>6. ASSUME cfg.perEvent # 0, NEW m \in Served' PROVE Cardinality(full(m)) <= cfg.perEvent
  <2>1. m \in Selected /\ full(m) \subseteq like(m) /\ like(m) \subseteq Selected
    BY <1>1, <1>6
  <2>2. IsFiniteSet(like(m))
    BY <1>4, <2>1, FS_Subset
  <2>3. Cardinality(full(m)) <= Cardinality(like(m)) /\ Cardinality(full(m)) \in Nat /\ Cardinality(like(m)) \in Nat
    BY <2>1, <2>2, FS_Subset, FS_CardinalityType
  <2>4. Cardinality(like(m)) <= cfg.perEvent
    BY <1>3, <1>6, <2>1 DEF SelectedWell, SameEvent
  <2> HIDE DEF full, like
  <2>5. QED
    BY <1>2, <2>3, <2>4
<1>7. ASSUME favoured = {}, NEW m \in ToSet(reg) \ Served', Routed(m)
      PROVE  \/ Cardinality(Served') = cfg.mmMarkets /\ \A n \in Served' : Outranks(n, m) \/ cfg.perEvent # 0
             \/ cfg.perEvent # 0 /\ Cardinality(full(m)) = cfg.perEvent /\ \A n \in full(m) : Outranks(n, m)
  <2>1. Served' = Selected
    BY <1>1, <1>7
  <2>2. Passed(m, Selected)
    BY <1>3, <1>7, <2>1 DEF SelectedWell
  <2>3. full(m) = like(m) /\ SameEvent(m, Selected) = Cardinality(full(m))
    BY <2>1 DEF SameEvent
  <2>4. CASE Cardinality(Selected) = cfg.mmMarkets /\ (cfg.perEvent # 0 \/ \A n \in Selected : Outranks(n, m))
    BY <2>1, <2>4
  <2>5. CASE /\ cfg.perEvent # 0 /\ SameEvent(m, Selected) = cfg.perEvent
             /\ \A n \in Selected : Event[n] = Event[m] => Outranks(n, m)
    BY <2>1, <2>3, <2>5
  <2>6. QED
    BY <2>2, <2>4, <2>5 DEF Passed
<1>8. QED
  BY <1>1, <1>5, <1>6, <1>7 DEF BestRouted

(* The market maker quotes the best markets its limits allow, by either    *)
(* policy, and no component is split between supervisors.                  *)
THEOREM AssembledRight == StartupSpec => Assembled
<1>1. StartupInv /\ [StartupNext]_startupVars =>
        [phase # "run" /\ phase' = "run" =>
           WholeComponents' /\ (cfg.mm => IF RewardFarm(cfg) THEN BestFunded' ELSE BestRouted')]_startupVars
  <2> SUFFICES ASSUME StartupInv, [StartupNext]_startupVars, phase # "run", phase' = "run"
               PROVE  WholeComponents' /\ (cfg.mm => IF RewardFarm(cfg) THEN BestFunded' ELSE BestRouted')
    OBVIOUS
  <2>1. Wire
    BY DEF StartupNext, Load, OpenStore, Sync, Ends, MmFill, Trading, ArbHolds, CopyTrade, Resolve, startupVars
  <2>2. QED
    BY <2>1, ChunksWhole, FundedAtWire, RoutedAtWire
<1>2. QED
  BY <1>1, StartupInitially, StartupStep, PTL DEF StartupSpec, Assembled
=============================================================================
