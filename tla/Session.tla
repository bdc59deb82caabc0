------------------------------ MODULE Session ------------------------------
(***************************************************************************)
(* One session of the process (crates/app/src/main.rs): what the operator  *)
(* may do to it, how it stops, and how it re-executes itself.              *)
(*                                                                         *)
(*  keys --> TUI --queue--> main --ctl--> bridge --> coordinator <--> exec *)
(*            ^              |  \--ctl--> mm, copy, heartbeat      |       *)
(*            `-- publisher  |                                     v       *)
(*  feed (detectors) --jobs--> LP pool --opps--> coordinator    writer     *)
(*                                                                         *)
(* A task ends when the channels it reads are closed, and a channel is     *)
(* closed when every task that sends on it has ended: the guards below say *)
(* which tasks those are.  What a strategy trades is in the modules        *)
(* Coordinator, MarketMaker and Copy.                                      *)
(***************************************************************************)
EXTENDS Integers, Sequences

CONSTANTS
  Loops,               \* the strategies beside arb: mm, copy, heartbeat
  Modes,               \* the command lines to consider
  OppCap, JobCap, Workers, StoreCap, CtlCap, TuiCap,
  MayPanic,            \* the tasks that may panic
  MaxKeys, LateKeys,   \* commands the operator gives, and more once all else has ended
  MaxEpochs,           \* re-executions
  OneFault             \* a bound: one panic, failed cancel or failed write at a time

Trader == Loops \cap {"mm", "copy"}
Task == {"feed", "lp", "coord", "exec", "bridge", "arb", "writer", "view"} \cup Loops
Mode == [live: BOOLEAN, shadow: BOOLEAN, tui: BOOLEAN]
Command == {"pause", "resume", "golive", "kill", "quit"}
Inbox == {"arb", "live", "coord"} \cup Loops

ASSUME SessionAssumption ==
  /\ Loops \subseteq {"mm", "copy", "heartbeat"} /\ Modes \subseteq Mode
  /\ {OppCap, JobCap, Workers, StoreCap, CtlCap, TuiCap} \subseteq Nat \ {0}
  /\ MayPanic \subseteq Task \ {"arb"}    \* ArbStrategy::run only waits for others
  /\ {MaxKeys, LateKeys, MaxEpochs} \subseteq Nat /\ OneFault \in BOOLEAN

VARIABLES
  mode,                \* the command line, the same in every epoch
  epoch,
  confirmed,           \* ghost: the operator has typed the phrase or "live"
  main,                \* [pc, trigger, todo, released]
  task,                \* "up", "ended" or "panicked"
  awaits,              \* what ArbStrategy::run waits for
  opps, jobs, solves,  \* queued opportunities and solve jobs, running solves
  basket,              \* "none", "sent" to the execution task, "reported"
  inbox,               \* the control channels
  paused,              \* the latch of the coordinator ("arb") and of the loops
  released,            \* the coordinator's live_released
  resting,             \* the market maker has quotes on the venue
  stuck,               \* ghost: its last cancel_all failed and left some there
  kill,
  rows, days,          \* queued StoreMsgs: DayRealized adds apart
  failed,              \* write_errors > 0
  lost,                \* ghost: the kinds of messages the store refused
  tui,                 \* [pc, queue, key]: the dashboard and its commands
  shown,               \* the badge the dashboard last drew: some strategy is paused
  keys

vars == <<mode, epoch, confirmed, main, task, awaits, opps, jobs, solves, basket, inbox,
          paused, released, resting, stuck, kill, rows, days, failed, lost, tui, shown, keys>>
pipeline == <<awaits, opps, jobs, solves, basket>>
operator == <<tui, shown, keys>>
process == <<mode, epoch, confirmed>>
atVenue == <<resting, stuck>>
store == <<rows, days, failed, lost>>
written == <<days, failed, lost>>    \* the store but for the rows

Up(t) == task[t] = "up"
End(t) == task' = [task EXCEPT ![t] = "ended"]
Money == mode.live /\ ~mode.shadow

Faulty == OneFault /\ (stuck \/ lost # {} \/ \E t \in Task : task[t] = "panicked")

(* The store's channel: a send waits for room, or fails when the writer is gone. *)
Sendable == rows + days < StoreCap \/ ~Up("writer")
Queued == IF rows + days < StoreCap THEN rows + 1 ELSE rows

(* released_at_start, with PM_RESUME_LIVE of the previous epoch. *)
Released(m, resume) == ~m.live \/ m.shadow \/ ~m.tui \/ resume

Init ==
  /\ mode \in Modes /\ epoch = 0 /\ confirmed = FALSE /\ keys = 0
  /\ main = [pc |-> "start", trigger |-> "none", todo |-> <<>>, released |-> FALSE]
  /\ task = [t \in Task |-> "ended"]
  /\ awaits = "coord" /\ opps = 0 /\ jobs = 0 /\ solves = 0 /\ basket = "none"
  /\ inbox = [i \in Inbox |-> <<>>]
  /\ paused = [s \in {"arb"} \cup Loops |-> FALSE]
  /\ released = FALSE /\ resting = FALSE /\ stuck = FALSE /\ kill = FALSE
  /\ rows = 0 /\ days = 0 /\ failed = FALSE /\ lost = {}
  /\ tui = [pc |-> "off", queue |-> <<>>, key |-> "none"] /\ shown = FALSE

(* Headless live that does not resume asks for the phrase and refuses a wrong one.  *)
(* main.released is PM_RESUME_LIVE until here.                                      *)
Start ==
  LET asks == Money /\ ~mode.tui /\ ~main.released
      on == Released(mode, main.released)
  IN
  /\ main.pc = "start"
  /\ confirmed' = (confirmed \/ asks)
  /\ main' = [main EXCEPT !.pc = "run", !.released = on]
  /\ task' = [t \in Task |-> IF t = "view" /\ ~mode.tui THEN "ended" ELSE "up"]
  /\ paused' = [s \in {"arb"} \cup Loops |-> s \in Trader /\ mode.live /\ ~on]
  /\ released' = on
  /\ tui' = [tui EXCEPT !.pc = IF mode.tui THEN "on" ELSE "off"]
  /\ UNCHANGED <<mode, epoch, pipeline, inbox, atVenue, kill, store, shown, keys>>

Refuse ==
  /\ main.pc = "start" /\ Money /\ ~mode.tui /\ ~main.released
  /\ main' = [main EXCEPT !.pc = "exit1"]
  /\ UNCHANGED <<process, task, pipeline, inbox, paused, released, atVenue, kill, store,
                 operator>>
-----------------------------------------------------------------------------
(* The feed and the solver. *)

(* emit: try_send; a full queue or a coordinator that is gone drops the opportunity. *)
Emit ==
  /\ Up("feed") /\ Up("coord") /\ opps < OppCap
  /\ opps' = opps + 1
  /\ UNCHANGED <<process, main, task, awaits, jobs, solves, basket, inbox, paused, released,
                 atVenue, kill, store, operator>>

AskSolve ==
  /\ Up("feed") /\ Up("lp") /\ jobs < JobCap
  /\ jobs' = jobs + 1
  /\ UNCHANGED <<process, main, task, awaits, opps, solves, basket, inbox, paused, released,
                 atVenue, kill, store, operator>>

StartSolve ==
  /\ Up("lp") /\ jobs > 0 /\ solves < Workers
  /\ jobs' = jobs - 1 /\ solves' = solves + 1
  /\ UNCHANGED <<process, main, task, awaits, opps, basket, inbox, paused, released, atVenue,
                 kill, store, operator>>

(* A solve finds an opportunity or not; a solver that panics finds none. *)
FinishSolve ==
  /\ solves > 0 /\ solves' = solves - 1
  /\ \/ opps' = opps
     \/ Up("coord") /\ opps < OppCap /\ opps' = opps + 1
  /\ UNCHANGED <<process, main, task, awaits, jobs, basket, inbox, paused, released, atVenue,
                 kill, store, operator>>

(* Every detector is gone and the queue is empty; running solves go on. *)
LpEnds ==
  /\ Up("lp") /\ ~Up("feed") /\ jobs = 0
  /\ End("lp")
  /\ UNCHANGED <<process, main, pipeline, inbox, paused, released, atVenue, kill, store,
                 operator>>
-----------------------------------------------------------------------------
(* The coordinator, the execution task and ArbStrategy::run. *)

(* handle_opps: the row is a try_send; a stop, a held release or a basket out refuses. *)
TakeOpp ==
  /\ Up("coord") /\ opps > 0
  /\ opps' = opps - 1
  /\ \/ UNCHANGED <<rows, basket>>
     \/ /\ ~kill /\ ~paused["arb"] /\ released /\ basket = "none" /\ Up("exec")
        /\ basket' = "sent"
        /\ rows' = Queued
  /\ UNCHANGED <<process, main, task, awaits, jobs, solves, inbox, paused, released, atVenue,
                 kill, written, operator>>

TakeReport ==
  /\ Up("coord") /\ basket = "reported"
  /\ basket' = "none"
  /\ UNCHANGED <<process, main, task, awaits, opps, jobs, solves, inbox, paused, released,
                 atVenue, kill, store, operator>>

HandleCtl ==
  /\ Up("coord") /\ inbox["coord"] # <<>>
  /\ LET c == Head(inbox["coord"]) IN
     /\ paused' = IF c = "release" THEN paused ELSE [paused EXCEPT !["arb"] = c = "pause"]
     /\ released' = (released \/ (c = "release" /\ mode.live))
  /\ inbox' = [inbox EXCEPT !["coord"] = Tail(@)]
  /\ UNCHANGED <<process, main, task, pipeline, atVenue, kill, store, operator>>

(* Mutant: the end does not wait for solves under way. *)
CoordEndsEarly ==
  /\ Up("coord") /\ opps = 0 /\ ~Up("feed") /\ ~Up("lp")
  /\ basket = "sent" => ~Up("exec")
  /\ Sendable /\ rows' = Queued
  /\ End("coord") /\ basket' = "none"
  /\ UNCHANGED <<process, main, awaits, opps, jobs, solves, inbox, paused, released, atVenue,
                 kill, written, operator>>

(* No sender of opportunities is left: the report under way, the last snapshot, the end. *)
CoordEnds ==
  /\ Up("coord") /\ opps = 0 /\ ~Up("feed") /\ ~Up("lp") /\ solves = 0
  /\ basket = "sent" => ~Up("exec")
  /\ Sendable /\ rows' = Queued
  /\ End("coord") /\ basket' = "none"
  /\ UNCHANGED <<process, main, awaits, opps, jobs, solves, inbox, paused, released, atVenue,
                 kill, written, operator>>

Execute ==
  /\ Up("exec") /\ basket = "sent"
  /\ Sendable /\ rows' = Queued
  /\ basket' = IF Up("coord") THEN "reported" ELSE "none"
  /\ UNCHANGED <<process, main, task, awaits, opps, jobs, solves, inbox, paused, released,
                 atVenue, kill, written, operator>>

ExecEnds ==
  /\ Up("exec") /\ ~Up("coord") /\ basket # "sent"
  /\ End("exec")
  /\ UNCHANGED <<process, main, pipeline, inbox, paused, released, atVenue, kill, store,
                 operator>>

(* bridge_control; a command for a coordinator that is gone ends it. *)
Forward ==
  /\ Up("bridge")
  /\ \E i \in {"arb", "live"} :
       /\ inbox[i] # <<>>
       /\ IF Up("coord")
          THEN /\ Len(inbox["coord"]) < CtlCap
               /\ inbox' = [inbox EXCEPT ![i] = Tail(@), !["coord"] = Append(@, Head(inbox[i]))]
               /\ UNCHANGED task
          ELSE End("bridge") /\ UNCHANGED inbox
  /\ UNCHANGED <<process, main, pipeline, paused, released, atVenue, kill, store, operator>>

(* ArbStrategy::run waits for its tasks in turn, then stops the bridges and returns. *)
ArbStep ==
  /\ Up("arb")
  /\ \/ awaits = "coord" /\ ~Up("coord") /\ awaits' = "lp" /\ UNCHANGED task
     \/ awaits = "lp" /\ ~Up("lp") /\ awaits' = "exec" /\ UNCHANGED task
     \/ /\ awaits = "exec" /\ ~Up("exec")
        /\ task' = [task EXCEPT !["arb"] = "ended", !["bridge"] = "ended"]
        /\ UNCHANGED awaits
  /\ UNCHANGED <<process, main, opps, jobs, solves, basket, inbox, paused, released, atVenue,
                 kill, store, operator>>
-----------------------------------------------------------------------------
(* The other strategies: run_mm_loop, run_copy_loop, the heartbeat. *)

CtlClosed == main.pc \notin {"start", "run", "send", "grace"}

(* A tick quotes (mm) or trades, and may queue rows and a result of the day. *)
Tick(s) ==
  /\ Up(s) /\ s \in Trader /\ ~paused[s] /\ ~kill
  /\ resting' = (resting \/ s = "mm")
  /\ \E row, day \in {0, 1} :
       /\ rows + days + row + day <= StoreCap
       /\ rows' = rows + row /\ days' = days + day
  /\ UNCHANGED <<process, main, task, pipeline, inbox, paused, released, stuck, kill, failed,
                 lost, operator>>

(* The market maker's cancel_all: its error is dropped, and what is left rests on. *)
CancelAll(s) ==
  \/ s # "mm" /\ UNCHANGED atVenue
  \/ s = "mm" /\ resting' = FALSE /\ stuck' = FALSE
  \/ s = "mm" /\ resting /\ ~Faulty /\ resting' = TRUE /\ stuck' = TRUE

Obey(s) ==
  /\ Up(s) /\ inbox[s] # <<>>
  /\ LET p == Head(inbox[s]) = "pause" IN
     /\ paused' = [paused EXCEPT ![s] = p]
     /\ IF p THEN CancelAll(s) ELSE UNCHANGED atVenue
  /\ inbox' = [inbox EXCEPT ![s] = Tail(@)]
  /\ UNCHANGED <<process, main, task, pipeline, released, kill, store, operator>>

(* Mutant: only the kill flag ends a loop. *)
EndsOnKillOnly(s) ==
  /\ Up(s) /\ kill
  /\ End(s)
  /\ CancelAll(s)
  /\ UNCHANGED <<process, main, pipeline, inbox, paused, released, kill, store, operator>>

(* The kill flag at the top of the loop, or the control channel closed and empty. *)
LoopEnds(s) ==
  /\ Up(s)
  /\ kill \/ (CtlClosed /\ inbox[s] = <<>>)
  /\ End(s)
  /\ CancelAll(s)
  /\ UNCHANGED <<process, main, pipeline, inbox, paused, released, kill, store, operator>>

(* A panic drops the task's ends of its channels; a maker's quotes stay at the venue. *)
Panic(t) ==
  /\ t \in MayPanic /\ Up(t) /\ ~Faulty
  /\ task' = [task EXCEPT ![t] = "panicked"]
  /\ opps' = IF t = "coord" THEN 0 ELSE opps
  /\ UNCHANGED <<process, main, awaits, jobs, solves, basket, inbox, paused, released, atVenue,
                 kill, store, operator>>
-----------------------------------------------------------------------------
(* The writer: the row of a failed write is gone and counted; a DayRealized add that *)
(* fails is dropped uncounted.                                                       *)

Write ==
  /\ Up("writer")
  /\ \/ /\ rows > 0 /\ rows' = rows - 1 /\ UNCHANGED days
        /\ \/ UNCHANGED <<failed, lost>>
           \/ ~Faulty /\ failed' = TRUE /\ lost' = lost \cup {"row"}
     \/ /\ days > 0 /\ days' = days - 1 /\ UNCHANGED <<rows, failed>>
        /\ \/ UNCHANGED lost
           \/ ~Faulty /\ lost' = lost \cup {"day"}
  /\ UNCHANGED <<process, main, task, pipeline, inbox, paused, released, atVenue, kill,
                 operator>>

(* Main, arb's run and its tasks, and the loops each hold a sender. *)
WriterEnds ==
  /\ Up("writer") /\ rows = 0 /\ days = 0
  /\ main.pc = "drain" /\ \A t \in {"coord", "exec", "arb"} \cup Loops : ~Up(t)
  /\ End("writer")
  /\ UNCHANGED <<process, main, pipeline, inbox, paused, released, atVenue, kill, store,
                 operator>>
-----------------------------------------------------------------------------
(* The dashboard. *)

(* The publisher redraws until arb, the last holder of the status channel, is gone. *)
Publish ==
  /\ Up("view")
  /\ IF Up("arb")
     THEN shown' = (\E s \in {"arb"} \cup Loops : paused[s]) /\ UNCHANGED task
     ELSE End("view") /\ UNCHANGED shown
  /\ UNCHANGED <<process, main, pipeline, inbox, paused, released, atVenue, kill, store, tui,
                 keys>>

(* handle_key: p asks for the inverse of the badge.  run_tui awaits room in the queue. *)
Press ==
  /\ tui.pc = "on"
  /\ keys < MaxKeys \/ (main.pc = "screen" /\ keys < MaxKeys + LateKeys)
  /\ keys' = keys + 1
  /\ \E c \in {IF shown THEN "resume" ELSE "pause", "golive", "kill", "quit"} :
       tui' = [tui EXCEPT !.pc = "sending", !.key = c]
  /\ UNCHANGED <<process, main, task, pipeline, inbox, paused, released, atVenue, kill, store,
                 shown>>

SendKey ==
  /\ tui.pc = "sending" /\ Len(tui.queue) < TuiCap
  /\ tui' = [pc |-> IF tui.key = "quit" THEN "off" ELSE "on",
             queue |-> Append(tui.queue, tui.key), key |-> "none"]
  /\ UNCHANGED <<process, main, task, pipeline, inbox, paused, released, atVenue, kill, store,
                 shown, keys>>

(* The publisher's channel closes and run_tui, back in its select, sees it. *)
TuiEnds ==
  /\ tui.pc = "on" /\ ~Up("view")
  /\ tui' = [tui EXCEPT !.pc = "off"]
  /\ UNCHANGED <<process, main, task, pipeline, inbox, paused, released, atVenue, kill, store,
                 shown, keys>>
-----------------------------------------------------------------------------
(* Main. *)

(* The sentinel file or SIGUSR1. *)
KillSwitch ==
  /\ ~kill /\ main.pc \in {"run", "send", "grace", "join"} /\ kill' = TRUE
  /\ UNCHANGED <<process, main, task, pipeline, inbox, paused, released, atVenue, store,
                 operator>>

Stop(why) == main' = [main EXCEPT !.pc = "grace", !.trigger = why]

(* The once-a-second poll sees the kill flag. *)
NoticeKill ==
  /\ main.pc = "run" /\ kill /\ Stop("end")
  /\ UNCHANGED <<process, task, pipeline, inbox, paused, released, atVenue, kill, store,
                 operator>>

(* The duration is over or ctrl-c, or the restart period is over (auto_restart_secs). *)
Finish ==
  /\ main.pc = "run"
  /\ \E why \in {"end", "resync"} :
       /\ why = "resync" => epoch < MaxEpochs
       /\ Stop(why)
  /\ UNCHANGED <<process, task, pipeline, inbox, paused, released, atVenue, kill, store,
                 operator>>

To(name, c) == [to |-> name, msg |-> c]

(* What main sends for a command, one await after the other. *)
Sends(c) ==
  IF c = "golive"
  THEN <<To("live", "release"), To("mm", "resume"), To("copy", "resume"), To("main", "released")>>
  ELSE <<To("arb", c), To("mm", c), To("copy", c)>>

TakeCommand ==
  /\ main.pc = "run" /\ tui.queue # <<>>
  /\ LET c == Head(tui.queue) IN
     /\ CASE c = "kill" -> kill' = TRUE /\ UNCHANGED main
          [] c = "quit" -> Stop("end") /\ UNCHANGED kill
          [] c = "golive" /\ ~mode.live -> UNCHANGED <<main, kill>>
          [] OTHER -> /\ main' = [main EXCEPT !.pc = "send", !.todo = Sends(c)]
                      /\ UNCHANGED kill
     /\ confirmed' = (confirmed \/ (c = "golive" /\ mode.live))
  /\ tui' = [tui EXCEPT !.queue = Tail(@)]
  /\ UNCHANGED <<mode, epoch, task, pipeline, inbox, paused, released, atVenue, store, shown,
                 keys>>

Reader(i) == IF i \in {"arb", "live"} THEN "bridge" ELSE i
Present(name) == name \in {"arb", "live"} \cup Loops
Reachable(name) == Present(name) /\ Up(Reader(name))

(* A send waits for room; for an absent strategy, or when the receiver is gone, it  *)
(* does nothing.                                                                    *)
Send ==
  /\ main.pc = "send"
  /\ LET e == Head(main.todo) IN
     /\ \/ ~Reachable(e.to) /\ UNCHANGED inbox
        \/ /\ Reachable(e.to) /\ Len(inbox[e.to]) < CtlCap
           /\ inbox' = [inbox EXCEPT ![e.to] = Append(@, e.msg)]
     /\ main' = [main EXCEPT !.todo = Tail(@),
                             !.pc = IF Len(main.todo) = 1 THEN "run" ELSE "send",
                             !.released = @ \/ e.to = "main"]
  /\ UNCHANGED <<process, task, pipeline, paused, released, atVenue, kill, store, operator>>

(* Two seconds of grace, then the supervisors are aborted and joined. *)
AbortFeed ==
  /\ main.pc = "grace"
  /\ main' = [main EXCEPT !.pc = "join"] /\ End("feed")
  /\ UNCHANGED <<process, pipeline, inbox, paused, released, atVenue, kill, store, operator>>

(* running.join: the control senders are dropped first. *)
Join ==
  /\ main.pc = "join" /\ \A s \in {"arb"} \cup Loops : ~Up(s)
  /\ main' = [main EXCEPT !.pc = "drain"]
  /\ UNCHANGED <<process, task, pipeline, inbox, paused, released, atVenue, kill, store,
                 operator>>

(* A writer that panicked is fatal. *)
AwaitWriter ==
  /\ main.pc = "drain" /\ ~Up("writer")
  /\ main' = [main EXCEPT !.pc = IF task["writer"] = "panicked" THEN "exit1" ELSE "screen"]
  /\ UNCHANGED <<process, task, pipeline, inbox, paused, released, atVenue, kill, store,
                 operator>>

(* Mutant: the coordinator's death is not in the health signal. *)
HealthyDespiteAbort == ~failed /\ \A t \in Loops : task[t] # "panicked"

(* A restart storm and a session without supervisors, known at its start, are left out. *)
Healthy == ~failed /\ \A t \in {"coord"} \cup Loops : task[t] # "panicked"

Exit ==
  /\ main.pc = "screen" /\ tui.pc = "off" /\ main.trigger # "resync"
  /\ main' = [main EXCEPT !.pc = IF Healthy THEN "exit0" ELSE "exit2"]
  /\ UNCHANGED <<process, task, pipeline, inbox, paused, released, atVenue, kill, store,
                 operator>>

(* Mutant: a held session resumes as well. *)
ResumeHeld == mode.live

(* PM_RESUME_LIVE is set for a session that was live and released. *)
Resumes == mode.live /\ main.released

(* exec(2) of the same command line. *)
Reexec ==
  /\ main.pc = "screen" /\ tui.pc = "off" /\ main.trigger = "resync"
  /\ epoch' = epoch + 1
  /\ main' = [pc |-> "start", trigger |-> "none", todo |-> <<>>,
              released |-> Resumes]
  /\ task' = [t \in Task |-> "ended"]
  /\ awaits' = "coord" /\ opps' = 0 /\ jobs' = 0 /\ solves' = 0 /\ basket' = "none"
  /\ inbox' = [i \in Inbox |-> <<>>]
  /\ paused' = [s \in {"arb"} \cup Loops |-> FALSE]
  /\ released' = FALSE /\ resting' = FALSE /\ stuck' = FALSE /\ kill' = FALSE
  /\ rows' = 0 /\ days' = 0 /\ failed' = FALSE /\ lost' = {}
  /\ tui' = [tui EXCEPT !.queue = <<>>] /\ shown' = FALSE
  /\ UNCHANGED <<mode, confirmed, keys>>

Pool == StartSolve \/ FinishSolve \/ LpEnds
Coordinate == TakeOpp \/ TakeReport \/ CoordEnds
Executor == Execute \/ ExecEnds
Loop(s) == Obey(s) \/ LoopEnds(s)
Writer == Write \/ WriterEnds
Screen == SendKey \/ TuiEnds
Main == NoticeKill \/ TakeCommand \/ Send \/ AbortFeed \/ Join \/ AwaitWriter \/ Exit \/ Reexec

Next ==
  \/ Start \/ Refuse \/ Emit \/ AskSolve
  \/ Pool \/ Coordinate \/ HandleCtl \/ Executor \/ Forward \/ ArbStep
  \/ \E s \in Loops : Tick(s) \/ Loop(s)
  \/ \E t \in MayPanic : Panic(t)
  \/ Writer \/ Publish \/ Press \/ Screen
  \/ KillSwitch \/ Finish \/ Main

Spec == Init /\ [][Next]_vars

(***************************************************************************)
(* Each is the work of a task the runtime polls again, or of main, whose   *)
(* waits are on such tasks.  Nobody must press a key, end a session, find  *)
(* an opportunity or panic.                                                *)
(***************************************************************************)
Fairness ==
  /\ WF_vars(Pool) /\ WF_vars(Coordinate) /\ WF_vars(HandleCtl) /\ WF_vars(Executor)
  /\ WF_vars(Forward) /\ WF_vars(ArbStep) /\ \A s \in Loops : WF_vars(Loop(s))
  /\ WF_vars(Writer) /\ WF_vars(Publish) /\ WF_vars(Screen) /\ WF_vars(Main)

FairSpec == Spec /\ Fairness
-----------------------------------------------------------------------------
(* Properties. *)

Exited == main.pc \in {"exit0", "exit1", "exit2"}

Message == {"pause", "resume", "release"}
Errand == [to: {"arb", "live", "mm", "copy"}, msg: Message] \cup {To("main", "released")}
MainState ==
  [pc: {"start", "run", "send", "grace", "join", "drain", "screen", "exit0", "exit1", "exit2"},
   trigger: {"none", "end", "resync"},
   todo: Seq(Errand), released: BOOLEAN]

ProcessOK == mode \in Modes /\ epoch \in 0..MaxEpochs /\ confirmed \in BOOLEAN
MainOK ==
  /\ main \in MainState
  /\ main.pc = "send" => main.todo # <<>>
  /\ main.trigger = "resync" => epoch < MaxEpochs
TasksOK ==
  /\ task \in [Task -> {"up", "ended", "panicked"}] /\ awaits \in {"coord", "lp", "exec"}
  /\ basket \in {"none", "sent", "reported"}
CountersOK ==
  opps \in 0..OppCap /\ jobs \in 0..JobCap /\ solves \in 0..Workers
StoreOK ==
  rows \in Nat /\ days \in Nat /\ rows + days <= StoreCap /\ lost \subseteq {"row", "day"}
InboxOK ==
  inbox \in [Inbox -> Seq(Message)] /\ \A i \in Inbox : Len(inbox[i]) <= CtlCap
LatchesOK ==
  /\ paused \in [{"arb"} \cup Loops -> BOOLEAN] /\ released \in BOOLEAN
  /\ resting \in BOOLEAN /\ stuck \in BOOLEAN /\ kill \in BOOLEAN /\ failed \in BOOLEAN
ScreenOK ==
  /\ tui \in [pc: {"off", "on", "sending"}, queue: Seq(Command), key: Command \cup {"none"}]
  /\ tui.pc = "sending" => tui.key # "none"
  /\ Len(tui.queue) <= TuiCap
  /\ shown \in BOOLEAN /\ keys \in 0..(MaxKeys + LateKeys)

TypeOK ==
  /\ ProcessOK /\ MainOK /\ TasksOK /\ CountersOK /\ StoreOK /\ InboxOK /\ LatchesOK
  /\ ScreenOK

(* The arb coordinator trades real money only after the operator has typed the      *)
(* phrase at start-up or "live" in the dashboard, in this process or in one it was  *)
(* re-executed from (main.rs:430-438, the resume variable).                         *)
ConfirmedLive == Money /\ ~confirmed => ~released

(* The market maker and the copy executor do not trade real money before that       *)
(* either: they start paused while live is held (main.rs:2533-2543).                *)
HeldMeansIdle == Money /\ ~confirmed => \A s \in Trader : Up(s) => paused[s]

(* The exit status tells the truth about the session, whenever its tasks died and   *)
(* rows failed: 0 only when the coordinator and every strategy ended by themselves   *)
(* and the writer took every message and failed on none that it counts; 2 only when  *)
(* one of them died or such a row was lost, never for an add to the day's ledger,    *)
(* which must not look like a trading-path failure (main.rs:2707, writer.rs:40).     *)
HealthTruth ==
  /\ main.pc = "exit0" =>
       /\ "row" \notin lost /\ rows = 0 /\ days = 0
       /\ \A t \in {"coord"} \cup Loops : task[t] = "ended"
  /\ main.pc = "exit2" =>
       "row" \in lost \/ \E t \in {"coord"} \cup Loops : task[t] = "panicked"

(* The shutdown cascade loses nothing on its way: when main leaves, every row       *)
(* handed to the writer was taken by it, every opportunity and solve job accepted   *)
(* was received by its reader unless the reader had died, no basket is left with    *)
(* an execution task that lives, and the market maker has no quotes on the venue,   *)
(* unless it died or its last sweep, which main does not hear of, was refused.      *)
Drained ==
  main.pc \in {"screen", "exit0", "exit2"} =>
    /\ rows = 0 /\ days = 0
    /\ task["lp"] = "ended" => jobs = 0
    /\ task["coord"] = "ended" => opps = 0 /\ solves = 0
    /\ task["exec"] = "ended" => basket # "sent"
    /\ resting => task["mm"] = "panicked" \/ stuck

(* A session told to stop, by the kill switch or any trigger, exits or re-executes   *)
(* itself (a new start), whatever task has died on the way; unless main waits for a  *)
(* dashboard that waits for room in the queue main no longer reads.                  *)
Wedged == main.pc = "screen" /\ tui.pc = "sending" /\ Len(tui.queue) = TuiCap
Stops ==
  (kill \/ main.trigger # "none") ~> (Exited \/ main.pc = "start" \/ Wedged)

(* The comment at main.rs:2629 has no such exception: a session that ends for any    *)
(* reason still tears the screen down.                                               *)
ScreenTornDown ==
  (kill \/ main.trigger # "none") ~> (Exited \/ main.pc = "start")
=============================================================================
