------------------------------ MODULE Screens ------------------------------
(***************************************************************************)
(* The two browser screens over one session: the controller's console      *)
(* decides, the demo screen moves the clock.  Each is a single-threaded    *)
(* script: what it does between two awaits is one action, and at an await  *)
(* its timers, its polls and the person at it may come in between.         *)
(*                                                                         *)
(* The session itself is ReviewStages.  The server serves one request at a *)
(* time; its answer arrives later, or is lost.  A network that overtakes   *)
(* delivers the answers of one screen in any order, one that does not in   *)
(* the order of the requests.                                              *)
(***************************************************************************)
EXTENDS ReviewStages, Sequences

CONSTANTS
    Duration,           \* seconds the scenario lasts
    Pace,               \* seconds of one ADVANCE of the demo screen's timer
    Stops,              \* offsets of the scenario's steps, to be jumped to
    CommandSeconds,     \* the Step that a console command makes first
    Opened,             \* states of the session in which the screens may be loaded
    MaxEvents           \* bound: clicks of the persons, requests that are lost

ASSUME ScreensAssumption ==
    /\ Duration \in Nat /\ Pace \in Nat \ {0}
    /\ Stops \subseteq Nat /\ CommandSeconds \in Nat
    /\ Opened \subseteq
          [stage : Observed \cup
              {"READY", "RECOMMENDATION_AVAILABLE", "DECISION_ACCEPTED", "DECISION_MODIFIED",
               "DECISION_REJECTED", "MODIFICATION_REVALIDATED", "CONFLICT_RESOLVED"},
           elapsed : Nat, safe : BOOLEAN]
    /\ MaxEvents \in Nat

Both == {"console", "demo"}

VARIABLES
    overtakes,      \* whether answers may overtake one another
    view,           \* state.session of each screen
    call,           \* the command a screen awaits (state.busy), and what is left to send
    poll,           \* the read a screen's timer awaits
    playing,        \* the demo screen's timer runs
    autoPaused,     \* it stopped its timer itself, to wait for the controller
    events,         \* clicks and losses so far, for the bound
    held            \* history: the person's last word to the demo screen was to stand

screenVars == <<view, call, poll, playing, autoPaused, held>>
vars == <<serverVars, screenVars, overtakes, events>>

-----------------------------------------------------------------------------
(* What a screen knows and sends.                                           *)

Now == [stage |-> stage, elapsed |-> elapsed, safe |-> safe]

NoAnswer == [stage |-> "NONE", elapsed |-> 0, safe |-> FALSE]

Command(name, n) == [name |-> name, seconds |-> n]

Idle == [phase |-> "idle", aim |-> "none", todo |-> << >>, answer |-> NoAnswer]

Ask(aim, todo) == [phase |-> "asked", aim |-> aim, todo |-> todo, answer |-> NoAnswer]

NoPoll == [phase |-> "idle", answer |-> NoAnswer]

Busy(s) == call[s].phase # "idle"

AwaitsController ==
    {"CONFLICT_DETECTED", "RECOMMENDATION_AVAILABLE", "DECISION_ACCEPTED",
     "DECISION_MODIFIED", "MODIFICATION_REVALIDATED"}

\* COMMAND_BY_STAGE: the stages with a next command, and that command.
CommandByStage ==
    [CONFLICT_DETECTED        |-> "GENERATE",
     DECISION_ACCEPTED        |-> "APPLY_APPROVED",
     MODIFICATION_REVALIDATED |-> "APPLY_MODIFIED"]

\* The stages in which the session shows its recommendation.
Recommended ==
    {"RECOMMENDATION_AVAILABLE", "DECISION_ACCEPTED", "DECISION_MODIFIED",
     "DECISION_REJECTED", "MODIFICATION_REVALIDATED", "CONFLICT_RESOLVED"}

\* What a decision button sends next, by the stage on the screen.
Continuation(name, shown) ==
    IF name = "ACCEPT" /\ shown = "DECISION_ACCEPTED"
    THEN <<Command("APPLY_APPROVED", 0)>>
    ELSE IF name = "MODIFY" /\ shown = "DECISION_MODIFIED"
    THEN <<Command("REVALIDATE", 0)>>
    ELSE << >>

ConsoleCommands ==
    {"GENERATE", "ACCEPT", "MODIFY", "REJECT", "REVALIDATE", "APPLY_APPROVED",
     "APPLY_MODIFIED"}

CommandsOf(s) ==
    [name : IF s = "console" THEN ConsoleCommands ELSE {"RESET", "START", "ADVANCE"},
     seconds : Nat]

Pictures ==
    [stage : {"NONE", "READY", "MONITORING", "DEVIATION_DETECTED", "CONFLICT_DETECTED"}
                \cup Recommended,
     elapsed : Nat, safe : BOOLEAN]

Calls ==
    [phase : {"idle", "asked", "answered", "advisory"}, aim : {"none", "decide", "advance", "seek"},
     todo : Seq(CommandsOf("console") \cup CommandsOf("demo")), answer : Pictures]

Polls == [phase : {"idle", "asked", "answered"}, answer : Pictures]

ScreensTypeOK ==
    /\ Now \in Pictures
    /\ view \in [Both -> Pictures]
    /\ call \in [Both -> Calls]
    /\ \A s \in Both : /\ call[s].todo \in Seq(CommandsOf(s))
                       /\ Busy(s) <=> call[s].todo # << >>
    /\ poll \in [Both -> Polls]
    /\ overtakes \in BOOLEAN /\ playing \in BOOLEAN
    /\ autoPaused \in BOOLEAN /\ held \in BOOLEAN
    /\ events \in 0 .. MaxEvents

\* Both screens have booted: they show the session as they found it.
ScreensInit ==
    /\ \E o \in Opened : stage = o.stage /\ elapsed = o.elapsed /\ safe = o.safe
    /\ overtakes \in BOOLEAN
    /\ view = [s \in Both |-> Now]
    /\ call = [s \in Both |-> Idle]
    /\ poll = [s \in Both |-> NoPoll]
    /\ playing = FALSE
    /\ autoPaused = FALSE
    /\ events = 0
    /\ held = TRUE

-----------------------------------------------------------------------------
(* The server.                                                              *)

Execute(c) ==
    CASE c.name = "START" -> Start
      [] c.name = "ADVANCE" -> Advance(c.seconds)
      [] c.name = "RESET" -> Reset
      [] c.name = "GENERATE" -> Generate(c.seconds)
      [] c.name \in DOMAIN Verdicts -> Decide(c.name, c.seconds)
      [] c.name = "REVALIDATE" -> Revalidate
      [] c.name = "APPLY_APPROVED" -> stage = "DECISION_ACCEPTED" /\ Apply
      [] c.name = "APPLY_MODIFIED" -> stage = "MODIFICATION_REVALIDATED" /\ Apply

\* Refused for the stage, for the age of the evidence or an UNSAFE verdict,
\* or only after the Step of the command.
Refuse(c) ==
    \/ /\ c.name = "START" => stage # "READY"
       /\ c.name \notin {"ADVANCE", "RESET"}
       /\ c.name = "GENERATE" => stage # "CONFLICT_DETECTED"
       /\ c.name \in DOMAIN Verdicts => stage # "RECOMMENDATION_AVAILABLE"
       /\ UNCHANGED serverVars
    \/ c.name = "GENERATE" /\ GenerateRefused(c.seconds)
    \/ c.name \in DOMAIN Verdicts /\ DecideRefused(c.seconds)

Serve(s) ==
    /\ call[s].phase = "asked"
    /\ overtakes \/ poll[s].phase # "asked"
    /\ LET c == Head(call[s].todo)
       IN  \/ /\ Execute(c)
              /\ call' = [call EXCEPT ![s].phase = "answered", ![s].answer = Now']
           \/ /\ Refuse(c)
              /\ call' = [call EXCEPT ![s].phase = "answered"]
    /\ UNCHANGED <<view, poll, playing, autoPaused, held, overtakes, events>>

ServePoll(s) ==
    /\ poll[s].phase = "asked"
    /\ poll' = [poll EXCEPT ![s] = [phase |-> "answered", answer |-> Now]]
    /\ UNCHANGED <<serverVars, view, call, playing, autoPaused, held, overtakes, events>>

\* A request fails in fetch, before or after the server executed it.
LoseCommand(s) ==
    /\ events < MaxEvents
    /\ events' = events + 1
    /\ \/ call[s].phase = "asked"
       \/ call[s].phase = "answered" /\ call[s].answer # NoAnswer
    /\ call' = [call EXCEPT ![s].phase = "answered", ![s].answer = NoAnswer]
    /\ UNCHANGED <<serverVars, view, poll, playing, autoPaused, held, overtakes>>

LosePoll(s) ==
    /\ events < MaxEvents
    /\ events' = events + 1
    /\ poll[s].phase # "idle"
    /\ poll' = [poll EXCEPT ![s] = NoPoll]
    /\ UNCHANGED <<serverVars, view, call, playing, autoPaused, held, overtakes>>

\* The answer to the command of s is there, and the script may see it.
Answered(s) ==
    /\ call[s].phase = "answered"
    /\ overtakes \/ poll[s].phase = "idle"

-----------------------------------------------------------------------------
(* The console: decide() and refresh().                                     *)

ConsoleUnchanged == UNCHANGED <<serverVars, playing, autoPaused, held, overtakes>>

\* A click on a decision button or on the next command; while a command is
\* under way decide() returns at once.
ClickConsole ==
    LET shown == view["console"].stage
    IN  /\ events < MaxEvents
        /\ events' = events + 1
        /\ ~Busy("console")
        /\ \E name \in (IF shown \in Recommended THEN DOMAIN Verdicts ELSE {})
                      \cup {CommandByStage[g] : g \in {shown} \cap DOMAIN CommandByStage} :
              call' = [call EXCEPT !["console"] =
                          Ask("decide", <<Command(name, CommandSeconds)>>)]
        /\ UNCHANGED <<view, poll>>
        /\ ConsoleUnchanged

\* The end of decide(): its caller goes on by the stage it then finds.
Settled(shown) ==
    LET more == Continuation(Head(call["console"].todo).name, shown)
    IN  IF more = << >> THEN Idle ELSE Ask("decide", more)

\* The command was executed: the session is taken over, the advisory asked for.
ConsoleAnswer ==
    /\ Answered("console")
    /\ call["console"].answer # NoAnswer
    /\ view' = [view EXCEPT !["console"] = call["console"].answer]
    /\ call' = [call EXCEPT !["console"].phase = "advisory"]
    /\ UNCHANGED <<poll, events>>
    /\ ConsoleUnchanged

\* Variant: a refused command leaves the busy flag set.
ConsoleSettlesIfExecuted ==
    /\ call["console"].phase = "advisory"
    /\ call' = [call EXCEPT !["console"] = Settled(view["console"].stage)]
    /\ UNCHANGED <<view, poll, events>>
    /\ ConsoleUnchanged

\* The advisory is there, or the command was refused: decide() is over.
ConsoleSettles ==
    /\ \/ call["console"].phase = "advisory"
       \/ Answered("console") /\ call["console"].answer = NoAnswer
    /\ call' = [call EXCEPT !["console"] = Settled(view["console"].stage)]
    /\ UNCHANGED <<view, poll, events>>
    /\ ConsoleUnchanged

\* refresh(), every second unless a command is under way.
PollConsole ==
    /\ ~Busy("console")
    /\ poll["console"].phase = "idle"
    /\ poll' = [poll EXCEPT !["console"].phase = "asked"]
    /\ UNCHANGED <<view, call, events>>
    /\ ConsoleUnchanged

\* Its answer is taken over whatever has happened since it was sent.
ConsolePolled ==
    /\ poll["console"].phase = "answered"
    /\ view' = [view EXCEPT !["console"] = poll["console"].answer]
    /\ poll' = [poll EXCEPT !["console"] = NoPoll]
    /\ UNCHANGED <<call, events>>
    /\ ConsoleUnchanged

-----------------------------------------------------------------------------
(* The demo screen.                                                         *)

DemoUnchanged == UNCHANGED <<serverVars, overtakes>>

\* The play button: start() or stop(); from now on the screen is the person's.
ClickPlay ==
    /\ events < MaxEvents
    /\ events' = events + 1
    /\ autoPaused' = FALSE
    /\ playing' = ~playing
    /\ held' = playing
    /\ UNCHANGED <<view, call, poll>>
    /\ DemoUnchanged

\* seek(): back to the start, and on to the offset in one ADVANCE.
Seek(offset) ==
    /\ events < MaxEvents
    /\ events' = events + 1
    /\ ~Busy("demo")
    /\ autoPaused' = FALSE
    /\ playing' = FALSE
    /\ held' = TRUE
    /\ call' = [call EXCEPT !["demo"] =
                    Ask("seek", <<Command("RESET", 0), Command("START", 0)>> \o
                                IF offset >= 1 THEN <<Command("ADVANCE", offset)>> ELSE << >>)]
    /\ UNCHANGED <<view, poll>>
    /\ DemoUnchanged

\* The timer's turn: stop at the end of the scenario, else advance().
TimerStops ==
    /\ playing
    /\ view["demo"].elapsed >= Duration
    /\ playing' = FALSE
    /\ UNCHANGED <<view, call, poll, autoPaused, held, events>>
    /\ DemoUnchanged

TimerAdvances ==
    /\ playing
    /\ view["demo"].elapsed < Duration
    /\ ~Busy("demo")
    /\ call' = [call EXCEPT !["demo"] =
                    Ask("advance",
                        IF view["demo"].stage = "READY"
                        THEN <<Command("START", 0), Command("ADVANCE", Pace)>>
                        ELSE <<Command("ADVANCE", Pace)>>)]
    /\ UNCHANGED <<view, poll, playing, autoPaused, held, events>>
    /\ DemoUnchanged

\* Variant: the screen counts itself as paused by its own gate in any case.
AtGateAnyhow(shown) ==
    IF shown \in AwaitsController
    THEN playing' = FALSE /\ autoPaused' = TRUE
    ELSE UNCHANGED <<playing, autoPaused>>

\* pauseIfControllerNeeded()
AtGate(shown) ==
    IF shown \in AwaitsController /\ playing
    THEN playing' = FALSE /\ autoPaused' = TRUE
    ELSE UNCHANGED <<playing, autoPaused>>

\* A command of advance() or seek() was executed.  seek() does not take over
\* the answer to its RESET, and only advance() looks for a gate.
DemoAnswer ==
    LET c == call["demo"]
        last == Len(c.todo) = 1
    IN  /\ Answered("demo")
        /\ c.answer # NoAnswer
        /\ view' = IF Head(c.todo).name = "RESET" THEN view
                   ELSE [view EXCEPT !["demo"] = c.answer]
        /\ call' = [call EXCEPT !["demo"] = IF last THEN Idle ELSE Ask(c.aim, Tail(c.todo))]
        /\ IF last /\ c.aim = "advance"
           THEN AtGate(c.answer.stage)
           ELSE UNCHANGED <<playing, autoPaused>>
        /\ UNCHANGED <<poll, held, events>>
        /\ DemoUnchanged

\* A command was refused or lost: the rest is dropped, and advance() stops.
DemoRefused ==
    /\ Answered("demo")
    /\ call["demo"].answer = NoAnswer
    /\ call' = [call EXCEPT !["demo"] = Idle]
    /\ playing' = (playing /\ call["demo"].aim = "seek")
    /\ UNCHANGED <<view, poll, autoPaused, held, events>>
    /\ DemoUnchanged

\* watchWhilePaused(), every second while the screen neither plays nor waits.
PollDemo ==
    /\ ~playing
    /\ ~Busy("demo")
    /\ poll["demo"].phase = "idle"
    /\ poll' = [poll EXCEPT !["demo"].phase = "asked"]
    /\ UNCHANGED <<view, call, playing, autoPaused, held, events>>
    /\ DemoUnchanged

\* Variants: resume at the next gate of the chain as well, or not at all.
ResumesAtAnyChange(shown) ==
    /\ autoPaused /\ ~playing /\ ~Busy("demo")
    /\ shown # "CONFLICT_DETECTED"

ResumesOnlyWhenResolved(shown) ==
    /\ autoPaused /\ ~playing /\ ~Busy("demo")
    /\ shown = "CONFLICT_RESOLVED"

\* resumeIfControllerDecided()
Resumes(shown) ==
    /\ autoPaused /\ ~playing /\ ~Busy("demo")
    /\ shown \notin AwaitsController

\* The answer is taken over whatever has happened since it was sent.
DemoPolled ==
    LET picture == poll["demo"].answer
    IN  /\ poll["demo"].phase = "answered"
        /\ view' = [view EXCEPT !["demo"] = picture]
        /\ poll' = [poll EXCEPT !["demo"] = NoPoll]
        /\ IF Resumes(picture.stage)
           THEN autoPaused' = FALSE /\ playing' = (picture.elapsed < Duration)
           ELSE UNCHANGED <<playing, autoPaused>>
        /\ UNCHANGED <<call, held, events>>
        /\ DemoUnchanged

-----------------------------------------------------------------------------
(* The system.  Timers, fetches and the server go on; persons need not, and  *)
(* nothing needs to be lost.                                                *)

Persons ==
    \/ ClickConsole
    \/ ClickPlay
    \/ \E offset \in Stops : Seek(offset)

ScreensNext ==
    \/ Persons
    \/ \E s \in Both : Serve(s) \/ ServePoll(s) \/ LoseCommand(s) \/ LosePoll(s)
    \/ ConsoleAnswer \/ ConsoleSettles
    \/ PollConsole \/ ConsolePolled
    \/ TimerStops \/ TimerAdvances
    \/ DemoAnswer \/ DemoRefused
    \/ PollDemo \/ DemoPolled

Fairness ==
    /\ \A s \in Both : WF_vars(Serve(s)) /\ WF_vars(ServePoll(s))
    /\ WF_vars(ConsoleAnswer \/ ConsoleSettles)
    /\ WF_vars(PollConsole) /\ WF_vars(ConsolePolled)
    /\ WF_vars(TimerStops \/ TimerAdvances)
    /\ WF_vars(DemoAnswer \/ DemoRefused)
    /\ WF_vars(PollDemo) /\ WF_vars(DemoPolled)

ScreensSpec == ScreensInit /\ [][ScreensNext]_vars /\ Fairness

-----------------------------------------------------------------------------
(* Properties.                                                              *)

\* A demo screen that a person made stand (pause, or a jump to a step) stays
\* so until a person starts it, whatever gate an ADVANCE still under way
\* reaches and whatever the polls bring in the meantime.
PersonKeepsThePause == held => ~playing

\* The demo screen never waits for a controller who has nothing to decide:
\* stopped at a gate, it goes on once the chain has left the gates, or finds
\* the scenario over, or a person takes the screen.
GateIsLeft ==
    autoPaused /\ stage \notin AwaitsController
        ~> ~autoPaused \/ stage \in AwaitsController

\* Whatever was lost, overtaken or refused, the timer runs to a gate or to
\* the end, and both screens come to show the session as it is.
ScreensCatchUp == <>[](~playing /\ \A s \in Both : view[s] = Now)

\* By itself the clock starts again only when the chain of decisions is over,
\* as long as the network delivers the answers of a screen in order.
OrderedAnswersResumeAfterTheChain ==
    [][~overtakes /\ ~playing /\ playing' /\ events' = events
        => stage \notin AwaitsController]_vars

=============================================================================
