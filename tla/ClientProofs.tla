---------------------------- MODULE ClientProofs ----------------------------
(***************************************************************************)
(* Proofs about what the program's clients hold on to.  The screens, for   *)
(* every scenario, pace, network and number of clicks and losses: the      *)
(* types, that a person's pause is kept, and that with answers in order    *)
(* the clock starts by itself only after the chain.  The exception queue,  *)
(* for every set of subjects, every timetable and any number of resets:    *)
(* the constructors of items and Snapshots never raise, an acknowledgement *)
(* lasts as long as its episode, and a new run starts with an empty queue. *)
(***************************************************************************)
EXTENDS Screens, ExceptionQueue, SequenceTheorems, TLAPS

\* The session shows a stage, as long as it is asked.
ServerOK == Now \in Pictures

-----------------------------------------------------------------------------
(* The server.                                                              *)

\* The verdicts of the three decisions.
LEMMA VerdictValues ==
    /\ DOMAIN Verdicts = {"ACCEPT", "MODIFY", "REJECT"}
    /\ Verdicts["ACCEPT"] = "DECISION_ACCEPTED"
    /\ Verdicts["MODIFY"] = "DECISION_MODIFIED"
    /\ Verdicts["REJECT"] = "DECISION_REJECTED"
BY DEF Verdicts

\* What the session shows is a picture exactly if its parts are typed.
LEMMA ServerParts ==
    ServerOK <=> /\ stage \in {"NONE", "READY", "MONITORING", "DEVIATION_DETECTED",
                               "CONFLICT_DETECTED"} \cup Recommended
                 /\ elapsed \in Nat
                 /\ safe \in BOOLEAN
BY DEF ServerOK, Now, Pictures

\* A Step keeps the types of what the session shows.
LEMMA FlowType ==
    ASSUME ServerOK, NEW n \in Nat, Flow(n)
    PROVE  ServerOK'
<1>1. elapsed' \in Nat /\ safe' = safe
  BY ServerParts DEF Flow
<1>2. stage' \in {"NONE", "READY", "MONITORING", "DEVIATION_DETECTED",
                  "CONFLICT_DETECTED"} \cup Recommended
  BY ServerParts, StagesAssumption DEF Flow
<1>3. QED
  BY <1>1, <1>2, ServerParts DEF ServerOK, Now, Pictures

\* A command, executed or refused, keeps the types of what the session shows.
LEMMA CommandType ==
    ASSUME ServerOK, NEW s \in Both, NEW c \in CommandsOf(s), Execute(c) \/ Refuse(c)
    PROVE  ServerOK'
<1>1. /\ c.seconds \in Nat
      /\ c.name \in ConsoleCommands \cup {"RESET", "START", "ADVANCE"}
  BY DEF CommandsOf
<1>2. CASE Refuse(c)
  <2>1. \/ UNCHANGED serverVars
        \/ Flow(c.seconds)
    BY <1>2 DEF Refuse, GenerateRefused, DecideRefused
  <2>2. CASE UNCHANGED serverVars
    BY <2>2 DEF serverVars, ServerOK, Now
  <2>3. QED
    BY <1>1, <2>1, <2>2, FlowType
<1>3. CASE Execute(c)
  <2>1. \/ \E n \in Nat : Flow(n)
        \/ Reset
        \/ Generate(c.seconds)
        \/ c.name \in DOMAIN Verdicts /\ Decide(c.name, c.seconds)
        \/ Revalidate
        \/ Apply
    BY <1>1, <1>3, VerdictValues DEF Execute, Start, Advance, ConsoleCommands
  <2>2. CASE \E n \in Nat : Flow(n)
    BY <2>2, FlowType
  <2>3. CASE Reset \/ Generate(c.seconds) \/ Revalidate \/ Apply
    <3>1. elapsed' \in Nat
      BY <1>1, <2>3, ServerParts DEF Reset, Generate, Revalidate, Apply
    <3>2. safe' \in BOOLEAN
      <4>1. safe' = safe \/ safe' \in BOOLEAN
        BY <2>3 DEF Reset, Generate, Revalidate, Apply
      <4>2. QED
        BY <4>1, ServerParts
    <3>3. stage' \in Recommended \cup {"READY"}
      BY <2>3 DEF Reset, Generate, Revalidate, Apply, Recommended
    <3>4. QED
      BY <3>1, <3>2, <3>3 DEF ServerOK, Now, Pictures
  <2>4. CASE c.name \in DOMAIN Verdicts /\ Decide(c.name, c.seconds)
    <3>1. elapsed' \in Nat /\ safe' \in BOOLEAN
      BY <1>1, <2>4, ServerParts DEF Decide
    <3>2. stage' \in Recommended
      BY <2>4, VerdictValues DEF Decide, Recommended
    <3>3. QED
      BY <3>1, <3>2 DEF ServerOK, Now, Pictures
  <2>5. QED
    BY <2>1, <2>2, <2>3, <2>4
<1>4. QED
  BY <1>2, <1>3

\* No command of the console leads into the chain of decisions.
LEMMA ConsoleOpensNoGate ==
    ASSUME NEW c \in CommandsOf("console"), Execute(c) \/ Refuse(c),
           stage \notin AwaitsController
    PROVE  stage' \notin AwaitsController
<1>1. c.name \in ConsoleCommands
  BY DEF CommandsOf
<1>2. CASE Refuse(c)
  <2>1. UNCHANGED serverVars
    BY <1>2 DEF Refuse, GenerateRefused, DecideRefused, AwaitsController
  <2>2. QED
    BY <2>1 DEF serverVars
<1>3. CASE Execute(c)
  BY <1>1, <1>3, VerdictValues DEF Execute, ConsoleCommands, Generate, Decide, Revalidate, Apply,
     AwaitsController
<1>4. QED
  BY <1>2, <1>3

-----------------------------------------------------------------------------
(* The types of the screens.                                                *)

\* Lists of commands: one command of the console, those of the demo screen.
LEMMA CommandLists ==
    /\ \A s \in Both : Seq(CommandsOf(s)) \subseteq Seq(CommandsOf("console") \cup CommandsOf("demo"))
    /\ \A name \in ConsoleCommands, n \in Nat :
          /\ <<Command(name, n)>> \in Seq(CommandsOf("console"))
          /\ <<Command(name, n)>> # << >>
    /\ \A n \in Nat :
          /\ <<Command("ADVANCE", n)>> \in Seq(CommandsOf("demo"))
          /\ <<Command("START", 0), Command("ADVANCE", n)>> \in Seq(CommandsOf("demo"))
    /\ <<Command("RESET", 0), Command("START", 0)>> \in Seq(CommandsOf("demo"))
<1>1. \A name \in ConsoleCommands, n \in Nat : Command(name, n) \in CommandsOf("console")
  BY DEF Command, CommandsOf
<1>2. \A name \in {"RESET", "START", "ADVANCE"}, n \in Nat :
         Command(name, n) \in CommandsOf("demo")
  BY DEF Command, CommandsOf
<1>3. \A s \in Both : CommandsOf(s) \subseteq CommandsOf("console") \cup CommandsOf("demo")
  BY DEF Both
<1>4. \A s \in Both : Seq(CommandsOf(s)) \subseteq Seq(CommandsOf("console") \cup CommandsOf("demo"))
  BY <1>3
<1>5. QED
  BY <1>1, <1>2, <1>4

\* A command the screen has yet to send, or awaits, is one of its own.
LEMMA HeadOfList ==
    ASSUME ScreensTypeOK, NEW s \in Both, Busy(s)
    PROVE  /\ Head(call[s].todo) \in CommandsOf(s)
           /\ Tail(call[s].todo) \in Seq(CommandsOf(s))
           /\ Len(call[s].todo) # 1 => Tail(call[s].todo) # << >>
<1>1. call[s].todo \in Seq(CommandsOf(s)) /\ call[s].todo # << >>
  <2>1. \A t \in Both : /\ call[t].todo \in Seq(CommandsOf(t))
                        /\ Busy(t) <=> call[t].todo # << >>
    BY DEF ScreensTypeOK
  <2>2. QED
    BY <2>1
<1>2. /\ Head(call[s].todo) \in CommandsOf(s)
      /\ Tail(call[s].todo) \in Seq(CommandsOf(s))
      /\ Len(Tail(call[s].todo)) = Len(call[s].todo) - 1
  BY <1>1, HeadTailProperties
<1>3. Len(call[s].todo) \in Nat
  BY <1>1, LenProperties
<1>4. Tail(call[s].todo) = << >> => Len(Tail(call[s].todo)) = 0
  BY EmptySeq
<1>5. QED
  BY <1>2, <1>3, <1>4

\* A new call of s is typed if its list is.
LEMMA CallType ==
    ASSUME ScreensTypeOK, NEW s \in Both, NEW k \in Calls,
           k.todo \in Seq(CommandsOf(s)), k.phase # "idle" <=> k.todo # << >>,
           call' = [call EXCEPT ![s] = k]
    PROVE  /\ call' \in [Both -> Calls]
           /\ \A t \in Both : /\ call'[t].todo \in Seq(CommandsOf(t))
                              /\ call'[t].phase # "idle" <=> call'[t].todo # << >>
<1>1. call \in [Both -> Calls]
  BY DEF ScreensTypeOK
<1>2. call' \in [Both -> Calls] /\ call'[s] = k /\ \A t \in Both \ {s} : call'[t] = call[t]
  BY <1>1
<1>3. QED
  BY <1>2 DEF ScreensTypeOK, Busy

\* Asking and being idle are typed calls.
LEMMA AskType ==
    /\ Idle \in Calls /\ Idle.phase = "idle" /\ Idle.todo = << >>
    /\ NoAnswer \in Pictures
    /\ \A s \in Both : \A todo \in Seq(CommandsOf(s)), aim \in {"decide", "advance", "seek"} :
          /\ Ask(aim, todo) \in Calls
          /\ Ask(aim, todo).phase = "asked" /\ Ask(aim, todo).todo = todo
<1>1. NoAnswer \in Pictures
  BY DEF NoAnswer, Pictures
<1>2. << >> \in Seq(CommandsOf("console") \cup CommandsOf("demo"))
  BY EmptySeq
<1>3. QED
  BY <1>1, <1>2, CommandLists DEF Idle, Ask, Calls

-----------------------------------------------------------------------------
(* The types are preserved part by part.                                    *)

ViewOK == view \in [Both -> Pictures]

CallOK ==
    /\ call \in [Both -> Calls]
    /\ \A s \in Both : /\ call[s].todo \in Seq(CommandsOf(s))
                       /\ call[s].phase # "idle" <=> call[s].todo # << >>

PollOK == poll \in [Both -> Polls]

FlagsOK ==
    /\ overtakes \in BOOLEAN /\ playing \in BOOLEAN
    /\ autoPaused \in BOOLEAN /\ held \in BOOLEAN
    /\ events \in 0 .. MaxEvents

\* The type invariant is the conjunction of its parts, now and in the next state.
LEMMA TypeParts ==
    /\ ScreensTypeOK <=> ServerOK /\ ViewOK /\ CallOK /\ PollOK /\ FlagsOK
    /\ ScreensTypeOK' <=> ServerOK' /\ ViewOK' /\ CallOK' /\ PollOK' /\ FlagsOK'
BY DEF ScreensTypeOK, ServerOK, ViewOK, CallOK, PollOK, FlagsOK, Busy

\* What is left unchanged keeps its type.
LEMMA UnchangedParts ==
    ASSUME ScreensTypeOK
    PROVE  /\ UNCHANGED serverVars => ServerOK'
           /\ UNCHANGED view => ViewOK'
           /\ UNCHANGED call => CallOK'
           /\ UNCHANGED poll => PollOK'
           /\ UNCHANGED <<overtakes, playing, autoPaused, held, events>> => FlagsOK'
<1>1. ServerOK /\ ViewOK /\ CallOK /\ PollOK /\ FlagsOK
  BY TypeParts
<1>2. UNCHANGED serverVars => ServerOK'
  BY <1>1 DEF serverVars, ServerOK, Now
<1>3. UNCHANGED view => ViewOK'
  BY <1>1 DEF ViewOK
<1>4. UNCHANGED call => CallOK'
  BY <1>1 DEF CallOK
<1>5. UNCHANGED poll => PollOK'
  BY <1>1 DEF PollOK
<1>6. UNCHANGED <<overtakes, playing, autoPaused, held, events>> => FlagsOK'
  BY <1>1 DEF FlagsOK
<1>7. QED
  BY <1>2, <1>3, <1>4, <1>5, <1>6

\* One more event is still within the bound.
LEMMA OneMoreEvent ==
    ASSUME ScreensTypeOK, events < MaxEvents, events' = events + 1
    PROVE  events' \in 0 .. MaxEvents /\ events' # events
<1>1. events \in 0 .. MaxEvents
  BY DEF ScreensTypeOK
<1>2. QED
  BY <1>1, ScreensAssumption

\* The server keeps the types: a command it serves, a poll, a lost request.
LEMMA ServerKeepsType ==
    ASSUME ScreensTypeOK, NEW s \in Both,
           Serve(s) \/ ServePoll(s) \/ LoseCommand(s) \/ LosePoll(s)
    PROVE  ScreensTypeOK'
<1>1. /\ ServerOK /\ CallOK /\ PollOK /\ FlagsOK
      /\ call[s] \in Calls /\ poll[s] \in Polls /\ NoAnswer \in Pictures
  BY TypeParts, AskType DEF CallOK, PollOK
<1>2. CASE Serve(s)
  <2>1. Head(call[s].todo) \in CommandsOf(s)
    BY <1>2, HeadOfList DEF Serve, Busy
  <2>2. ServerOK'
    BY <1>1, <1>2, <2>1, CommandType DEF Serve
  <2>3. Now' \in Pictures
    BY <2>2 DEF ServerOK
  <2>4. PICK a \in Pictures :
           call' = [call EXCEPT ![s] = [call[s] EXCEPT !.phase = "answered", !.answer = a]]
    <3>1. \/ call' = [call EXCEPT ![s].phase = "answered", ![s].answer = Now']
          \/ call' = [call EXCEPT ![s].phase = "answered"]
      BY <1>2 DEF Serve
    <3>2. CASE call' = [call EXCEPT ![s].phase = "answered", ![s].answer = Now']
      BY <1>1, <2>3, <3>2 DEF CallOK, Calls
    <3>3. CASE call' = [call EXCEPT ![s].phase = "answered"]
      <4>1. call[s].answer \in Pictures
        BY <1>1 DEF Calls
      <4>2. call' = [call EXCEPT ![s] = [call[s] EXCEPT !.phase = "answered",
                                                       !.answer = call[s].answer]]
        BY <1>1, <3>3 DEF CallOK, Calls
      <4>3. QED
        BY <4>1, <4>2
    <3>4. QED
      BY <3>1, <3>2, <3>3
  <2>5. CallOK'
    <3> DEFINE k == [call[s] EXCEPT !.phase = "answered", !.answer = a]
    <3>1. k \in Calls /\ k.todo = call[s].todo /\ k.phase = "answered"
      BY <1>1 DEF Calls
    <3>2. k.todo \in Seq(CommandsOf(s)) /\ k.todo # << >>
      BY <1>1, <1>2, <3>1 DEF CallOK, Serve
    <3>3. QED
      BY <2>4, <3>1, <3>2, CallType DEF CallOK
  <2>6. QED
    BY <1>2, <2>2, <2>5, TypeParts, UnchangedParts DEF Serve
<1>3. CASE ServePoll(s)
  <2>1. PollOK'
    BY <1>1, <1>3 DEF ServePoll, PollOK, Polls, ServerOK
  <2>2. QED
    BY <1>3, <2>1, TypeParts, UnchangedParts DEF ServePoll
<1>4. CASE LoseCommand(s)
  <2> DEFINE k == [call[s] EXCEPT !.phase = "answered", !.answer = NoAnswer]
  <2>1. call' = [call EXCEPT ![s] = k]
    BY <1>1, <1>4 DEF LoseCommand, CallOK, Calls
  <2>2. k \in Calls /\ k.todo = call[s].todo /\ k.phase = "answered"
    BY <1>1 DEF Calls
  <2>3. k.todo \in Seq(CommandsOf(s)) /\ k.todo # << >>
    BY <1>1, <1>4, <2>2 DEF CallOK, LoseCommand
  <2>4. CallOK'
    BY <2>1, <2>2, <2>3, CallType DEF CallOK
  <2>5. FlagsOK'
    BY <1>1, <1>4, OneMoreEvent DEF LoseCommand, FlagsOK
  <2>6. QED
    BY <1>4, <2>4, <2>5, TypeParts, UnchangedParts DEF LoseCommand
<1>5. CASE LosePoll(s)
  <2>1. PollOK'
    BY <1>1, <1>5 DEF LosePoll, NoPoll, PollOK, Polls
  <2>2. FlagsOK'
    BY <1>1, <1>5, OneMoreEvent DEF LosePoll, FlagsOK
  <2>3. QED
    BY <1>5, <2>1, <2>2, TypeParts, UnchangedParts DEF LosePoll
<1>6. QED
  BY <1>2, <1>3, <1>4, <1>5

\* The console keeps the types.
LEMMA ConsoleKeepsType ==
    ASSUME ScreensTypeOK,
           ClickConsole \/ ConsoleAnswer \/ ConsoleSettles \/ PollConsole \/ ConsolePolled
    PROVE  ScreensTypeOK'
<1>1. /\ ServerOK /\ ViewOK /\ CallOK /\ PollOK /\ FlagsOK
      /\ call["console"] \in Calls /\ poll["console"] \in Polls
      /\ NoAnswer \in Pictures /\ "console" \in Both
  BY TypeParts, AskType DEF CallOK, PollOK, Both
<1>2. CASE ClickConsole
  <2>1. PICK name \in ConsoleCommands :
           call' = [call EXCEPT !["console"] =
                       Ask("decide", <<Command(name, CommandSeconds)>>)]
    <3>1. /\ DOMAIN Verdicts \subseteq ConsoleCommands
          /\ \A g \in DOMAIN CommandByStage : CommandByStage[g] \in ConsoleCommands
      BY VerdictValues DEF CommandByStage, ConsoleCommands
    <3>2. QED
      BY <1>2, <3>1 DEF ClickConsole
  <2>2. /\ <<Command(name, CommandSeconds)>> \in Seq(CommandsOf("console"))
        /\ <<Command(name, CommandSeconds)>> # << >>
    BY ScreensAssumption, CommandLists
  <2>3. CallOK'
    BY <1>1, <2>1, <2>2, AskType, CallType, ZenonT(40) DEF CallOK
  <2>4. FlagsOK'
    BY <1>1, <1>2, OneMoreEvent DEF ClickConsole, ConsoleUnchanged, FlagsOK
  <2>5. QED
    BY <1>2, <2>3, <2>4, TypeParts, UnchangedParts DEF ClickConsole, ConsoleUnchanged
<1>3. CASE ConsoleAnswer
  <2> DEFINE k == [call["console"] EXCEPT !.phase = "advisory"]
  <2>1. /\ call["console"].answer \in Pictures
        /\ k \in Calls /\ k.todo = call["console"].todo /\ k.phase = "advisory"
    BY <1>1 DEF Calls
  <2>2. k.todo \in Seq(CommandsOf("console")) /\ k.todo # << >>
    BY <1>1, <1>3, <2>1 DEF CallOK, ConsoleAnswer, Answered
  <2>3. call' = [call EXCEPT !["console"] = k]
    BY <1>1, <1>3 DEF ConsoleAnswer, CallOK, Calls
  <2>4. CallOK'
    BY <1>1, <2>1, <2>2, <2>3, CallType DEF CallOK
  <2>5. ViewOK'
    BY <1>1, <1>3, <2>1 DEF ConsoleAnswer, ViewOK
  <2>6. QED
    BY <1>3, <2>4, <2>5, TypeParts, UnchangedParts DEF ConsoleAnswer, ConsoleUnchanged
<1>4. CASE ConsoleSettles
  <2> DEFINE k == Settled(view["console"].stage)
  <2>1. k = Idle \/ \E name \in ConsoleCommands : k = Ask("decide", <<Command(name, 0)>>)
    BY DEF Settled, Continuation, ConsoleCommands
  <2>2. /\ k \in Calls /\ k.todo \in Seq(CommandsOf("console"))
        /\ k.phase # "idle" <=> k.todo # << >>
    <3>1. << >> \in Seq(CommandsOf("console"))
      BY EmptySeq
    <3>2. CASE k = Idle
      BY <3>1, <3>2, AskType
    <3>3. ASSUME NEW name \in ConsoleCommands, k = Ask("decide", <<Command(name, 0)>>)
          PROVE  /\ k \in Calls /\ k.todo \in Seq(CommandsOf("console"))
                 /\ k.phase # "idle" <=> k.todo # << >>
      <4>1. /\ <<Command(name, 0)>> \in Seq(CommandsOf("console"))
            /\ <<Command(name, 0)>> # << >>
        BY CommandLists
      <4>2. HIDE DEF k
      <4>3. QED
        BY <1>1, <3>3, <4>1, AskType
    <3>4. QED
      BY <2>1, <3>2, <3>3
  <2>3. CallOK'
    BY <1>1, <1>4, <2>2, CallType DEF ConsoleSettles, CallOK
  <2>4. QED
    BY <1>4, <2>3, TypeParts, UnchangedParts DEF ConsoleSettles, ConsoleUnchanged
<1>5. CASE PollConsole
  <2>1. PollOK'
    BY <1>1, <1>5 DEF PollConsole, PollOK, Polls
  <2>2. QED
    BY <1>5, <2>1, TypeParts, UnchangedParts DEF PollConsole, ConsoleUnchanged
<1>6. CASE ConsolePolled
  <2>1. PollOK' /\ ViewOK'
    BY <1>1, <1>6 DEF ConsolePolled, NoPoll, PollOK, Polls, ViewOK
  <2>2. QED
    BY <1>6, <2>1, TypeParts, UnchangedParts DEF ConsolePolled, ConsoleUnchanged
<1>7. QED
  BY <1>2, <1>3, <1>4, <1>5, <1>6

\* A person at the demo screen keeps the types.
LEMMA DemoPersonKeepsType ==
    ASSUME ScreensTypeOK, ClickPlay \/ \E offset \in Stops : Seek(offset)
    PROVE  ScreensTypeOK'
<1>1. FlagsOK /\ CallOK /\ "demo" \in Both
  BY TypeParts DEF Both
<1>2. CASE ClickPlay
  <2>1. FlagsOK'
    BY <1>1, <1>2, OneMoreEvent DEF ClickPlay, DemoUnchanged, FlagsOK
  <2>2. QED
    BY <1>2, <2>1, TypeParts, UnchangedParts DEF ClickPlay, DemoUnchanged
<1>3. ASSUME NEW offset \in Stops, Seek(offset) PROVE ScreensTypeOK'
  <2>1. FlagsOK'
    BY <1>1, <1>3, OneMoreEvent DEF Seek, DemoUnchanged, FlagsOK
  <2> DEFINE start == <<Command("RESET", 0), Command("START", 0)>>
             more == IF offset >= 1 THEN <<Command("ADVANCE", offset)>> ELSE << >>
  <2>2. /\ start \in Seq(CommandsOf("demo")) /\ more \in Seq(CommandsOf("demo"))
        /\ Len(start) = 2
    BY ScreensAssumption, CommandLists, EmptySeq
  <2>3. start \o more \in Seq(CommandsOf("demo")) /\ start \o more # << >>
    <3> HIDE DEF start, more
    <3>1. /\ start \o more \in Seq(CommandsOf("demo"))
          /\ Len(start \o more) = Len(start) + Len(more) /\ Len(more) \in Nat
      BY <2>2, ConcatProperties, LenProperties
    <3>2. QED
      BY <2>2, <3>1, EmptySeq
  <2>4. call' = [call EXCEPT !["demo"] = Ask("seek", start \o more)]
    BY <1>3 DEF Seek
  <2>5. CallOK'
    <3> HIDE DEF start, more
    <3>1. QED
      BY <1>1, <2>3, <2>4, AskType, CallType, ZenonT(40) DEF CallOK
  <2>6. QED
    BY <1>3, <2>1, <2>5, TypeParts, UnchangedParts DEF Seek, DemoUnchanged
<1>4. QED
  BY <1>2, <1>3

\* The timer, the answers and the polls of the demo screen keep the types.
LEMMA DemoKeepsType ==
    ASSUME ScreensTypeOK,
           \/ TimerStops \/ TimerAdvances \/ DemoAnswer \/ DemoRefused \/ PollDemo \/ DemoPolled
    PROVE  ScreensTypeOK'
<1>1. /\ ServerOK /\ ViewOK /\ CallOK /\ PollOK /\ FlagsOK
      /\ call["demo"] \in Calls /\ poll["demo"] \in Polls /\ "demo" \in Both
      /\ << >> \in Seq(CommandsOf("demo"))
  BY TypeParts, EmptySeq DEF CallOK, PollOK, Both
<1>2. CASE TimerStops
  <2>1. FlagsOK'
    BY <1>1, <1>2 DEF TimerStops, DemoUnchanged, FlagsOK
  <2>2. QED
    BY <1>2, <2>1, TypeParts, UnchangedParts DEF TimerStops, DemoUnchanged
<1>3. CASE TimerAdvances
  <2>1. PICK todo \in Seq(CommandsOf("demo")) :
           todo # << >> /\ call' = [call EXCEPT !["demo"] = Ask("advance", todo)]
    <3>1. /\ <<Command("START", 0), Command("ADVANCE", Pace)>> \in Seq(CommandsOf("demo"))
          /\ <<Command("ADVANCE", Pace)>> \in Seq(CommandsOf("demo"))
      BY ScreensAssumption, CommandLists
    <3>2. QED
      BY <1>3, <3>1 DEF TimerAdvances
  <2>2. CallOK'
    BY <1>1, <2>1, AskType, CallType DEF CallOK
  <2>3. QED
    BY <1>3, <2>2, TypeParts, UnchangedParts DEF TimerAdvances, DemoUnchanged
<1>4. CASE DemoAnswer
  <2> DEFINE k == IF Len(call["demo"].todo) = 1 THEN Idle
                  ELSE Ask(call["demo"].aim, Tail(call["demo"].todo))
  <2>1. Busy("demo") /\ call["demo"].answer \in Pictures
    BY <1>1, <1>4 DEF DemoAnswer, Answered, Busy, Calls
  <2>2. /\ Tail(call["demo"].todo) \in Seq(CommandsOf("demo"))
        /\ Len(call["demo"].todo) # 1 => Tail(call["demo"].todo) # << >>
    BY <1>1, <2>1, HeadOfList
  <2>3. /\ k \in Calls /\ k.todo \in Seq(CommandsOf("demo"))
        /\ k.phase # "idle" <=> k.todo # << >>
    <3>1. CASE Len(call["demo"].todo) = 1
      BY <1>1, <3>1, AskType
    <3>2. CASE Len(call["demo"].todo) # 1
      <4>1. call["demo"].aim \in {"none", "decide", "advance", "seek"}
        BY <1>1 DEF Calls
      <4>2. /\ k = [phase |-> "asked", aim |-> call["demo"].aim,
                    todo |-> Tail(call["demo"].todo), answer |-> NoAnswer]
            /\ Tail(call["demo"].todo) \in Seq(CommandsOf("console") \cup CommandsOf("demo"))
        BY <1>1, <2>2, <3>2, CommandLists DEF Ask
      <4>3. HIDE DEF k
      <4>4. k \in Calls /\ k.todo = Tail(call["demo"].todo) /\ k.phase = "asked"
        BY <4>1, <4>2, AskType DEF Calls
      <4>5. QED
        BY <2>2, <3>2, <4>4
    <3>3. QED
      BY <3>1, <3>2
  <2>4. CallOK'
    BY <1>1, <1>4, <2>3, CallType DEF DemoAnswer, CallOK
  <2>5. ViewOK'
    BY <1>1, <1>4, <2>1 DEF DemoAnswer, ViewOK
  <2>6. FlagsOK'
    BY <1>1, <1>4 DEF DemoAnswer, AtGate, DemoUnchanged, FlagsOK
  <2>7. QED
    BY <1>4, <2>4, <2>5, <2>6, TypeParts, UnchangedParts DEF DemoAnswer, DemoUnchanged
<1>5. CASE DemoRefused
  <2>1. CallOK'
    BY <1>1, <1>5, AskType, CallType DEF DemoRefused, CallOK
  <2>2. FlagsOK'
    BY <1>1, <1>5 DEF DemoRefused, DemoUnchanged, FlagsOK
  <2>3. QED
    BY <1>5, <2>1, <2>2, TypeParts, UnchangedParts DEF DemoRefused, DemoUnchanged
<1>6. CASE PollDemo
  <2>1. PollOK'
    BY <1>1, <1>6 DEF PollDemo, PollOK, Polls
  <2>2. QED
    BY <1>6, <2>1, TypeParts, UnchangedParts DEF PollDemo, DemoUnchanged
<1>7. CASE DemoPolled
  <2>1. PollOK' /\ ViewOK'
    BY <1>1, <1>7, AskType DEF DemoPolled, NoPoll, PollOK, Polls, ViewOK
  <2>2. playing' \in BOOLEAN /\ autoPaused' \in BOOLEAN
    <3>1. CASE Resumes(poll["demo"].answer.stage)
      <4>1. /\ autoPaused' = FALSE
            /\ playing' = (poll["demo"].answer.elapsed < Duration)
        BY <1>7, <3>1 DEF DemoPolled
      <4>2. (poll["demo"].answer.elapsed < Duration) \in BOOLEAN
        OBVIOUS
      <4>3. QED
        BY <4>1, <4>2
    <3>2. CASE ~Resumes(poll["demo"].answer.stage)
      BY <1>1, <1>7, <3>2 DEF DemoPolled, FlagsOK
    <3>3. QED
      BY <3>1, <3>2
  <2>3. FlagsOK'
    BY <1>1, <1>7, <2>2 DEF DemoPolled, DemoUnchanged, FlagsOK
  <2>4. QED
    BY <1>7, <2>1, <2>3, TypeParts, UnchangedParts DEF DemoPolled, DemoUnchanged
<1>8. QED
  BY <1>2, <1>3, <1>4, <1>5, <1>6, <1>7

-----------------------------------------------------------------------------
(* Type correctness.                                                        *)

\* The screens boot in their types.
LEMMA ScreensInitType == ScreensInit => ScreensTypeOK
<1> SUFFICES ASSUME ScreensInit PROVE ScreensTypeOK
  OBVIOUS
<1>1. Opened \subseteq Pictures
  BY ScreensAssumption, StagesAssumption DEF Pictures, Recommended
<1>2. ServerOK
  BY <1>1 DEF ScreensInit, ServerOK, Now, Pictures
<1>3. ViewOK /\ PollOK
  BY <1>2, AskType DEF ScreensInit, ViewOK, PollOK, Polls, NoPoll, ServerOK
<1>4. CallOK
  <2>1. \A s \in Both : << >> \in Seq(CommandsOf(s))
    BY EmptySeq
  <2>2. QED
    BY <2>1, AskType DEF ScreensInit, CallOK
<1>5. FlagsOK
  <2>1. 0 \in 0 .. MaxEvents
    BY ScreensAssumption
  <2>2. QED
    BY <2>1 DEF ScreensInit, FlagsOK
<1>6. QED
  BY <1>2, <1>3, <1>4, <1>5, TypeParts

\* Every step of the screens keeps the types.
LEMMA ScreensNextKeepsType ==
    ASSUME ScreensTypeOK, [ScreensNext]_vars
    PROVE  ScreensTypeOK'
<1>1. CASE ScreensNext
  BY <1>1, ServerKeepsType, ConsoleKeepsType, DemoPersonKeepsType, DemoKeepsType
     DEF ScreensNext, Persons
<1>2. CASE UNCHANGED vars
  BY <1>2, TypeParts, UnchangedParts DEF vars, screenVars
<1>3. QED
  BY <1>1, <1>2

-----------------------------------------------------------------------------
(* The invariant behind the two properties.                                 *)

\* Who made the demo screen stand: a person or the screen itself, not both.
OneReasonToStand ==
    /\ held => ~playing /\ ~autoPaused
    /\ autoPaused => ~playing

\* A picture from before the chain that is still to be shown is shown while
\* the ADVANCE that opened the chain is under way: the network keeps order.
OldPictureComesFirst ==
    (/\ ~overtakes
     /\ poll["demo"].phase = "answered"
     /\ poll["demo"].answer.stage \notin AwaitsController
     /\ stage \in AwaitsController)
        => Busy("demo")

ScreensIInv == ScreensTypeOK /\ OneReasonToStand /\ OldPictureComesFirst

\* Every step keeps apart who made the demo screen stand.
LEMMA StandingIsKept ==
    ASSUME ScreensTypeOK, OneReasonToStand, ScreensNext
    PROVE  OneReasonToStand'
<1>1. /\ playing \in BOOLEAN /\ autoPaused \in BOOLEAN /\ held \in BOOLEAN
  BY DEF ScreensTypeOK
<1>2. CASE UNCHANGED <<playing, autoPaused, held>>
  BY <1>2 DEF OneReasonToStand
<1>3. CASE ClickPlay \/ \E offset \in Stops : Seek(offset)
  <2>1. /\ autoPaused' = FALSE
        /\ \/ playing' = ~playing /\ held' = playing
           \/ playing' = FALSE /\ held' = TRUE
    BY <1>3 DEF ClickPlay, Seek
  <2>2. QED
    BY <1>1, <2>1 DEF OneReasonToStand
<1>4. CASE TimerStops \/ DemoRefused
  <2>1. UNCHANGED <<autoPaused, held>>
    BY <1>4 DEF TimerStops, DemoRefused
  <2>2. playing' => playing
    <3>1. CASE TimerStops
      BY <3>1 DEF TimerStops
    <3>2. CASE DemoRefused
      BY <3>2 DEF DemoRefused
    <3>3. QED
      BY <1>4, <3>1, <3>2
  <2>3. QED
    BY <2>1, <2>2 DEF OneReasonToStand
<1>5. CASE DemoAnswer
  <2>1. held' = held /\ \/ playing' = FALSE /\ autoPaused' = TRUE /\ playing
                        \/ UNCHANGED <<playing, autoPaused>>
    BY <1>5 DEF DemoAnswer, AtGate
  <2>2. QED
    BY <2>1 DEF OneReasonToStand
<1>6. CASE DemoPolled
  <2>1. held' = held /\ \/ autoPaused' = FALSE /\ autoPaused
                        \/ UNCHANGED <<playing, autoPaused>>
    BY <1>6 DEF DemoPolled, Resumes
  <2>2. QED
    BY <2>1 DEF OneReasonToStand
<1>7. QED
  BY <1>2, <1>3, <1>4, <1>5, <1>6 DEF ScreensNext, Persons, ClickConsole, ConsoleAnswer,
     ConsoleSettles, PollConsole, ConsolePolled, ConsoleUnchanged, Serve, ServePoll, LoseCommand,
     LosePoll, TimerAdvances, PollDemo

\* The demo screen's busy flag outlives every step but the last answer.
LEMMA BusyUntilAnswered ==
    ASSUME ScreensTypeOK, Busy("demo"), ScreensNext
    PROVE  Busy("demo")' \/ DemoAnswer \/ DemoRefused
<1>1. call \in [Both -> Calls] /\ "demo" \in Both /\ "console" \in Both
  BY DEF ScreensTypeOK, Both
<1>2. CASE UNCHANGED call
  BY <1>2 DEF Busy
<1>3. ASSUME NEW s \in Both, Serve(s) \/ LoseCommand(s) PROVE Busy("demo")'
  <2>1. CASE s = "demo"
    BY <1>1, <1>3, <2>1 DEF Serve, LoseCommand, Busy, Calls
  <2>2. CASE s # "demo"
    BY <1>1, <1>3, <2>2 DEF Serve, LoseCommand, Busy
  <2>3. QED
    BY <2>1, <2>2
<1>4. CASE ClickConsole \/ ConsoleAnswer \/ ConsoleSettles
  BY <1>1, <1>4 DEF ClickConsole, ConsoleAnswer, ConsoleSettles, Busy
<1>5. ~TimerAdvances /\ ~(\E offset \in Stops : Seek(offset))
  BY DEF TimerAdvances, Seek
<1>6. QED
  BY <1>2, <1>3, <1>4, <1>5 DEF ScreensNext, Persons, ClickPlay, PollConsole, ConsolePolled,
     ServePoll, LosePoll, TimerStops, PollDemo, DemoPolled

\* Every step keeps the order of the pictures before and in the chain.
LEMMA OrderIsKept ==
    ASSUME ScreensTypeOK, OldPictureComesFirst, ScreensNext
    PROVE  OldPictureComesFirst'
<1> SUFFICES ASSUME ~overtakes', poll'["demo"].phase = "answered",
                    poll'["demo"].answer.stage \notin AwaitsController,
                    stage' \in AwaitsController
             PROVE  Busy("demo")'
  BY DEF OldPictureComesFirst
<1>1. /\ poll \in [Both -> Polls] /\ "demo" \in Both /\ "console" \in Both
      /\ "demo" # "console"
  BY DEF ScreensTypeOK, Both
<1>2. ~overtakes
  BY DEF ScreensNext, Persons, ClickConsole, ConsoleAnswer, ConsoleSettles, PollConsole,
     ConsolePolled, ConsoleUnchanged, Serve, ServePoll, LoseCommand, LosePoll, ClickPlay, Seek,
     TimerStops, TimerAdvances, DemoAnswer, DemoRefused, PollDemo, DemoPolled, DemoUnchanged
<1>3. CASE ServePoll("demo")
  <2>1. poll'["demo"].answer.stage = stage /\ stage' = stage
    BY <1>1, <1>3 DEF ServePoll, Now, serverVars
  <2>2. QED
    BY <2>1
<1>4. CASE poll'["demo"] = poll["demo"]
  <2>1. ~DemoAnswer /\ ~DemoRefused
    BY <1>2, <1>4 DEF DemoAnswer, DemoRefused, Answered
  <2>2. CASE stage \in AwaitsController
    <3>1. Busy("demo")
      BY <1>2, <1>4, <2>2 DEF OldPictureComesFirst
    <3>2. QED
      BY <2>1, <3>1, BusyUntilAnswered
  <2>3. CASE stage \notin AwaitsController
    <3>1. PICK s \in Both : Serve(s)
      BY <2>3 DEF ScreensNext, Persons, ClickConsole, ConsoleAnswer, ConsoleSettles, PollConsole,
         ConsolePolled, ConsoleUnchanged, ServePoll, LoseCommand, LosePoll, ClickPlay, Seek,
         TimerStops, TimerAdvances, DemoAnswer, DemoRefused, PollDemo, DemoPolled,
         DemoUnchanged, serverVars
    <3>2. Head(call[s].todo) \in CommandsOf(s)
      BY <3>1, HeadOfList DEF Serve, Busy
    <3>3. Execute(Head(call[s].todo)) \/ Refuse(Head(call[s].todo))
      BY <3>1 DEF Serve
    <3>4. s = "demo"
      BY <2>3, <3>2, <3>3, ConsoleOpensNoGate DEF Both
    <3>5. Busy("demo")
      BY <3>1, <3>4 DEF Serve, Busy
    <3>6. QED
      BY <2>1, <3>5, BusyUntilAnswered
  <2>4. QED
    BY <2>2, <2>3
<1>5. CASE ~ServePoll("demo") /\ poll'["demo"] # poll["demo"]
  <2>1. \/ LosePoll("demo")
        \/ PollDemo
        \/ DemoPolled
    BY <1>1, <1>5 DEF ScreensNext, Persons, ClickConsole, ConsoleAnswer, ConsoleSettles,
       PollConsole, ConsolePolled, Serve, ServePoll, LoseCommand, LosePoll, ClickPlay, Seek,
       TimerStops, TimerAdvances, DemoAnswer, DemoRefused, Both
  <2>2. poll'["demo"].phase # "answered"
    BY <1>1, <2>1 DEF LosePoll, PollDemo, DemoPolled, NoPoll, Polls
  <2>3. QED
    BY <2>2
<1>6. QED
  BY <1>3, <1>4, <1>5

\* The invariant holds initially and is preserved.
LEMMA ScreensInvariant ==
    /\ ScreensInit => ScreensIInv
    /\ ScreensIInv /\ [ScreensNext]_vars => ScreensIInv'
<1>1. ScreensInit => ScreensIInv
  BY ScreensInitType DEF ScreensInit, NoPoll, OneReasonToStand, OldPictureComesFirst,
     ScreensIInv, Both
<1>2. ASSUME ScreensIInv, ScreensNext PROVE ScreensIInv'
  BY <1>2, ScreensNextKeepsType, StandingIsKept, OrderIsKept DEF ScreensIInv
<1>3. ASSUME ScreensIInv, UNCHANGED vars PROVE ScreensIInv'
  BY <1>3, ScreensNextKeepsType DEF ScreensIInv, vars, screenVars, serverVars,
     OneReasonToStand, OldPictureComesFirst, Busy
<1>4. QED
  BY <1>1, <1>2, <1>3

\* The invariant holds of every behaviour.
THEOREM ScreensInvariance == ScreensSpec => []ScreensIInv
BY ScreensInvariant, PTL DEF ScreensSpec

\* Type correctness of the screens.
THEOREM ScreensTypeCorrectness == ScreensSpec => []ScreensTypeOK
<1>1. ScreensIInv => ScreensTypeOK
  BY DEF ScreensIInv
<1>2. QED
  BY <1>1, ScreensInvariance, PTL

\* A demo screen that a person made stand stays so until a person starts it,
\* for any number of clicks, losses and overtaking answers.
THEOREM PauseIsKept == ScreensSpec => []PersonKeepsThePause
<1>1. ScreensIInv => PersonKeepsThePause
  BY DEF ScreensIInv, OneReasonToStand, PersonKeepsThePause
<1>2. QED
  BY <1>1, ScreensInvariance, PTL

\* In a network that keeps order the clock starts by itself only when the
\* chain of decisions is over.
THEOREM OrderedResume == ScreensSpec => OrderedAnswersResumeAfterTheChain
<1>1. ASSUME ScreensIInv, ScreensNext, ~overtakes, ~playing, playing', events' = events
      PROVE  stage \notin AwaitsController
  <2>1. ScreensTypeOK /\ events \in Int
    BY <1>1 DEF ScreensIInv, ScreensTypeOK
  <2>2. events + 1 # events
    BY <2>1
  <2>3. DemoPolled /\ Resumes(poll["demo"].answer.stage)
    <3>1. ~ClickPlay /\ ~(\E offset \in Stops : Seek(offset)) /\ ~ClickConsole
      BY <1>1, <2>2 DEF ClickPlay, Seek, ClickConsole
    <3>2. playing' # playing
      BY <1>1
    <3>3. ~DemoRefused
      BY <1>1 DEF DemoRefused
    <3>4. ~DemoAnswer
      BY <1>1, <3>2 DEF DemoAnswer, AtGate
    <3>5. DemoPolled
      BY <1>1, <3>1, <3>2, <3>3, <3>4 DEF ScreensNext, Persons, ConsoleAnswer, ConsoleSettles,
         PollConsole, ConsolePolled, ConsoleUnchanged, Serve, ServePoll, LoseCommand, LosePoll,
         TimerStops, TimerAdvances, PollDemo
    <3>6. QED
      BY <3>2, <3>5 DEF DemoPolled
  <2>4. QED
    BY <1>1, <2>3 DEF DemoPolled, Resumes, ScreensIInv, OldPictureComesFirst
<1>2. ScreensIInv /\ [ScreensNext]_vars =>
         [~overtakes /\ ~playing /\ playing' /\ events' = events
             => stage \notin AwaitsController]_vars
  BY <1>1
<1>3. QED
  BY <1>2, ScreensInvariance, PTL DEF ScreensSpec, OrderedAnswersResumeAfterTheChain
-----------------------------------------------------------------------------
(* The exception queue.                                                      *)

Items == [status : Active \cup {"RESOLVED", "NONE"},
          opened : Times, evaluated : Times, updated : Times]

\* An item in order at the time of the Snapshot that holds it.
InOrder(item, at) ==
    /\ item.status = "NONE" => item = NoItem
    /\ item.status # "NONE" =>
          /\ 0 <= item.opened
          /\ item.opened <= item.evaluated
          /\ item.evaluated <= item.updated
          /\ item.updated <= at

\* The inductive invariant: items in order, and a reset not acted on can
\* only be one the Step Orchestrator has yet to see.
IInv ==
    /\ TypeOK
    /\ \A s \in Subjects : InOrder(items[s], snapshotAt)
    /\ observed <= resetCount
    /\ StepOfThisRun
    /\ SnapshotCoversStep

-----------------------------------------------------------------------------
(* What the helpers return.                                                 *)

\* A missing item is in order at any time.
LEMMA NoItemInOrder == NoItem \in Items /\ \A at : InOrder(NoItem, at)
BY DEF NoItem, Items, InOrder, Times, Never

\* What an assessment makes of an item is in order at its time (Updated).
LEMMA UpdatedInOrder ==
    ASSUME NEW item \in Items, NEW at \in Times, InOrder(item, at),
           NEW active \in BOOLEAN, NEW t \in Nat, at <= t
    PROVE  Updated(item, active, t) \in Items /\ InOrder(Updated(item, active, t), t)
<1>1. item.opened \in Times /\ item.status \in Active \cup {"RESOLVED", "NONE"}
  BY DEF Items
<1>2. item.status # "NONE" => 0 <= item.opened /\ item.opened <= t
  <2>1. item.opened \in Times /\ item.evaluated \in Times /\ item.updated \in Times
    BY DEF Items
  <2>2. QED
    BY <2>1 DEF InOrder, Times, Never
<1>3. CASE active
  <2> DEFINE opened == IF Reopened(item) THEN t ELSE item.opened
             status == IF Reopened(item) THEN "OPEN" ELSE item.status
  <2>1. Updated(item, active, t) =
           [status |-> status, opened |-> opened, evaluated |-> t, updated |-> t]
    BY <1>3 DEF Updated
  <2>2. status \in Active /\ opened \in Times /\ 0 <= opened /\ opened <= t
    BY <1>1, <1>2 DEF Reopened, Active, Times
  <2>3. QED
    BY <2>1, <2>2 DEF Items, InOrder, Times, Active
<1>4. CASE ~active /\ item = NoItem
  BY <1>4, NoItemInOrder DEF Updated
<1>5. CASE ~active /\ item # NoItem
  <2>1. Updated(item, active, t) =
           [status |-> "RESOLVED", opened |-> item.opened, evaluated |-> t, updated |-> t]
    BY <1>5 DEF Updated
  <2>2. item.status # "NONE"
    BY <1>5 DEF InOrder
  <2>3. QED
    BY <1>1, <1>2, <2>1, <2>2 DEF Items, InOrder, Times
<1>6. QED
  BY <1>3, <1>4, <1>5

\* An item in order stays in order in a later Snapshot.
LEMMA LaterInOrder ==
    ASSUME NEW item \in Items, NEW at \in Times, InOrder(item, at), NEW t \in Times, at <= t
    PROVE  InOrder(item, t)
<1>1. item.updated \in Times
  BY DEF Items
<1>2. QED
  BY <1>1 DEF InOrder, Times, Never

\* A refresh leaves every item in order, assessed or not (Refreshed).
LEMMA RefreshedInOrder ==
    ASSUME NEW kept \in [Subjects -> Items], NEW at \in Times,
           \A s \in Subjects : InOrder(kept[s], at),
           NEW A \in SUBSET Subjects, NEW active \in [A -> BOOLEAN], NEW t \in Nat, at <= t
    PROVE  /\ Refreshed(kept, active, t) \in [Subjects -> Items]
           /\ \A s \in Subjects : InOrder(Refreshed(kept, active, t)[s], t)
<1>1. ASSUME NEW s \in Subjects
      PROVE  /\ Refreshed(kept, active, t)[s] \in Items
             /\ InOrder(Refreshed(kept, active, t)[s], t)
  <2>1. CASE s \in A
    BY <2>1, UpdatedInOrder DEF Refreshed
  <2>2. CASE s \notin A
    BY <2>2, LaterInOrder DEF Refreshed, Times
  <2>3. QED
    BY <2>1, <2>2
<1>2. Refreshed(kept, active, t) = [s \in Subjects |-> Refreshed(kept, active, t)[s]]
  BY DEF Refreshed
<1>3. QED
  BY <1>1, <1>2

\* What a Step starts from is in order, whether or not a reset is pending.
LEMMA BeforeStepInOrder ==
    ASSUME IInv
    PROVE  /\ BeforeStep.items \in [Subjects -> Items]
           /\ BeforeStep.snapshotAt \in Times
           /\ BeforeStep.stepTick \in Times
           /\ BeforeStep.stepTick <= tickCount
           /\ BeforeStep.stepTick <= BeforeStep.snapshotAt
           /\ \A s \in Subjects : InOrder(BeforeStep.items[s], BeforeStep.snapshotAt)
<1>1. CASE Synced
  <2>1. BeforeStep = [items |-> items, snapshotAt |-> snapshotAt, stepTick |-> stepTick]
    BY <1>1 DEF BeforeStep
  <2>2. QED
    BY <1>1, <2>1 DEF IInv, TypeOK, Items, StepOfThisRun, SnapshotCoversStep
<1>2. CASE ~Synced
  <2>1. BeforeStep = [items |-> NoItems, snapshotAt |-> Never, stepTick |-> Never]
    BY <1>2 DEF BeforeStep
  <2>2. tickCount \in Nat
    BY DEF IInv, TypeOK
  <2>3. QED
    BY <2>1, <2>2, NoItemInOrder DEF NoItems, Times, Never
<1>3. QED
  BY <1>1, <1>2

-----------------------------------------------------------------------------
(* Every step preserves the inductive invariant.                            *)

\* What Steps assess are subjects, at times that are times.
LEMMA AssessedSubjects == \A t : Assessed(t) \subseteq Subjects /\ Present(Subjects, t) \subseteq Subjects
BY DEF Assessed, Present, Subjects

\* The clock and the scheduler after a Step, refused or not.
LEMMA StepToType ==
    ASSUME IInv, NEW n \in Nat, StepTo(tickCount + n)
    PROVE  /\ tickCount' = tickCount + n
           /\ tickCount' \in Nat /\ tickCount' >= tickCount
           /\ lastSlot' \in Times
           /\ observed' = resetCount /\ resetCount' = resetCount
           /\ clockState' \in {"READY", "RUNNING", "PAUSED"}
           /\ observed' \in Nat
<1>1. /\ tickCount \in Nat /\ lastSlot \in Times /\ resetCount \in Nat
      /\ clockState \in {"READY", "RUNNING", "PAUSED"}
  BY DEF IInv, TypeOK
<1>2. (tickCount + n) \div Interval \in Nat
  BY <1>1, QueueAssumption
<1>3. lastSlot' \in Times
  BY <1>1, <1>2 DEF StepTo, Times
<1>4. QED
  BY <1>1, <1>3 DEF StepTo

\* A Step puts the queue, and its own result, at the new tick.
LEMMA StepKeepsIInv ==
    ASSUME IInv, NEW n \in Nat, Step(n)
    PROVE  IInv'
<1> DEFINE t == tickCount + n
<1>1. /\ StepTo(t) /\ BeforeStep.snapshotAt <= t
      /\ snapshotAt' = t /\ stepTick' = t
  BY DEF Step, InTime
<1>2. /\ tickCount' = t /\ t \in Nat /\ lastSlot' \in Times
      /\ observed' = resetCount /\ resetCount' = resetCount /\ observed' \in Nat
      /\ clockState' \in {"READY", "RUNNING", "PAUSED"}
  BY <1>1, StepToType
<1>3. PICK active \in [Assessed(t) -> BOOLEAN] :
         items' = Refreshed(BeforeStep.items, active, t)
  BY DEF Step
<1>4. /\ items' \in [Subjects -> Items]
      /\ \A s \in Subjects : InOrder(items'[s], t)
  BY <1>1, <1>2, <1>3, BeforeStepInOrder, AssessedSubjects, RefreshedInOrder
<1>5. TypeOK'
  BY <1>1, <1>2, <1>4 DEF TypeOK, Items, Times
<1>6. QED
  BY <1>1, <1>2, <1>4, <1>5 DEF IInv, StepOfThisRun, SnapshotCoversStep

\* A refused Step, or a reset acted on, leaves what a Step starts from.
LEMMA SyncKeepsIInv ==
    ASSUME IInv, (\E n \in Nat : StepRefused(n)) \/ Observe
    PROVE  IInv'
<1>1. /\ items' = BeforeStep.items /\ snapshotAt' = BeforeStep.snapshotAt
      /\ stepTick' = BeforeStep.stepTick
  BY DEF StepRefused, Observe
<1>2. /\ tickCount' \in Nat /\ tickCount' >= tickCount /\ lastSlot' \in Times
      /\ observed' = resetCount /\ resetCount' = resetCount /\ resetCount \in Nat
      /\ clockState' \in {"READY", "RUNNING", "PAUSED"}
  <2>1. /\ tickCount \in Nat /\ lastSlot \in Times /\ resetCount \in Nat
        /\ clockState \in {"READY", "RUNNING", "PAUSED"}
    BY DEF IInv, TypeOK
  <2>2. CASE Observe
    BY <2>1, <2>2 DEF Observe, clockVars
  <2>3. CASE \E n \in Nat : StepRefused(n)
    BY <2>1, <2>3, StepToType DEF StepRefused
  <2>4. QED
    BY <2>2, <2>3
<1>3. TypeOK'
  BY <1>1, <1>2, BeforeStepInOrder DEF TypeOK, Items
<1>4. \A s \in Subjects : InOrder(items'[s], snapshotAt')
  BY <1>1, BeforeStepInOrder
<1>5. StepOfThisRun' /\ SnapshotCoversStep'
  <2>1. stepTick' <= tickCount /\ stepTick' <= snapshotAt' /\ stepTick' \in Times
        /\ tickCount \in Nat
    BY <1>1, BeforeStepInOrder DEF IInv, TypeOK
  <2>2. stepTick' <= tickCount'
    BY <1>2, <2>1 DEF Times, Never
  <2>3. QED
    BY <2>1, <2>2 DEF StepOfThisRun, SnapshotCoversStep
<1>6. QED
  BY <1>2, <1>3, <1>4, <1>5 DEF IInv

\* A re-evaluation after an application refreshes within the tick.
LEMMA ReassessKeepsIInv ==
    ASSUME IInv, Reassess
    PROVE  IInv'
<1>1. /\ tickCount \in Nat /\ snapshotAt \in Times /\ snapshotAt <= tickCount
      /\ items \in [Subjects -> Items]
      /\ \A s \in Subjects : InOrder(items[s], snapshotAt)
  BY DEF Reassess, InTime, IInv, TypeOK, Items
<1>2. PICK active \in [Present(Subjects, tickCount) -> BOOLEAN] :
         items' = Refreshed(items, active, tickCount)
  BY DEF Reassess
<1>3. /\ items' \in [Subjects -> Items]
      /\ \A s \in Subjects : InOrder(items'[s], tickCount)
  BY <1>1, <1>2, AssessedSubjects, RefreshedInOrder
<1>4. /\ snapshotAt' = tickCount /\ stepTick' = tickCount
      /\ UNCHANGED <<tickCount, clockState, resetCount, lastSlot, observed, stepTick>>
  BY DEF Reassess, clockVars
<1>5. TypeOK'
  BY <1>1, <1>3, <1>4 DEF IInv, TypeOK, Items, Times
<1>6. QED
  BY <1>1, <1>3, <1>4, <1>5 DEF IInv, StepOfThisRun, SnapshotCoversStep, Synced

\* A client's acknowledgement moves the Snapshot, and its item, forward.
LEMMA AcknowledgeKeepsIInv ==
    ASSUME IInv, NEW s \in Subjects, NEW at \in Nat, Acknowledge(s, at)
    PROVE  IInv'
<1>1. /\ items \in [Subjects -> Items] /\ snapshotAt \in Times /\ snapshotAt <= at
      /\ items[s].status \in Active
      /\ snapshotAt' = at /\ at \in Times
      /\ stepTick \in Times
  BY DEF IInv, TypeOK, Items, Acknowledge, InTime, Times
<1>2. UNCHANGED <<tickCount, clockState, resetCount, lastSlot, observed, stepTick>>
  BY DEF Acknowledge, clockVars
<1>3. \A u \in Subjects : InOrder(items[u], at)
  BY <1>1, LaterInOrder DEF IInv
<1>4. /\ items' \in [Subjects -> Items]
      /\ \A u \in Subjects : InOrder(items'[u], at)
  <2>1. CASE items' = items
    BY <1>1, <1>3, <2>1
  <2>2. CASE items' = [items EXCEPT ![s].status = "ACKNOWLEDGED", ![s].updated = at]
    <3> DEFINE new == [items[s] EXCEPT !.status = "ACKNOWLEDGED", !.updated = at]
    <3>1. /\ items[s] \in Items /\ InOrder(items[s], snapshotAt)
          /\ items[s].status # "NONE"
      BY <1>1 DEF IInv, Active
    <3>2. new \in Items
      BY <1>1, <3>1 DEF Items, Active
    <3>3. /\ new.status = "ACKNOWLEDGED" /\ new.updated = at
          /\ new.opened = items[s].opened /\ new.evaluated = items[s].evaluated
      BY <3>1 DEF Items
    <3>4. items[s].evaluated \in Times /\ items[s].updated \in Times
      BY <3>1 DEF Items
    <3>5. InOrder(new, at)
      BY <1>1, <3>1, <3>3, <3>4 DEF InOrder, Times, Never
    <3>6. items' = [items EXCEPT ![s] = new]
      BY <1>1, <2>2 DEF Items
    <3>7. QED
      BY <1>1, <1>3, <3>2, <3>5, <3>6
  <2>3. QED
    BY <2>1, <2>2 DEF Acknowledge
<1>5. TypeOK'
  BY <1>1, <1>2, <1>4 DEF IInv, TypeOK, Items
<1>6. SnapshotCoversStep'
  BY <1>1, <1>2 DEF IInv, SnapshotCoversStep, Times, Never
<1>7. QED
  BY <1>1, <1>2, <1>4, <1>5, <1>6 DEF IInv, StepOfThisRun, Synced

\* The clock's own operations leave the queue alone; a reset makes whatever
\* the Step Orchestrator holds a thing of the past.
LEMMA ClockKeepsIInv ==
    ASSUME IInv, Play \/ Pause \/ (\E n \in 1 .. MaxStep : Tick(n)) \/ ClockReset
    PROVE  IInv'
<1>1. /\ TypeOK /\ UNCHANGED <<observed, stepTick, items, snapshotAt>>
  BY DEF IInv, Play, Pause, Tick, ClockReset, queueVars
<1>2. CASE Play \/ Pause
  <2>1. UNCHANGED <<tickCount, resetCount, lastSlot>>
        /\ clockState' \in {"READY", "RUNNING", "PAUSED"}
    BY <1>2 DEF Play, Pause
  <2>2. QED
    BY <1>1, <2>1 DEF IInv, TypeOK, StepOfThisRun, SnapshotCoversStep, Synced
<1>3. CASE \E n \in 1 .. MaxStep : Tick(n)
  <2>1. UNCHANGED <<clockState, resetCount, lastSlot>> /\ tickCount' \in Nat /\ tickCount' >= tickCount
    BY <1>1, <1>3, QueueAssumption DEF Tick, TypeOK
  <2>2. TypeOK'
    BY <1>1, <2>1 DEF TypeOK
  <2>3. StepOfThisRun'
    <3>1. stepTick \in Times /\ tickCount \in Nat
      BY <1>1 DEF TypeOK
    <3>2. QED
      BY <1>1, <2>1, <3>1 DEF IInv, StepOfThisRun, Synced, Times, Never
  <2>4. QED
    BY <1>1, <2>1, <2>2, <2>3 DEF IInv, SnapshotCoversStep
<1>4. CASE ClockReset
  <2>1. /\ resetCount' = resetCount + 1 /\ tickCount' = 0 /\ clockState' = "READY"
        /\ lastSlot' = Never
    BY <1>4 DEF ClockReset
  <2>2. TypeOK'
    BY <1>1, <2>1 DEF TypeOK, Times
  <2>3. observed' <= resetCount' /\ observed' # resetCount'
    BY <1>1, <2>1 DEF IInv, TypeOK
  <2>4. QED
    BY <1>1, <2>2, <2>3 DEF IInv, StepOfThisRun, SnapshotCoversStep, Synced
<1>5. QED
  BY <1>2, <1>3, <1>4

\* The first run starts in the invariant.
LEMMA InitIInv == ServiceInit => IInv
BY NoItemInOrder DEF ServiceInit, IInv, TypeOK, NoItems, Items, Times, Never, StepOfThisRun,
   SnapshotCoversStep, Synced

\* Every step preserves it.
LEMMA NextKeepsIInv ==
    ASSUME IInv, [ServiceNext]_serviceVars
    PROVE  IInv'
<1>1. CASE Play \/ Pause \/ (\E n \in 1 .. MaxStep : Tick(n)) \/ ClockReset
  BY <1>1, ClockKeepsIInv
<1>2. CASE \E n \in 0 .. MaxStep : Step(n)
  BY <1>2, StepKeepsIInv, QueueAssumption
<1>3. CASE (\E n \in 0 .. MaxStep : StepRefused(n)) \/ Observe
  BY <1>3, SyncKeepsIInv, QueueAssumption
<1>4. CASE Reassess
  BY <1>4, ReassessKeepsIInv
<1>5. CASE \E s \in Subjects, at \in 0 .. MaxTick : Acknowledge(s, at)
  BY <1>5, AcknowledgeKeepsIInv, QueueAssumption
<1>6. CASE UNCHANGED serviceVars
  BY <1>6 DEF serviceVars, clockVars, queueVars, IInv, TypeOK, StepOfThisRun, SnapshotCoversStep, Synced
<1>7. QED
  BY <1>1, <1>2, <1>3, <1>4, <1>5, <1>6 DEF ServiceNext

-----------------------------------------------------------------------------
(* The theorems.                                                            *)

\* The inductive invariant holds of every behaviour of the queue.
THEOREM Invariance == ServiceSpec => []IInv
BY InitIInv, NextKeepsIInv, PTL DEF ServiceSpec

\* Type correctness of the queue.
THEOREM TypeCorrectness == ServiceSpec => []TypeOK
<1>1. IInv => TypeOK
  BY DEF IInv
<1>2. QED
  BY <1>1, Invariance, PTL

\* No refresh or acknowledgement ever builds an item, or a Snapshot, that its
\* constructor would refuse.
THEOREM OrderedItems == ServiceSpec => []ItemsInOrder
<1>1. IInv => ItemsInOrder
  BY DEF IInv, ItemsInOrder, InOrder
<1>2. QED
  BY <1>1, Invariance, PTL

\* No tick of a new run is taken for one that already has its Step.
THEOREM CurrentStep == ServiceSpec => []StepOfThisRun
<1>1. IInv => StepOfThisRun
  BY DEF IInv
<1>2. QED
  BY <1>1, Invariance, PTL

\* No Step result is newer than the Snapshot a client may compare it with.
THEOREM CoveredStep == ServiceSpec => []SnapshotCoversStep
<1>1. IInv => SnapshotCoversStep
  BY DEF IInv
<1>2. QED
  BY <1>1, Invariance, PTL

\* A refresh keeps the episode of every item that stays active.
LEMMA RefreshKeepsEpisodes ==
    ASSUME NEW kept, NEW active, NEW t, NEW s \in Subjects,
           kept[s].status \in Active, Refreshed(kept, active, t)[s].status \in Active
    PROVE  /\ Refreshed(kept, active, t)[s].opened = kept[s].opened
           /\ kept[s].status = "ACKNOWLEDGED" =>
                 Refreshed(kept, active, t)[s].status = "ACKNOWLEDGED"
<1>1. CASE s \notin DOMAIN active
  BY <1>1 DEF Refreshed
<1>2. CASE s \in DOMAIN active
  <2>1. Refreshed(kept, active, t)[s] = Updated(kept[s], active[s], t)
    BY <1>2 DEF Refreshed
  <2>2. CASE active[s]
    BY <2>1, <2>2 DEF Updated, Reopened
  <2>3. CASE ~active[s]
    BY <2>1, <2>3 DEF Updated, NoItem, Active
  <2>4. QED
    BY <2>2, <2>3
<1>3. QED
  BY <1>1, <1>2

EpisodesKept ==
    \A s \in Subjects :
        observed' = observed /\ items[s].status \in Active /\ items'[s].status \in Active =>
            /\ items'[s].opened = items[s].opened
            /\ items[s].status = "ACKNOWLEDGED" => items'[s].status = "ACKNOWLEDGED"

\* Within a run no step ends an episode but by resolving its item.
LEMMA NextKeepsEpisodes ==
    ASSUME IInv, ServiceNext
    PROVE  EpisodesKept
<1>1. CASE UNCHANGED items
  BY <1>1 DEF EpisodesKept
<1>2. ASSUME observed' = observed, observed' = resetCount PROVE BeforeStep.items = items
  BY <1>2 DEF BeforeStep, Synced
<1>3. ASSUME NEW n \in 0 .. MaxStep, Step(n) PROVE EpisodesKept
  <2>1. SUFFICES ASSUME observed' = observed PROVE EpisodesKept
    BY DEF EpisodesKept
  <2>2. observed' = resetCount
    BY <1>3 DEF Step, StepTo
  <2>3. PICK active : items' = Refreshed(items, active, tickCount + n)
    BY <1>2, <1>3, <2>1, <2>2 DEF Step
  <2>4. QED
    BY <2>3, RefreshKeepsEpisodes DEF EpisodesKept
<1>4. ASSUME (\E n \in 0 .. MaxStep : StepRefused(n)) \/ Observe PROVE EpisodesKept
  <2>1. observed' = resetCount /\ items' = BeforeStep.items
    BY <1>4 DEF StepRefused, StepTo, Observe
  <2>2. QED
    BY <1>2, <2>1 DEF EpisodesKept
<1>5. CASE Reassess
  <2>1. PICK active : items' = Refreshed(items, active, tickCount)
    BY <1>5 DEF Reassess
  <2>2. QED
    BY <2>1, RefreshKeepsEpisodes DEF EpisodesKept
<1>6. ASSUME NEW s \in Subjects, NEW at \in 0 .. MaxTick, Acknowledge(s, at)
      PROVE  EpisodesKept
  <2>1. items \in [Subjects -> Items]
    BY DEF IInv, TypeOK, Items
  <2>2. CASE items' = items
    BY <2>2 DEF EpisodesKept
  <2>3. CASE items' = [items EXCEPT ![s].status = "ACKNOWLEDGED", ![s].updated = at]
    BY <2>1, <2>3 DEF EpisodesKept, Items
  <2>4. QED
    BY <1>6, <2>2, <2>3 DEF Acknowledge
<1>7. CASE Play \/ Pause \/ (\E n \in 1 .. MaxStep : Tick(n)) \/ ClockReset
  BY <1>1, <1>7 DEF Play, Pause, Tick, ClockReset, queueVars
<1>8. QED
  BY <1>3, <1>4, <1>5, <1>6, <1>7 DEF ServiceNext

\* An acknowledgement holds, and an item keeps its opening time, until the
\* item is resolved or the run ends.
THEOREM EpisodesHold == ServiceSpec => AcknowledgementHolds
<1>1. IInv /\ [ServiceNext]_serviceVars =>
         [\A s \in Subjects :
             observed' = observed /\ items[s].status \in Active /\ items'[s].status \in Active =>
                 /\ items'[s].opened = items[s].opened
                 /\ items[s].status = "ACKNOWLEDGED" => items'[s].status = "ACKNOWLEDGED"]_serviceVars
  BY NextKeepsEpisodes DEF EpisodesKept
<1>2. QED
  BY <1>1, Invariance, PTL DEF ServiceSpec, AcknowledgementHolds

OnlyNewItems ==
    observed' # observed => \A s \in Subjects : items'[s] = NoItem \/ items'[s].opened = tickCount'

\* A refresh of an empty queue holds only items it opened.
LEMMA RefreshOpensAnew ==
    ASSUME NEW active, NEW t, NEW s \in Subjects
    PROVE  Refreshed(NoItems, active, t)[s] = NoItem \/ Refreshed(NoItems, active, t)[s].opened = t
<1>1. Reopened(NoItem)
  BY DEF Reopened, NoItem, Active
<1>2. QED
  BY <1>1 DEF Refreshed, NoItems, Updated

\* The step that acts on a reset forgets every item of the old run.
LEMMA NextForgets ==
    ASSUME IInv, ServiceNext
    PROVE  OnlyNewItems
<1>1. SUFFICES ASSUME observed' # observed PROVE OnlyNewItems
  BY DEF OnlyNewItems
<1>2. \/ \E n \in 0 .. MaxStep : Step(n) \/ StepRefused(n)
      \/ Observe
  BY <1>1 DEF ServiceNext, Play, Pause, Tick, ClockReset, Reassess, Acknowledge
<1>3. BeforeStep.items = NoItems
  BY <1>1, <1>2 DEF Step, StepRefused, StepTo, Observe, BeforeStep, Synced
<1>4. CASE \E n \in 0 .. MaxStep : Step(n)
  <2>1. PICK n \in 0 .. MaxStep : Step(n)
    BY <1>4
  <2>2. PICK active : items' = Refreshed(NoItems, active, tickCount + n)
    BY <1>3, <2>1 DEF Step
  <2>3. tickCount' = tickCount + n
    BY <2>1 DEF Step, StepTo
  <2>4. QED
    BY <2>2, <2>3, RefreshOpensAnew DEF OnlyNewItems
<1>5. CASE (\E n \in 0 .. MaxStep : StepRefused(n)) \/ Observe
  BY <1>3, <1>5 DEF StepRefused, Observe, OnlyNewItems, NoItems
<1>6. QED
  BY <1>2, <1>4, <1>5

\* A new run starts with an empty queue, whatever happened in between.
THEOREM NewRunForgets == ServiceSpec => NewRunForgetsTheOld
<1>1. IInv /\ [ServiceNext]_serviceVars =>
         [observed' # observed =>
             \A s \in Subjects : items'[s] = NoItem \/ items'[s].opened = tickCount']_serviceVars
  BY NextForgets DEF OnlyNewItems
<1>2. QED
  BY <1>1, Invariance, PTL DEF ServiceSpec, NewRunForgetsTheOld
=============================================================================
