------------------------------ MODULE Playback ------------------------------
(***************************************************************************)
(* The day as it is played back (api/playback.py): six of its steps become *)
(* cues, frames are generated at fixed intervals on a simulation of its    *)
(* own, and a frame carries the cues of exactly its offset.  A frame per   *)
(* unit of the day stands for the frame per second of the code.  Offsets   *)
(* are in half units: the times of the timetable, the rolls and the way    *)
(* home are no whole numbers of them, and the day of SortieDay is what is  *)
(* left of it without the halves.                                          *)
(***************************************************************************)
EXTENDS SortieDay, Functions

CONSTANT LeadIn  \* from the first sample of any track to the window, in halves

(* No approach fix is within half a minute of the training area, and a      *)
(* fighter keeps the runway for fifty seconds at least.                     *)
ASSUME PlaybackAssumption ==
  /\ LeadIn \in Nat
  /\ \A f \in Fixes : Miles(Start, f) * Pace >= 3
  /\ Fleet[Fighter].occupancy >= 5

CueSteps == <<1, 7, 9, 10, 12, 13>>

\* The cues at which the controller has to act, and the screen stops.
OperatorCues == {7, 10}

LastSlot(schedule) ==
  CHOOSE t \in {schedule[i].time : i \in DOMAIN schedule} :
    \A i \in DOMAIN schedule : schedule[i].time <= t

\* By how much a stretch of the day misses a whole unit: up to the
\* declaration, from there to the landing, and to the last use of the runway.
Parts == [declared : {0, 1}, way : {0, 1}, rest : {0, 1}]

StepTime(n, part) ==
  LET declared == 2 * sortie.declared + part.declared
      beyond == part.declared + part.way
  IN  CASE n = 1 -> 2 * WindowFrom
        [] n = 7 -> declared
        [] n = 9 -> declared + 12
        [] n = 10 -> declared + 18
        [] n = 12 -> 2 * (sortie.landed + 6) + beyond
        [] OTHER -> 2 * LastSlot(final) + beyond + part.rest

\* The steps are moved to the origin of the tracks.
Shifted(t) == t - 2 * WindowFrom + LeadIn

\* Variant: the first cue stays where its step is.
CueOffsetOfStep(n, part) == Shifted(StepTime(n, part))

\* The first step is not at the origin, its cue is.
CueOffset(n, part) == IF n = 1 THEN 0 ELSE Shifted(StepTime(n, part))

Cues(part) ==
  [i \in DOMAIN CueSteps |->
     [step |-> CueSteps[i], offset |-> CueOffset(CueSteps[i], part),
      pauses |-> CueSteps[i] \in OperatorCues]]

\* To the last step or to when the last track ends, stays after it; whole
\* units, so that the last frame is at the end.
Duration(part, stays) == (Shifted(StepTime(13, part)) + stays + 1) \div 2

ContractAccepted(cues, duration) ==
  /\ duration >= 1
  /\ IsInjective([i \in DOMAIN cues |-> cues[i].step])
  /\ cues[1].offset = 0
  /\ \A i \in 1 .. Len(cues) - 1 : cues[i].offset <= cues[i + 1].offset
  /\ cues[Len(cues)].offset <= 2 * duration

\* One from the start of a simulation of its own and one after each tick.
Frames(cues, duration) ==
  [f \in 1 .. duration + 1 |->
     [offset |-> f - 1,
      cues |-> {cues[i].step : i \in {j \in DOMAIN cues : cues[j].offset = 2 * (f - 1)}}]]

FramesAccepted(frames, duration) ==
  /\ \A f \in DOMAIN frames : frames[f].offset = f - 1
  /\ frames[Len(frames)].offset = duration

-----------------------------------------------------------------------------
(* The contract is made of the day's own steps and is refused, and with it  *)
(* the session that is being built, if they are out of order or past the    *)
(* end: that does not happen while two operations or more are left to       *)
(* follow the emergency, whatever the fractions.  Playback begins with a    *)
(* cue; any other is in the one frame of its offset when that is whole and  *)
(* in none when it lies between two, and the points where the controller    *)
(* has to act are in frames both or neither.                                *)
PlaybackShowsTheDay ==
  Over /\ Len(Remaining) >= 2 =>
    \A part \in Parts, stays \in {0, 3} :
      LET cues == Cues(part)
          frames == Frames(cues, Duration(part, stays))
          FramesWith(n) == {f \in DOMAIN frames : n \in frames[f].cues}
      IN  /\ ContractAccepted(cues, Duration(part, stays))
          /\ FramesAccepted(frames, Duration(part, stays))
          /\ FramesWith(1) = {1}
          /\ \A i \in DOMAIN cues :
               Cardinality(FramesWith(cues[i].step)) = IF cues[i].offset % 2 = 0 THEN 1 ELSE 0
          /\ \A m, n \in OperatorCues : FramesWith(m) = {} <=> FramesWith(n) = {}
=============================================================================
