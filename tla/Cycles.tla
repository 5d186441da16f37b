------------------------------- MODULE Cycles -------------------------------
(***************************************************************************)
(* What textures.c animates: the frame of an animated texture              *)
(* (texAnimateTexture), which goes round forwards or backwards, to and     *)
(* fro, or blinks once in a while, and a light that pulsates through a     *)
(* list of timed colours (resetMixCycle, updateMixCycle; the colour mixed  *)
(* from two neighbours is left out).  The two history variables add up     *)
(* what each was told has passed.                                          *)
(***************************************************************************)
EXTENDS Integers, FiniteSets

CONSTANTS
  MaxFrames,   \* bound: frames of a texture, colours of a light
  MaxTime,     \* bound: time of a colour
  Steps,       \* what passes in one call: frameAdvanceDelay * updateRate, or timeDelta
  TimeLimit    \* a light's times are kept modulo this (2^16)

\* No texture has 0 frames, and the times of a light fit their 16 bits: the data
\* of the game keeps to it, the code does not look.
ASSUME CyclesAssumption ==
  /\ MaxFrames \in Nat \ {0} /\ {MaxTime, TimeLimit} \cup Steps \subseteq Nat
  /\ \A s \in {0} \cup Steps : MaxFrames * MaxTime + s < TimeLimit

VARIABLES
  texture,      \* way: "loop", "bounce" or "blink" (BIT17, BIT18); n: numOfTextures
  frame,        \* *arg2
  running,      \* BATCH_FLAGS_BIT18 of a texture that blinks
  backwards,    \* BATCH_FLAGS_BIT19
  blinkMode,    \* what is asked of the next texture that blinks
  shown,        \* history: what passed since the start, for a loop or bounce less whole cycles
  times,        \* of the light's colours
  currentFrame, \* of the light
  time,         \* of the light
  shone         \* history: what passed since the light's reset, less whole cycles

textureVars == <<texture, frame, running, backwards, blinkMode, shown>>
lightVars == <<times, currentFrame, time, shone>>
cyclesVars == <<textureVars, lightVars>>

n == texture.n
Turn(at) == 2 * n - at - 1

numberFrames == Cardinality(DOMAIN times)

\* The time of the first f colours, up to twice round.
Elapsed ==
  LET sum[f \in 0..(2 * numberFrames)] ==
        IF f = 0 THEN 0 ELSE sum[f - 1] + times[(f - 1) % numberFrames]
  IN  sum

totalTime == Elapsed[numberFrames] % TimeLimit

-----------------------------------------------------------------------------
\* texAnimateTexture without BIT17 and BIT18: whole cycles are taken off or added
\* until the frame is one of the texture's.
Loop(step) ==
  /\ texture.way = "loop"
  /\ frame' = (IF backwards THEN frame - step ELSE frame + step) % n
  /\ shown' = (shown + step) % n
  /\ UNCHANGED <<texture, running, backwards, blinkMode>>

\* With BIT18: the frame is turned round at both ends until it is one.
TurnedRound(s) ==
  CASE s.at < 0 -> [at |-> -s.at, back |-> FALSE]
    [] s.at >= n -> [at |-> Turn(s.at), back |-> TRUE]
    [] OTHER -> s

\* Two turns bring it nearer to 0, so that these are enough.
MaxTurns(at) == 1 + 2 * (IF at < 0 THEN -at ELSE at)

Settled(at, back) ==
  LET turned[i \in 0..MaxTurns(at)] ==
        IF i = 0 THEN [at |-> at, back |-> back] ELSE TurnedRound(turned[i - 1])
  IN  turned[MaxTurns(at)]

Bounce(step) ==
  LET to == Settled(IF backwards THEN frame - step ELSE frame + step, backwards)
  IN  /\ texture.way = "bounce"
      /\ frame' = to.at
      /\ backwards' = to.back
      /\ shown' = (shown + step) % (2 * n - 1)
      /\ UNCHANGED <<texture, running, blinkMode>>

\* With BIT17, waiting: by chance, unless modes 1 and 3 make it blink now and
\* mode 2 forbids it.
BlinkStarts ==
  /\ texture.way = "blink" /\ ~running
  /\ running' \in {m \in BOOLEAN : (blinkMode \in {1, 3} => m) /\ (blinkMode = 2 => ~m)}
  /\ backwards' = (backwards /\ ~running')
  /\ shown' = IF running' THEN 0 ELSE shown
  /\ blinkMode' = 0
  /\ UNCHANGED <<texture, frame>>

\* With BIT17, blinking: there, held at the last frame by mode 3, and back.
Blink(step) ==
  LET at   == IF backwards THEN frame - step ELSE frame + step
      hold == ~backwards /\ at >= n /\ blinkMode = 3
      last == IF ~backwards /\ at >= n THEN Turn(at) ELSE at
  IN  /\ texture.way = "blink" /\ running
      /\ frame' = IF hold THEN n - 1 ELSE IF last < 0 THEN 0 ELSE last
      /\ running' = (hold \/ last >= 0)
      /\ backwards' = (~hold /\ last >= 0 /\ (backwards \/ at >= n))
      /\ shown' = IF hold THEN n - 1 ELSE IF last < 0 THEN 0 ELSE shown + step
      /\ blinkMode' = 0
      /\ UNCHANGED texture

\* The game asks for a blink, for none, or for eyes kept shut.
SetBlink ==
  /\ texture.way = "blink"
  /\ blinkMode' \in 1..3
  /\ UNCHANGED <<texture, frame, running, backwards, shown>>

-----------------------------------------------------------------------------
resetMixCycle ==
  /\ currentFrame' = 0 /\ time' = 0 /\ shone' = 0
  /\ UNCHANGED times

\* Mutant: no more than one colour is left behind in a call.
UpdateOneColour(timeDelta) ==
  LET all  == ((time + timeDelta) % TimeLimit) % totalTime
      over == all >= times[currentFrame]
  IN  /\ numberFrames > 1
      /\ time' = IF over THEN all - times[currentFrame] ELSE all
      /\ currentFrame' = IF over THEN (currentFrame + 1) % numberFrames ELSE currentFrame
      /\ shone' = (shone + timeDelta) % totalTime
      /\ UNCHANGED times

\* Whole cycles are taken off, then each colour whose time is over is left.
updateMixCycle(timeDelta) ==
  LET all  == ((time + timeDelta) % TimeLimit) % totalTime
      last == CHOOSE f \in currentFrame..(currentFrame + numberFrames - 1) :
                /\ Elapsed[f] <= Elapsed[currentFrame] + all
                /\ Elapsed[currentFrame] + all < Elapsed[f + 1]
  IN  /\ numberFrames > 1
      /\ time' = Elapsed[currentFrame] + all - Elapsed[last]
      /\ currentFrame' = last % numberFrames
      /\ shone' = (shone + timeDelta) % totalTime
      /\ UNCHANGED times

-----------------------------------------------------------------------------
\* A light whose colours take no time at all would never come out of its loop.
CyclesInit ==
  /\ texture \in [way : {"loop", "bounce", "blink"}, n : 1..MaxFrames]
  /\ frame = 0 /\ running = FALSE /\ blinkMode = 0 /\ shown = 0
  /\ backwards \in {m \in BOOLEAN : m => texture.way = "loop"}
  /\ times \in UNION {[0..(m - 1) -> 0..MaxTime] : m \in 2..MaxFrames}
  /\ totalTime > 0
  /\ currentFrame = 0 /\ time = 0 /\ shone = 0

CyclesNext ==
  \/ /\ \/ \E step \in Steps : Loop(step) \/ Bounce(step) \/ Blink(step)
        \/ BlinkStarts
        \/ SetBlink
     /\ UNCHANGED lightVars
  \/ /\ resetMixCycle \/ \E timeDelta \in Steps : updateMixCycle(timeDelta)
     /\ UNCHANGED textureVars

-----------------------------------------------------------------------------
CyclesTypeOK ==
  /\ texture \in [way : {"loop", "bounce", "blink"}, n : 1..MaxFrames]
  /\ frame \in Nat /\ shown \in Nat /\ blinkMode \in 0..3
  /\ {running, backwards} \subseteq BOOLEAN
  /\ {currentFrame, time, shone} \subseteq Nat

\* textures.c:460 and 523: however unevenly time passes, a frame is one the
\* texture has and the one due after what passed in all: forwards or backwards
\* modulo n; to and fro over a cycle that shows the first frame once and the last
\* twice; a blink from its start, ending where it began.  A light is in the
\* colour due after what passed since its reset, and as far into it.
CyclesKeepTime ==
  /\ frame \in 0..(n - 1)
  /\ texture.way = "loop" => frame = (IF backwards THEN n - shown ELSE shown) % n
  /\ texture.way = "bounce" =>
       (IF backwards THEN Turn(frame) ELSE frame) % (2 * n - 1) = shown
  /\ texture.way = "blink" =>
       IF running THEN (IF backwards THEN Turn(frame) ELSE frame) = shown
       ELSE frame = 0
  /\ currentFrame \in DOMAIN times
  /\ time < times[currentFrame] \/ (shone = 0 /\ time = 0)
  /\ Elapsed[currentFrame] + time = shone
=============================================================================
