----------------------------- MODULE HostProofs -----------------------------
(***************************************************************************)
(* Theorems about the two parts of the host that stand around the ECS: the *)
(* loop that draws frames (SketchLoop) and the audio mixer (AudioMixer),   *)
(* each with its own specification.                                        *)
(*                                                                         *)
(* SketchLoop, for every frame bound, every number of motions and batches of *)
(* every length.  Motion: what the frame has gathered, what was dispatched *)
(* and what was shown are natural numbers that balance in every step by    *)
(* themselves.  Release: the finally clauses are only entered once the     *)
(* window is open, so the states before the loop must be known to have none. *)
(*                                                                         *)
(* AudioMixer, for every set of objects, every voice limit and every number *)
(* of voice ids.  Six invariants, each proved with the help of those before *)
(* it: what passes between the two threads, the state of each voice against *)
(* its snapshot, the ends delivered, what a method's calls say, how many   *)
(* voices there are, and who answers for each.                             *)
(***************************************************************************)
EXTENDS SketchLoop, AudioMixer, FiniteSetTheorems, TLAPS

-----------------------------------------------------------------------------
(* SketchLoop: motion.                                                     *)

MotionNats == frameMotion \in Nat /\ moves \in Nat /\ shown \in Nat

MotionInv == MotionNats /\ MotionShownOnce

\* The initial state has dispatched nothing and shown nothing.
LEMMA MotionInit == LoopInit => MotionInv
  BY DEF LoopInit, MotionInv, MotionNats, MotionShownOnce

\* The sketch's own code touches the motion only by raising, and then only from
\* draw, whose motion has been counted as shown.
LEMMA MotionUserCode == MotionInv /\ UserCode => MotionInv'
<1> SUFFICES ASSUME MotionInv, UserCode PROVE MotionInv'
  OBVIOUS
<1> USE DEF MotionInv, MotionNats, MotionShownOnce
<1>1. CASE NoLoop
  BY <1>1 DEF NoLoop, motionVars
<1>2. CASE Loop
  BY <1>2 DEF Loop, motionVars
<1>3. CASE Redraw
  BY <1>3 DEF Redraw, motionVars
<1>4. CASE StopSketch
  BY <1>4 DEF StopSketch, motionVars
<1>5. CASE Raise
  BY <1>5 DEF Raise
<1> QED
  BY <1>1, <1>2, <1>3, <1>4, <1>5 DEF UserCode

\* Of the program's steps a dispatched motion, the start of a frame and its end
\* move motion from one account to the next; no other step enters or leaves draw.
LEMMA MotionProgram == MotionInv /\ Program => MotionInv'
<1> SUFFICES ASSUME MotionInv, Program PROVE MotionInv'
  OBVIOUS
<1> USE DEF MotionInv, MotionNats, MotionShownOnce
<1>1. CASE PreloadReturns
  BY <1>1 DEF PreloadReturns, motionVars
<1>2. CASE StartHeadless
  BY <1>2 DEF StartHeadless, motionVars
<1>3. CASE StartInteractive
  BY <1>3 DEF StartInteractive, motionVars
<1>4. CASE OpenFails
  BY <1>4 DEF OpenFails, motionVars
<1>5. CASE Iterate
  BY <1>5 DEF Iterate, motionVars
<1>6. CASE Poll
  BY <1>6 DEF Poll, motionVars
<1>7. CASE DispatchMove
  BY <1>7 DEF DispatchMove
<1>8. CASE EventReturns
  BY <1>8 DEF EventReturns, motionVars
<1>9. CASE DispatchClose
  BY <1>9 DEF DispatchClose, motionVars
<1>10. CASE Dispatched
  BY <1>10 DEF Dispatched, motionVars
<1>11. CASE BeginFrame
  BY <1>11 DEF BeginFrame
<1>12. CASE SkipFrame
  BY <1>12 DEF SkipFrame, motionVars
<1>13. CASE DrawReturns
  BY <1>13 DEF DrawReturns
<1>14. CASE Unwind
  BY <1>14 DEF Unwind, motionVars
<1>15. CASE EventsFail
  BY <1>15 DEF EventsFail, motionVars
<1>16. CASE PresentFails
  BY <1>16 DEF PresentFails
<1> QED
  BY <1>1, <1>2, <1>3, <1>4, <1>5, <1>6, <1>7, <1>8, <1>9, <1>10, <1>11, <1>12,
     <1>13, <1>14, <1>15, <1>16 DEF Program

\* The motion gathered, dispatched and shown balances in every state.
LEMMA MotionInvariant == LoopSpec => []MotionInv
<1>1. LoopInit => MotionInv
  BY MotionInit
<1>2. MotionInv /\ [LoopNext]_loopVars => MotionInv'
  <2> SUFFICES ASSUME MotionInv, [LoopNext]_loopVars PROVE MotionInv'
    OBVIOUS
  <2>1. CASE UserCode
    BY <2>1, MotionUserCode
  <2>2. CASE Program
    BY <2>2, MotionProgram
  <2>3. CASE Clock
    BY <2>3 DEF Clock, MotionInv, MotionNats, MotionShownOnce, motionVars
  <2>4. CASE UNCHANGED loopVars
    BY <2>4 DEF MotionInv, MotionNats, MotionShownOnce, loopVars, motionVars
  <2> QED
    BY <2>1, <2>2, <2>3, <2>4 DEF LoopNext
<1> QED
  BY <1>1, <1>2, PTL DEF LoopSpec

\* Every dispatched motion has been read by exactly one frame or will be read by
\* the next (dispatch_mouse_event, _draw_frame, end_frame).
THEOREM MotionCorrect == LoopSpec => []MotionShownOnce
<1>1. MotionInv => MotionShownOnce
  BY DEF MotionInv
<1> QED
  BY <1>1, MotionInvariant, PTL

-----------------------------------------------------------------------------
(* SketchLoop: release.                                                    *)

\* Before the loop there is neither a window nor a running backend: only then is
\* OpenFails, which skips the backend's finally clause, harmless.
NothingOpenYet == pc \in {"preload", "setup"} => ~backendRunning /\ ~window

ReleaseInv == NothingOpenYet /\ ReleasedAtEnd

\* No callback can open a window or set a flag.
LEMMA ReleaseUserCode == ReleaseInv /\ UserCode => ReleaseInv'
<1> SUFFICES ASSUME ReleaseInv, UserCode PROVE ReleaseInv'
  OBVIOUS
<1> USE DEF ReleaseInv, NothingOpenYet, ReleasedAtEnd
<1>1. CASE NoLoop
  BY <1>1 DEF NoLoop, flagVars, windowVars, Callbacks
<1>2. CASE Loop
  BY <1>2 DEF Loop, flagVars, windowVars, Callbacks
<1>3. CASE Redraw
  BY <1>3 DEF Redraw, flagVars, windowVars, Callbacks
<1>4. CASE StopSketch
  BY <1>4 DEF StopSketch, flagVars, windowVars, Callbacks
<1>5. CASE Raise
  BY <1>5 DEF Raise, flagVars, windowVars, Callbacks
<1> QED
  BY <1>1, <1>2, <1>3, <1>4, <1>5 DEF UserCode

\* Only the two starts set the backend's flag, and the done state is entered
\* through the finally clauses or from setup.
LEMMA ReleaseProgram == ReleaseInv /\ Program => ReleaseInv'
<1> SUFFICES ASSUME ReleaseInv, Program PROVE ReleaseInv'
  OBVIOUS
<1> USE DEF ReleaseInv, NothingOpenYet, ReleasedAtEnd
<1>1. CASE PreloadReturns
  BY <1>1 DEF PreloadReturns, flagVars, windowVars
<1>2. CASE StartHeadless
  BY <1>2 DEF StartHeadless, flagVars, windowVars
<1>3. CASE StartInteractive
  BY <1>3 DEF StartInteractive, flagVars, windowVars
<1>4. CASE OpenFails
  BY <1>4 DEF OpenFails, flagVars, windowVars
<1>5. CASE Iterate
  BY <1>5 DEF Iterate, flagVars, windowVars
<1>6. CASE Poll
  BY <1>6 DEF Poll, flagVars, windowVars
<1>7. CASE DispatchMove
  BY <1>7 DEF DispatchMove, flagVars, windowVars
<1>8. CASE EventReturns
  BY <1>8 DEF EventReturns, flagVars, windowVars
<1>9. CASE DispatchClose
  BY <1>9 DEF DispatchClose, flagVars, windowVars
<1>10. CASE Dispatched
  BY <1>10 DEF Dispatched, flagVars, windowVars
<1>11. CASE BeginFrame
  BY <1>11 DEF BeginFrame, flagVars, windowVars
<1>12. CASE SkipFrame
  BY <1>12 DEF SkipFrame, flagVars, windowVars
<1>13. CASE DrawReturns
  BY <1>13 DEF DrawReturns, flagVars, windowVars
<1>14. CASE Unwind
  BY <1>14 DEF Unwind, flagVars, windowVars
<1>15. CASE EventsFail
  BY <1>15 DEF EventsFail, flagVars, windowVars
<1>16. CASE PresentFails
  BY <1>16 DEF PresentFails, flagVars, windowVars
<1> QED
  BY <1>1, <1>2, <1>3, <1>4, <1>5, <1>6, <1>7, <1>8, <1>9, <1>10, <1>11,
     <1>12, <1>13, <1>14, <1>15, <1>16 DEF Program

\* A run that is over leaves no window and no flag, wherever it was stopped or
\* broke off (the finally clauses of run, _run_interactive and _run_headless).
THEOREM ReleaseCorrect == LoopSpec => []ReleasedAtEnd
<1>1. LoopInit => ReleaseInv
  BY DEF LoopInit, ReleaseInv, NothingOpenYet, ReleasedAtEnd
<1>2. ReleaseInv /\ [LoopNext]_loopVars => ReleaseInv'
  <2> SUFFICES ASSUME ReleaseInv, [LoopNext]_loopVars PROVE ReleaseInv'
    OBVIOUS
  <2>1. CASE UserCode
    BY <2>1, ReleaseUserCode
  <2>2. CASE Program
    BY <2>2, ReleaseProgram
  <2>3. CASE Clock
    BY <2>3 DEF Clock, ReleaseInv, NothingOpenYet, ReleasedAtEnd, flagVars, windowVars
  <2>4. CASE UNCHANGED loopVars
    BY <2>4 DEF ReleaseInv, NothingOpenYet, ReleasedAtEnd, loopVars, flagVars, windowVars
  <2> QED
    BY <2>1, <2>2, <2>3, <2>4 DEF LoopNext
<1>3. ReleaseInv => ReleasedAtEnd
  BY DEF ReleaseInv
<1> QED
  BY <1>1, <1>2, <1>3, PTL DEF LoopSpec

-----------------------------------------------------------------------------
(* SketchLoop: reasons to end.                                             *)

\* How many frames and iterations there have been at each place of a run that has
\* a bound: the headless loop counts before its frame, the bounded one after, unless
\* the frame could not be presented.
FramesCounted ==
  /\ {budget, count, frames} \subseteq Nat /\ budget <= MaxFrames /\ mode \in Modes
  /\ pc \in {"preload", "setup"} => frames = 0 /\ count = 0
  /\ mode = "headless" =>
       /\ frames <= count /\ count <= budget
       /\ pc \in {"tick", "draw"} => frames < count
       /\ pc \notin {"poll", "dispatch", "event"}
  /\ mode = "bounded" =>
       /\ frames <= Budget /\ count <= Budget
       /\ pc \notin {"unwind", "done"} => frames = count
       /\ pc \in InLoop \ {"unwind"} => count < Budget

HasClose(b) == \E i \in 1 .. Len(b) : b[i] = "close"

\* A run that was not asked to end: its flags are up, and its window is closed
\* only while the close event still waits in the batch.
Undisturbed ==
  cause = "none" =>
    /\ pc # "done" => sketchRunning
    /\ pc \in InLoop => backendRunning
    /\ closed /\ pc # "done" => pc \in {"dispatch", "event"} /\ HasClose(batch)

\* Nothing can ask for a frame between two frames of a headless loop: once one is
\* not drawn, none is pending any more.
FramesDrawn ==
  cause = "none" =>
    /\ mode = "headless" =>
         /\ pc = "draw" => frames + 1 = count
         /\ pc = "tick" => frames + 1 = count \/ ~Pending
         /\ pc = "loop" => frames = count \/ ~Pending
    /\ pc \in {"unwind", "done"} =>
         mode # "interactive" /\ (frames = Budget \/ ~Pending)

ReasonInv == batch \in Seq({"move", "close"}) /\ FramesCounted /\ Undisturbed /\ FramesDrawn

\* What is left of a batch after an event other than the close button still has
\* the close button.
LEMMA CloseStays ==
  ASSUME NEW b \in Seq({"move", "close"}), b # <<>>, Head(b) = "move", HasClose(b)
  PROVE  HasClose(Tail(b))
<1>1. PICK i \in 1 .. Len(b) : b[i] = "close"
  BY DEF HasClose
<1>2. i # 1
  BY <1>1
<1>3. i - 1 \in 1 .. Len(Tail(b)) /\ Tail(b)[i - 1] = b[i]
  BY <1>1, <1>2
<1> QED
  BY <1>1, <1>3 DEF HasClose

\* A batch that is done has no close button left.
LEMMA NoneInEmpty == ~HasClose(<<>>)
  BY DEF HasClose

\* A polled batch is a sequence of events.
LEMMA BatchIsSequence == \A b \in Batches : b \in Seq({"move", "close"})
  BY DEF Batches, SeqOf

\* User code asks for frames only where nothing is claimed of pending ones.
LEMMA ReasonUserCode == ReasonInv /\ UserCode => ReasonInv'
<1> SUFFICES ASSUME ReasonInv, UserCode PROVE ReasonInv'
  OBVIOUS
<1> USE LoopAssumption DEF ReasonInv, FramesCounted, Budget, BoundedDone, Pending, Runs,
      Tries, ShouldDraw, Modes, Callbacks, InLoop, runVars, flagVars, drawVars,
      windowVars, motionVars
<1>1. CASE NoLoop
  <2>1. batch' \in Seq({"move", "close"})
    BY <1>1 DEF NoLoop
  <2>2. FramesCounted'
    BY <1>1 DEF NoLoop
  <2>3. Undisturbed'
    BY <1>1 DEF NoLoop, Undisturbed
  <2>4. FramesDrawn'
    BY <1>1 DEF NoLoop, Undisturbed, FramesDrawn
  <2> QED
    BY <2>1, <2>2, <2>3, <2>4
<1>2. CASE Loop
  <2>1. batch' \in Seq({"move", "close"})
    BY <1>2 DEF Loop
  <2>2. FramesCounted'
    BY <1>2 DEF Loop
  <2>3. Undisturbed'
    BY <1>2 DEF Loop, Undisturbed
  <2>4. FramesDrawn'
    BY <1>2 DEF Loop, Undisturbed, FramesDrawn
  <2> QED
    BY <2>1, <2>2, <2>3, <2>4
<1>3. CASE Redraw
  <2>1. batch' \in Seq({"move", "close"})
    BY <1>3 DEF Redraw
  <2>2. FramesCounted'
    BY <1>3 DEF Redraw
  <2>3. Undisturbed'
    BY <1>3 DEF Redraw, Undisturbed
  <2>4. FramesDrawn'
    BY <1>3 DEF Redraw, Undisturbed, FramesDrawn
  <2> QED
    BY <2>1, <2>2, <2>3, <2>4
<1>4. CASE StopSketch
  <2>1. batch' \in Seq({"move", "close"})
    BY <1>4 DEF StopSketch
  <2>2. FramesCounted'
    BY <1>4 DEF StopSketch
  <2>3. Undisturbed'
    BY <1>4 DEF StopSketch, Undisturbed
  <2>4. FramesDrawn'
    BY <1>4 DEF StopSketch, Undisturbed, FramesDrawn
  <2> QED
    BY <2>1, <2>2, <2>3, <2>4
<1>5. CASE Raise
  <2>1. batch' \in Seq({"move", "close"})
    BY <1>5 DEF Raise
  <2>2. FramesCounted'
    BY <1>5 DEF Raise
  <2>3. Undisturbed'
    BY <1>5 DEF Raise, Undisturbed
  <2>4. FramesDrawn'
    BY <1>5 DEF Raise, Undisturbed, FramesDrawn
  <2> QED
    BY <2>1, <2>2, <2>3, <2>4
<1> QED
  BY <1>1, <1>2, <1>3, <1>4, <1>5 DEF UserCode

\* The program counts an iteration and a frame where the loops do, leaves a loop
\* only at its bound, on a flag or with nothing pending, and asks nobody to end.
LEMMA ReasonProgram == ReasonInv /\ Program => ReasonInv'
<1> SUFFICES ASSUME ReasonInv, Program PROVE ReasonInv'
  OBVIOUS
<1> USE LoopAssumption DEF ReasonInv, FramesCounted, Budget, BoundedDone, Pending, Runs,
      Tries, ShouldDraw, Modes, Callbacks, InLoop, runVars, flagVars, drawVars,
      windowVars, motionVars
<1>1. CASE PreloadReturns
  <2>1. batch' \in Seq({"move", "close"})
    BY <1>1 DEF PreloadReturns
  <2>2. FramesCounted'
    BY <1>1 DEF PreloadReturns
  <2>3. Undisturbed'
    BY <1>1 DEF PreloadReturns, Undisturbed
  <2>4. FramesDrawn'
    BY <1>1 DEF PreloadReturns, Undisturbed, FramesDrawn
  <2> QED
    BY <2>1, <2>2, <2>3, <2>4
<1>2. CASE StartHeadless
  <2>1. batch' \in Seq({"move", "close"})
    BY <1>2 DEF StartHeadless
  <2>2. FramesCounted'
    BY <1>2 DEF StartHeadless
  <2>3. Undisturbed'
    BY <1>2 DEF StartHeadless, Undisturbed
  <2>4. FramesDrawn'
    BY <1>2 DEF StartHeadless, Undisturbed, FramesDrawn
  <2> QED
    BY <2>1, <2>2, <2>3, <2>4
<1>3. CASE StartInteractive
  <2>1. batch' \in Seq({"move", "close"})
    BY <1>3 DEF StartInteractive
  <2>2. FramesCounted'
    BY <1>3 DEF StartInteractive
  <2>3. Undisturbed'
    BY <1>3 DEF StartInteractive, Undisturbed
  <2>4. FramesDrawn'
    BY <1>3 DEF StartInteractive, Undisturbed, FramesDrawn
  <2> QED
    BY <2>1, <2>2, <2>3, <2>4
<1>4. CASE OpenFails
  <2>1. batch' \in Seq({"move", "close"})
    BY <1>4 DEF OpenFails
  <2>2. FramesCounted'
    BY <1>4 DEF OpenFails
  <2>3. Undisturbed'
    BY <1>4 DEF OpenFails, Undisturbed
  <2>4. FramesDrawn'
    BY <1>4 DEF OpenFails, Undisturbed, FramesDrawn
  <2> QED
    BY <2>1, <2>2, <2>3, <2>4
<1>5. CASE Iterate
  <2>1. batch' \in Seq({"move", "close"})
    BY <1>5 DEF Iterate
  <2>2. FramesCounted'
    BY <1>5 DEF Iterate
  <2>3. Undisturbed'
    BY <1>5 DEF Iterate, Undisturbed
  <2>4. FramesDrawn'
    BY <1>5 DEF Iterate, Undisturbed, FramesDrawn
  <2> QED
    BY <2>1, <2>2, <2>3, <2>4
<1>6. CASE Poll
  <2>1. batch' \in Seq({"move", "close"})
    BY <1>6, BatchIsSequence DEF Poll
  <2>2. FramesCounted'
    BY <1>6 DEF Poll
  <2>3. Undisturbed'
    <3>1. PICK b \in Batches :
                batch' = b /\ closed' = (closed \/ "close" \in {b[i] : i \in DOMAIN b})
      BY <1>6 DEF Poll
    <3>2. b \in Seq({"move", "close"})
      BY BatchIsSequence
    <3>3. "close" \in {b[i] : i \in DOMAIN b} => HasClose(batch')
      BY <3>1, <3>2 DEF HasClose
    <3> QED
      BY <1>6, <3>1, <3>3 DEF Poll, Undisturbed
  <2>4. FramesDrawn'
    BY <1>6 DEF Poll, Undisturbed, FramesDrawn
  <2> QED
    BY <2>1, <2>2, <2>3, <2>4
<1>7. CASE DispatchMove
  <2>1. batch' \in Seq({"move", "close"})
    BY <1>7 DEF DispatchMove
  <2>2. FramesCounted'
    BY <1>7 DEF DispatchMove
  <2>3. Undisturbed'
    BY <1>7, CloseStays DEF DispatchMove, Undisturbed
  <2>4. FramesDrawn'
    BY <1>7 DEF DispatchMove, Undisturbed, FramesDrawn
  <2> QED
    BY <2>1, <2>2, <2>3, <2>4
<1>8. CASE EventReturns
  <2>1. batch' \in Seq({"move", "close"})
    BY <1>8 DEF EventReturns
  <2>2. FramesCounted'
    BY <1>8 DEF EventReturns
  <2>3. Undisturbed'
    BY <1>8 DEF EventReturns, Undisturbed
  <2>4. FramesDrawn'
    BY <1>8 DEF EventReturns, Undisturbed, FramesDrawn
  <2> QED
    BY <2>1, <2>2, <2>3, <2>4
<1>9. CASE DispatchClose
  <2>1. batch' \in Seq({"move", "close"})
    BY <1>9 DEF DispatchClose
  <2>2. FramesCounted'
    BY <1>9 DEF DispatchClose
  <2>3. Undisturbed'
    BY <1>9 DEF DispatchClose, Undisturbed
  <2>4. FramesDrawn'
    BY <1>9 DEF DispatchClose, Undisturbed, FramesDrawn
  <2> QED
    BY <2>1, <2>2, <2>3, <2>4
<1>10. CASE Dispatched
  <2>1. batch' \in Seq({"move", "close"})
    BY <1>10 DEF Dispatched
  <2>2. FramesCounted'
    BY <1>10 DEF Dispatched
  <2>3. Undisturbed'
    BY <1>10, NoneInEmpty DEF Dispatched, Undisturbed
  <2>4. FramesDrawn'
    BY <1>10, NoneInEmpty DEF Dispatched, Undisturbed, FramesDrawn
  <2> QED
    BY <2>1, <2>2, <2>3, <2>4
<1>11. CASE BeginFrame
  <2>1. batch' \in Seq({"move", "close"})
    BY <1>11 DEF BeginFrame
  <2>2. FramesCounted'
    BY <1>11 DEF BeginFrame
  <2>3. Undisturbed'
    BY <1>11 DEF BeginFrame, Undisturbed
  <2>4. FramesDrawn'
    BY <1>11 DEF BeginFrame, Undisturbed, FramesDrawn
  <2> QED
    BY <2>1, <2>2, <2>3, <2>4
<1>12. CASE SkipFrame
  <2>1. batch' \in Seq({"move", "close"})
    BY <1>12 DEF SkipFrame
  <2>2. FramesCounted'
    BY <1>12 DEF SkipFrame
  <2>3. Undisturbed'
    BY <1>12 DEF SkipFrame, Undisturbed
  <2>4. FramesDrawn'
    BY <1>12 DEF SkipFrame, Undisturbed, FramesDrawn
  <2> QED
    BY <2>1, <2>2, <2>3, <2>4
<1>13. CASE DrawReturns
  <2>1. batch' \in Seq({"move", "close"})
    BY <1>13 DEF DrawReturns
  <2>2. FramesCounted'
    BY <1>13 DEF DrawReturns
  <2>3. Undisturbed'
    BY <1>13 DEF DrawReturns, Undisturbed
  <2>4. FramesDrawn'
    BY <1>13 DEF DrawReturns, Undisturbed, FramesDrawn
  <2> QED
    BY <2>1, <2>2, <2>3, <2>4
<1>14. CASE Unwind
  <2>1. batch' \in Seq({"move", "close"})
    BY <1>14 DEF Unwind
  <2>2. FramesCounted'
    BY <1>14 DEF Unwind
  <2>3. Undisturbed'
    BY <1>14 DEF Unwind, Undisturbed
  <2>4. FramesDrawn'
    BY <1>14 DEF Unwind, Undisturbed, FramesDrawn
  <2> QED
    BY <2>1, <2>2, <2>3, <2>4
<1>15. CASE EventsFail
  <2>1. batch' \in Seq({"move", "close"})
    BY <1>15 DEF EventsFail
  <2>2. FramesCounted'
    BY <1>15 DEF EventsFail
  <2>3. Undisturbed'
    BY <1>15 DEF EventsFail, Undisturbed
  <2>4. FramesDrawn'
    BY <1>15 DEF EventsFail, Undisturbed, FramesDrawn
  <2> QED
    BY <2>1, <2>2, <2>3, <2>4
<1>16. CASE PresentFails
  <2>1. batch' \in Seq({"move", "close"})
    BY <1>16 DEF PresentFails
  <2>2. FramesCounted'
    BY <1>16 DEF PresentFails
  <2>3. Undisturbed'
    BY <1>16 DEF PresentFails, Undisturbed
  <2>4. FramesDrawn'
    BY <1>16 DEF PresentFails, Undisturbed, FramesDrawn
  <2> QED
    BY <2>1, <2>2, <2>3, <2>4
<1> QED
  BY <1>1, <1>2, <1>3, <1>4, <1>5, <1>6, <1>7, <1>8, <1>9, <1>10, <1>11,
     <1>12, <1>13, <1>14, <1>15, <1>16 DEF Program

\* The counts, the flags and the frames of a run stay in step.
LEMMA ReasonInvariant == LoopSpec => []ReasonInv
<1>1. LoopInit => ReasonInv
  BY LoopAssumption DEF LoopInit, ReasonInv, FramesCounted, Undisturbed, FramesDrawn,
     Budget, Modes, InLoop
<1>2. ReasonInv /\ [LoopNext]_loopVars => ReasonInv'
  <2> SUFFICES ASSUME ReasonInv, [LoopNext]_loopVars PROVE ReasonInv'
    OBVIOUS
  <2>1. CASE UserCode
    BY <2>1, ReasonUserCode
  <2>2. CASE Program
    BY <2>2, ReasonProgram
  <2>3. CASE Clock
    BY <2>3 DEF Clock, ReasonInv, FramesCounted, Undisturbed, FramesDrawn, Budget,
       Pending, runVars, flagVars, drawVars, windowVars
  <2>4. CASE UNCHANGED loopVars
    BY <2>4 DEF ReasonInv, FramesCounted, Undisturbed, FramesDrawn, Budget, Pending,
       loopVars, runVars, flagVars, drawVars, windowVars
  <2> QED
    BY <2>1, <2>2, <2>3, <2>4 DEF LoopNext
<1> QED
  BY <1>1, <1>2, PTL DEF LoopSpec

\* max_frames bounds the frames, and a run that nobody asked to end does so only
\* with all its frames drawn or with none pending, for every bound.
THEOREM ReasonCorrect == LoopSpec => []EndsForAReason
<1>1. ReasonInv => EndsForAReason
  BY LoopAssumption DEF ReasonInv, FramesCounted, FramesDrawn, EndsForAReason, Modes, Budget
<1> QED
  BY <1>1, ReasonInvariant, PTL

-----------------------------------------------------------------------------
(* SketchLoop: types.                                                      *)

\* The pointer motions of a batch.
MovesOf(b) == {i \in DOMAIN b : b[i] = "move"}

\* The control state and the flags.
FlagsOK ==
  /\ pc \in Callbacks \union InLoop \union {"done"}
  /\ {sketchRunning, backendRunning, looping, redraw, wasLooping, window, closed,
      due} \subseteq BOOLEAN
  /\ frames \in 0 .. MaxFrames + 1
  /\ cause \in {"none", "stop", "raise"}
  /\ mode = "interactive" => count = 0

\* The motions dispatched and those still in the batch keep to the bound; the
\* motion of the frame being drawn has been counted as shown.
BatchOK ==
  /\ batch \in Batches
  /\ moves + Cardinality(MovesOf(batch)) <= MaxMoves
  /\ pc = "draw" => frameMotion <= shown

\* A batch is a function from a prefix of the positive integers.
LEMMA BatchIs ==
  ASSUME NEW b \in Batches
  PROVE  /\ b \in Seq({"move", "close"}) /\ Len(b) \in 0 .. MaxBatch
         /\ DOMAIN b = 1 .. Len(b)
         /\ \A i, j \in DOMAIN b : b[i] = "close" /\ b[j] = "close" => i = j
         /\ IsFiniteSet(MovesOf(b)) /\ Cardinality(MovesOf(b)) \in Nat
<1>1. PICK m \in 0 .. MaxBatch : b \in [1 .. m -> {"move", "close"}]
  BY DEF Batches, SeqOf
<1>2. b \in Seq({"move", "close"}) /\ Len(b) = m /\ DOMAIN b = 1 .. m
  BY <1>1
<1>3. \A i, j \in DOMAIN b : b[i] = "close" /\ b[j] = "close" => i = j
  BY DEF Batches
<1>4. IsFiniteSet(MovesOf(b))
  <2>1. MovesOf(b) \subseteq 1 .. m
    BY <1>2 DEF MovesOf
  <2>2. m \in Int
    BY LoopAssumption
  <2> QED
    BY <2>1, <2>2, FS_Interval, FS_Subset
<1> QED
  BY <1>2, <1>3, <1>4, FS_CardinalityType

\* What is left of a batch is a batch, with one motion less if it began with one.
LEMMA TailIs ==
  ASSUME NEW b \in Batches, b # <<>>
  PROVE  /\ Tail(b) \in Batches
         /\ Cardinality(MovesOf(Tail(b))) =
              IF Head(b) = "move" THEN Cardinality(MovesOf(b)) - 1
                                  ELSE Cardinality(MovesOf(b))
<1> DEFINE t == Tail(b)
<1>1. /\ b \in Seq({"move", "close"}) /\ Len(b) \in 1 .. MaxBatch
      /\ DOMAIN b = 1 .. Len(b) /\ MaxBatch \in Nat
  BY BatchIs, LoopAssumption
<1>2. PICK n \in Nat : Len(b) = n + 1
  <2>1. Len(b) - 1 \in Nat /\ Len(b) = (Len(b) - 1) + 1
    BY <1>1
  <2> QED
    BY <2>1
<1>3. /\ t \in Seq({"move", "close"}) /\ Len(t) = n /\ DOMAIN t = 1 .. n
      /\ \A i \in 1 .. n : t[i] = b[i + 1]
  BY <1>1, <1>2
<1>4. Head(b) = b[1]
  BY <1>1
<1> HIDE DEF t
<1>5. t \in Batches
  <2>1. t \in [1 .. n -> {"move", "close"}]
    BY <1>3
  <2>2. n \in 0 .. MaxBatch
    BY <1>1, <1>2
  <2>3. t \in SeqOf({"move", "close"}, MaxBatch)
    BY <2>1, <2>2 DEF SeqOf
  <2>4. ASSUME NEW i \in DOMAIN t, NEW j \in DOMAIN t, t[i] = "close", t[j] = "close"
        PROVE  i = j
    <3>1. /\ i + 1 \in DOMAIN b /\ j + 1 \in DOMAIN b /\ i \in Nat /\ j \in Nat
          /\ b[i + 1] = "close" /\ b[j + 1] = "close"
      BY <1>1, <1>2, <1>3, <2>4
    <3>2. i + 1 = j + 1
      BY <3>1, BatchIs
    <3> QED
      BY <3>1, <3>2
  <2> QED
    BY <2>3, <2>4 DEF Batches
<1>6. ExistsBijection(MovesOf(t), MovesOf(b) \ {1})
  <2> DEFINE f == [i \in MovesOf(t) |-> i + 1]
  <2>1. \A i \in MovesOf(t) : i \in 1 .. n /\ b[i + 1] = "move"
    BY <1>3 DEF MovesOf
  <2>2. f \in [MovesOf(t) -> MovesOf(b) \ {1}]
    BY <1>1, <1>2, <2>1 DEF MovesOf
  <2>3. \A i, j \in MovesOf(t) : f[i] = f[j] => i = j
    BY <2>1
  <2>4. ASSUME NEW k \in MovesOf(b) \ {1}
        PROVE  \E i \in MovesOf(t) : f[i] = k
    <3>1. k \in 2 .. (n + 1) /\ b[k] = "move"
      BY <1>1, <1>2 DEF MovesOf
    <3>2. k - 1 \in 1 .. n /\ (k - 1) + 1 = k
      BY <1>2, <3>1
    <3>3. k - 1 \in MovesOf(t)
      BY <1>3, <3>1, <3>2 DEF MovesOf
    <3> QED
      BY <3>2, <3>3
  <2>5. f \in Bijection(MovesOf(t), MovesOf(b) \ {1})
    BY <2>2, <2>3, <2>4 DEF Bijection, Injection, Surjection, IsInjective
  <2> QED
    BY <2>5 DEF ExistsBijection
<1>7. Cardinality(MovesOf(t)) = Cardinality(MovesOf(b) \ {1})
  BY <1>5, <1>6, BatchIs, FS_Bijection
<1>8. CASE Head(b) = "move"
  <2>1. 1 \in MovesOf(b)
    BY <1>1, <1>4, <1>8 DEF MovesOf
  <2> QED
    BY <1>5, <1>7, <1>8, <2>1, BatchIs, FS_RemoveElement DEF t
<1>9. CASE Head(b) # "move"
  <2>1. MovesOf(b) \ {1} = MovesOf(b)
    BY <1>4, <1>9 DEF MovesOf
  <2> QED
    BY <1>5, <1>7, <1>9, <2>1 DEF t
<1> QED
  BY <1>8, <1>9

\* The empty batch is one, without motions.
LEMMA EmptyBatch == <<>> \in Batches /\ Cardinality(MovesOf(<<>>)) = 0
<1>1. <<>> \in [1 .. 0 -> {"move", "close"}]
  OBVIOUS
<1>2. <<>> \in SeqOf({"move", "close"}, MaxBatch)
  BY <1>1, LoopAssumption DEF SeqOf
<1>3. MovesOf(<<>>) = {}
  BY DEF MovesOf
<1> QED
  BY <1>2, <1>3, FS_EmptySet DEF Batches

\* Every step sets flags to Booleans and control states to control states.
LEMMA FlagsKept == FlagsOK /\ [LoopNext]_loopVars => FlagsOK'
<1> SUFFICES ASSUME FlagsOK, [LoopNext]_loopVars PROVE FlagsOK'
  OBVIOUS
<1> USE LoopAssumption DEF FlagsOK, Callbacks, InLoop, runVars, flagVars, drawVars,
        windowVars, motionVars
<1>1. CASE UserCode
  BY <1>1 DEF UserCode, NoLoop, Loop, Redraw, StopSketch, Raise
<1>2. CASE PreloadReturns \/ StartHeadless \/ StartInteractive \/ OpenFails
  BY <1>2 DEF PreloadReturns, StartHeadless, StartInteractive, OpenFails
<1>3. CASE Iterate \/ Poll \/ DispatchMove \/ EventReturns \/ DispatchClose
  BY <1>3 DEF Iterate, Poll, DispatchMove, EventReturns, DispatchClose
<1>4. CASE BeginFrame \/ Unwind
  BY <1>4 DEF BeginFrame, Unwind
<1>7. CASE Dispatched
  <2>1. due' \in BOOLEAN
    BY <1>7 DEF Dispatched
  <2> QED
    BY <1>7, <2>1 DEF Dispatched
<1>8. CASE SkipFrame
  <2>1. due' \in BOOLEAN
    BY <1>8 DEF SkipFrame
  <2> QED
    BY <1>8, <2>1 DEF SkipFrame
<1>10. CASE EventsFail
  BY <1>10 DEF EventsFail
<1>11. CASE PresentFails
  <2>1. frames' \in 0 .. MaxFrames + 1
    BY <1>11 DEF PresentFails
  <2> QED
    BY <1>11, <2>1 DEF PresentFails
<1>9. CASE DrawReturns
  <2>1. due' \in BOOLEAN
    BY <1>9 DEF DrawReturns
  <2>2. frames' \in 0 .. MaxFrames + 1
    BY <1>9 DEF DrawReturns
  <2>3. pc' \in Callbacks \union InLoop \union {"done"}
        /\ (mode' = "interactive" => count' = 0)
    BY <1>9 DEF DrawReturns
  <2>4. /\ sketchRunning' = sketchRunning /\ backendRunning' = backendRunning
        /\ looping' = looping /\ redraw' = FALSE /\ wasLooping' = wasLooping
        /\ window' = window /\ closed' = closed /\ cause' = cause
    BY <1>9 DEF DrawReturns
  <2> QED
    BY <2>1, <2>2, <2>3, <2>4
<1>5. CASE Clock
  BY <1>5 DEF Clock
<1>6. CASE UNCHANGED loopVars
  BY <1>6 DEF loopVars
<1> QED
  BY <1>1, <1>2, <1>3, <1>4, <1>5, <1>6, <1>7, <1>8, <1>9, <1>10, <1>11
     DEF LoopNext, Program

\* Motions leave the batch one by one, each for one that is dispatched.
LEMMA BatchKept ==
  ASSUME MotionInv, BatchOK, [LoopNext]_loopVars
  PROVE  BatchOK'
<1> USE LoopAssumption DEF MotionInv, MotionNats, MotionShownOnce
<1>1. /\ batch \in Batches /\ moves + Cardinality(MovesOf(batch)) <= MaxMoves
      /\ pc = "draw" => frameMotion <= shown
      /\ Cardinality(MovesOf(batch)) \in Nat
  BY BatchIs DEF BatchOK
<1>2. CASE batch' = batch /\ moves' = moves /\ pc' # "draw"
  BY <1>1, <1>2 DEF BatchOK
<1>3. CASE UNCHANGED <<batch, moves, pc, frameMotion, shown>>
  BY <1>1, <1>3 DEF BatchOK
<1>4. CASE Raise \/ EventsFail
  <2>1. batch' = <<>> /\ moves' = moves /\ pc' = "unwind"
    BY <1>4 DEF Raise, EventsFail, motionVars
  <2> QED
    BY <1>1, <2>1, EmptyBatch DEF BatchOK
<1>5. CASE Poll
  <2>1. /\ batch' \in Batches
        /\ moves + Cardinality(MovesOf(batch')) <= MaxMoves
        /\ pc' = "dispatch" /\ moves' = moves
    BY <1>5 DEF Poll, MovesOf, motionVars
  <2> QED
    BY <2>1 DEF BatchOK
<1>6. CASE DispatchMove
  <2>1. /\ batch' = Tail(batch) /\ moves' = moves + 1 /\ pc' = "event"
        /\ batch # <<>> /\ Head(batch) = "move"
    BY <1>6 DEF DispatchMove
  <2>2. /\ batch' \in Batches
        /\ Cardinality(MovesOf(batch')) = Cardinality(MovesOf(batch)) - 1
    BY <1>1, <2>1, TailIs
  <2>3. moves' + Cardinality(MovesOf(batch')) <= MaxMoves
    BY <1>1, <2>1, <2>2
  <2> QED
    BY <2>1, <2>2, <2>3 DEF BatchOK
<1>7. CASE DispatchClose
  <2>1. /\ batch' = Tail(batch) /\ moves' = moves /\ pc' = pc /\ pc = "dispatch"
        /\ batch # <<>> /\ Head(batch) # "move"
    BY <1>7 DEF DispatchClose, motionVars
  <2> QED
    BY <1>1, <2>1, TailIs DEF BatchOK
<1>8. CASE BeginFrame
  <2>1. /\ pc' = "draw" /\ shown' = shown + frameMotion /\ frameMotion' = frameMotion
        /\ batch' = batch /\ moves' = moves
    BY <1>8 DEF BeginFrame
  <2>2. frameMotion' <= shown'
    BY <2>1
  <2> QED
    BY <1>1, <2>1, <2>2 DEF BatchOK
<1>9. CASE UserCode
  <2>1. CASE NoLoop \/ Loop \/ Redraw \/ StopSketch
    BY <1>3, <2>1 DEF NoLoop, Loop, Redraw, StopSketch, motionVars
  <2> QED
    BY <1>4, <1>9, <2>1 DEF UserCode
<1>10. CASE PreloadReturns \/ StartHeadless \/ StartInteractive \/ OpenFails \/ Iterate
  BY <1>2, <1>10
     DEF PreloadReturns, StartHeadless, StartInteractive, OpenFails, Iterate, motionVars
<1>11. CASE EventReturns \/ Dispatched \/ SkipFrame \/ DrawReturns \/ Unwind
             \/ PresentFails
  BY <1>2, <1>11
     DEF EventReturns, Dispatched, SkipFrame, DrawReturns, Unwind, PresentFails, motionVars
<1>12. CASE Clock \/ UNCHANGED loopVars
  BY <1>3, <1>12 DEF Clock, loopVars, motionVars
<1> QED
  BY <1>4, <1>5, <1>6, <1>7, <1>8, <1>9, <1>10, <1>11, <1>12 DEF LoopNext, Program

\* The state of a run keeps its types and its bounds for every bound: the motion
\* dispatched never exceeds what was polled, a loop never counts more frames than
\* it was asked for, and a batch never holds two presses of the close button.
THEOREM LoopTypesCorrect == LoopSpec => []LoopTypeOK
<1>1. LoopInit => FlagsOK /\ BatchOK
  <2> SUFFICES ASSUME LoopInit PROVE FlagsOK /\ BatchOK
    OBVIOUS
  <2>1. FlagsOK
    <3>1. {sketchRunning, backendRunning, looping, redraw, wasLooping, window, closed,
           due} \subseteq BOOLEAN
      BY DEF LoopInit
    <3>2. frames \in 0 .. MaxFrames + 1
      BY LoopAssumption DEF LoopInit
    <3> QED
      BY <3>1, <3>2 DEF LoopInit, FlagsOK, Callbacks
  <2>2. BatchOK
    BY EmptyBatch, LoopAssumption DEF LoopInit, BatchOK
  <2> QED
    BY <2>1, <2>2
<1>2. FlagsOK /\ [LoopNext]_loopVars => FlagsOK'
  BY FlagsKept
<1>3. MotionInv /\ BatchOK /\ [LoopNext]_loopVars => BatchOK'
  BY BatchKept
<1>4. MotionInv /\ ReasonInv /\ FlagsOK /\ BatchOK => LoopTypeOK
  <2> SUFFICES ASSUME MotionInv, ReasonInv, FlagsOK, BatchOK PROVE LoopTypeOK
    OBVIOUS
  <2>1. mode \in Modes /\ budget \in 0 .. MaxFrames /\ count \in 0 .. MaxFrames + 1
    BY LoopAssumption DEF ReasonInv, FramesCounted, Budget, FlagsOK, Modes
  <2>2. {frameMotion, moves, shown} \subseteq 0 .. MaxMoves
    <3>1. Cardinality(MovesOf(batch)) \in Nat
      BY BatchIs DEF BatchOK
    <3> QED
      BY <3>1, LoopAssumption DEF MotionInv, MotionNats, MotionShownOnce, BatchOK
  <2> QED
    BY <2>1, <2>2 DEF LoopTypeOK, FlagsOK, BatchOK
<1> QED
  BY <1>1, <1>2, <1>3, <1>4, MotionInvariant, ReasonInvariant, PTL DEF LoopSpec

-----------------------------------------------------------------------------
(* AudioMixer: the invariants.                                             *)

Ops == {"add", "stop", "close", "pause", "resume", "control", "wait"}

Calls == [op : Ops, id : Nat]

Commands == [op : Ops, id : Nat, awaited : BOOLEAN]

Snapshots == [playing : BOOLEAN, paused : BOOLEAN, ends : Nat, error : BOOLEAN]

OwnerTyped ==
  /\ owner \in Objects \union {NoObject}
  /\ playback \in [Objects -> Nat] /\ taken \in [Objects -> Nat]
  /\ delivered \in [1 .. MaxIds -> Nat]
  /\ calls \in Seq(Calls)
  /\ reply \in {"unsent", "awaited", "ok", "error"}

MixerTyped ==
  /\ limit \in Nat /\ worker \in Workers
  /\ channel \in Seq(Commands)
  /\ nextId \in Nat \ {0}
  /\ snapshot \in [DOMAIN snapshot -> Snapshots]
  /\ voices \in [DOMAIN voices -> [paused : BOOLEAN, synth : BOOLEAN]]
  /\ DOMAIN voices \subseteq DOMAIN snapshot
  /\ DOMAIN snapshot \subseteq 1 .. nextId - 1

\* One call is outstanding at most; its command is the last of the channel, and
\* the others are the closes that nobody waits for.  A join is a call of its own.
OneCaller ==
  /\ owner = NoObject <=> calls = <<>>
  /\ calls = <<>> => reply = "unsent"
  /\ \A k \in 1 .. Len(calls) :
       calls[k].op = "wait" => k = 1 /\ reply = "unsent" /\ playback[owner] # 0
  /\ \A k \in 1 .. Len(channel) :
       IF channel[k].awaited
       THEN /\ k = Len(channel) /\ reply = "awaited"
            /\ calls # <<>> /\ channel[k].op = Head(calls).op
       ELSE channel[k].op = "close"

\* The add is the last of a method's calls, and until it is answered there is an
\* id for it.
IdLeft ==
  /\ nextId <= MaxIds + 1
  /\ \A k \in 1 .. Len(calls) :
       calls[k].op = "add" => /\ k = Len(calls)
                              /\ (k = 1 /\ reply \in {"ok", "error"}) \/ nextId <= MaxIds

\* The add has succeeded, and its object does not know yet.
Added == calls # <<>> /\ Head(calls).op = "add" /\ reply = "ok"

PlaysOne ==
  /\ \A o \in Objects : playback[o] # 0 => playback[o] \in DOMAIN snapshot
  /\ \A o, p \in Objects : playback[o] # 0 /\ playback[o] = playback[p] => o = p
  /\ Added => /\ nextId - 1 \in DOMAIN snapshot
              /\ \A o \in Objects : playback[o] # nextId - 1

ProtocolInv == OwnerTyped /\ MixerTyped /\ OneCaller /\ IdLeft /\ PlaysOne

\* The block: voices not yet mixed, and those found ended, while it is mixed only.
BlockInv ==
  /\ ended \subseteq DOMAIN voices /\ unmixed \subseteq DOMAIN voices \ ended
  /\ worker # "mixing" => unmixed = {} /\ ended = {}

\* A voice that goes on, one that ended or failed in this block, one that is gone.
GoesOn(id) ==
  /\ snapshot[id].ends = 0 /\ ~snapshot[id].error
  /\ snapshot[id].paused = voices[id].paused /\ snapshot[id].playing = ~voices[id].paused

Ends(id) ==
  /\ ~voices[id].paused /\ ~snapshot[id].error /\ ~snapshot[id].paused
  /\ \/ snapshot[id].ends = 0 /\ id \in failed
     \/ snapshot[id].ends = 1 /\ ~snapshot[id].playing

Gone(id) ==
  /\ ~snapshot[id].paused /\ (snapshot[id].playing => id \in failed)
  /\ id \in stopped \union failed \/ snapshot[id].ends = 1 \/ snapshot[id].error
  /\ snapshot[id].ends <= 1 /\ (snapshot[id].ends = 1 => ~snapshot[id].error)

SnapshotInv ==
  \A id \in DOMAIN snapshot :
    /\ id \in DOMAIN voices \ ended => GoesOn(id)
    /\ id \in ended => Ends(id)
    /\ id \notin DOMAIN voices => Gone(id)

TruthInv == BlockInv /\ SnapshotInv

DeliveryInv ==
  /\ EndDeliveredOnce
  /\ Added => delivered[nextId - 1] = 0

\* A stop is followed by its close; a call that leaves the playback with its object
\* is about that playback, and alone; an object that adds has none; and only a close
\* or an add comes after another call.  No thread has voices that does not hear
\* their commands.
CallsMatch ==
  \A k \in 1 .. Len(calls) :
    /\ calls[k].op = "stop" =>
         k + 1 \in 1 .. Len(calls) /\ calls[k + 1] = CallOf("close", calls[k].id)
    /\ calls[k].op \in {"pause", "resume", "control", "wait"} =>
         Len(calls) = 1 /\ calls[k].id = playback[owner]
    /\ calls[k].op = "add" => calls[k].id = 0 /\ playback[owner] = 0
    /\ k > 1 => calls[k].op = "add" \/ (k = 2 /\ calls[k].op = "close")

Unheard == worker \notin {"commands", "mixing", "mixed"} => DOMAIN voices = {}

CallsInv == CallsMatch /\ Unheard

\* The two parts of VoicesAccounted.
CountInv == active = Cardinality(DOMAIN voices) /\ active <= limit

AnsweredFor(id) ==
  \/ \E o \in Objects : playback[o] = id
  \/ \E k \in 1 .. Len(calls) : calls[k].id = id
  \/ \E k \in 1 .. Len(channel) : channel[k].id = id /\ channel[k].op \in {"stop", "close"}
  \/ Added /\ id = nextId - 1

AnswerInv == \A id \in DOMAIN voices : AnsweredFor(id)

-----------------------------------------------------------------------------
(* AudioMixer: what passes between the threads.                            *)

\* Nothing is asked, sent or playing at first.
LEMMA ProtocolInit == AudioInit => ProtocolInv
<1> SUFFICES ASSUME AudioInit PROVE ProtocolInv
  OBVIOUS
<1> USE AudioAssumption
<1>1. OwnerTyped
  BY DEF AudioInit, OwnerTyped, Objects
<1>2. MixerTyped
  BY DEF AudioInit, MixerTyped, Workers
<1>3. OneCaller
  BY DEF AudioInit, OneCaller
<1>4. IdLeft
  BY DEF AudioInit, IdLeft
<1>5. PlaysOne
  BY DEF AudioInit, PlaysOne, Added
<1> QED
  BY <1>1, <1>2, <1>3, <1>4, <1>5 DEF ProtocolInv

\* A method begins: nothing was outstanding, and an add comes last.
LEMMA MethodBegins ==
  ASSUME ProtocolInv, NEW o \in Objects, NEW s \in Seq(Calls), s # <<>>,
         \A k \in 1 .. Len(s) : s[k].op = "add" => k = Len(s) /\ nextId <= MaxIds,
         \A k \in 1 .. Len(s) : s[k].op = "wait" => k = 1 /\ playback'[o] # 0,
         Begin(o, s), Elsewhere, UNCHANGED <<taken, delivered>>,
         playback' \in [Objects -> Nat],
         \A p \in Objects : playback'[p] \in {0, playback[p]}
  PROVE  ProtocolInv'
<1> USE AudioAssumption DEF Begin, Elsewhere, mixVars, ProtocolInv
<1>1. OwnerTyped'
  BY DEF OwnerTyped
<1>2. MixerTyped'
  BY DEF MixerTyped
<1>3. OneCaller'
  BY DEF OneCaller, Objects
<1>4. IdLeft'
  BY DEF IdLeft
<1>5. PlaysOne'
  BY DEF PlaysOne, Added
<1> QED
  BY <1>1, <1>2, <1>3, <1>4, <1>5

\* Stop and close are two calls, of the ids there are.
LEMMA ClosingTyped ==
  ASSUME OwnerTyped, NEW o \in Objects
  PROVE  /\ Closing(o) \in Seq(Calls)
         /\ \A k \in 1 .. Len(Closing(o)) : Closing(o)[k].op \in {"stop", "close"}
         /\ playback[o] = 0 => Closing(o) = <<>>
         /\ playback[o] # 0 => Closing(o) # <<>> /\ Len(Closing(o)) = 2
<1>1. CASE playback[o] = 0
  BY <1>1 DEF Closing
<1>2. CASE playback[o] # 0
  <2> DEFINE first == CallOf("stop", playback[o])
             second == CallOf("close", playback[o])
  <2>1. /\ first \in Calls /\ first.op = "stop"
        /\ second \in Calls /\ second.op = "close"
    BY DEF OwnerTyped, CallOf, Calls, Ops
  <2>2. Closing(o) = <<first, second>>
    BY <1>2 DEF Closing
  <2> HIDE DEF first, second
  <2> QED
    BY <1>2, <2>1, <2>2
<1> QED
  BY <1>1, <1>2

\* play asks to close what the object has, then for the new voice.
LEMMA ProtocolPlay ==
  ASSUME ProtocolInv, NEW o \in Objects, Play(o) PROVE ProtocolInv'
<1> DEFINE s == Append(Closing(o), CallOf("add", 0))
<1>1. s \in Seq(Calls) /\ s # <<>>
  <2>1. CallOf("add", 0) \in Calls
    BY DEF CallOf, Calls, Ops
  <2>2. Closing(o) \in Seq(Calls)
    BY ClosingTyped DEF ProtocolInv
  <2>3. s \in Seq(Calls) /\ Len(s) = Len(Closing(o)) + 1
    BY <2>1, <2>2
  <2> QED
    BY <2>2, <2>3
<1>2. \A k \in 1 .. Len(s) :
        /\ s[k].op = "add" => k = Len(s) /\ nextId <= MaxIds
        /\ s[k].op # "wait"
  <2>1. TAKE k \in 1 .. Len(s)
  <2>2. CASE k = Len(s)
    BY <2>2, ClosingTyped DEF ProtocolInv, Play, CallOf
  <2>3. CASE k # Len(s)
    BY <2>3, ClosingTyped DEF ProtocolInv
  <2> QED
    BY <2>2, <2>3
<1>3. /\ playback' \in [Objects -> Nat]
      /\ \A p \in Objects : playback'[p] \in {0, playback[p]}
  BY DEF Play, ProtocolInv, OwnerTyped
<1> QED
  BY <1>1, <1>2, <1>3, MethodBegins DEF Play

\* A control is one call about the object's playback.
LEMMA ProtocolControl ==
  ASSUME ProtocolInv, NEW o \in Objects, NEW op \in {"pause", "resume", "control"},
         Control(o, op)
  PROVE  ProtocolInv'
<1> DEFINE s == <<CallOf(op, playback[o])>>
<1>1. s \in Seq(Calls) /\ s # <<>> /\ \A k \in 1 .. Len(s) : s[k].op \notin {"add", "wait"}
  BY DEF ProtocolInv, OwnerTyped, CallOf, Calls, Ops
<1>2. playback' \in [Objects -> Nat] /\ \A p \in Objects : playback'[p] = playback[p]
  BY DEF Control, ProtocolInv, OwnerTyped
<1> QED
  BY <1>1, <1>2, MethodBegins DEF Control

\* stop takes the playback from its object and closes it.
LEMMA ProtocolStop ==
  ASSUME ProtocolInv, NEW o \in Objects, Stop(o) PROVE ProtocolInv'
<1>1. /\ Closing(o) \in Seq(Calls) /\ Closing(o) # <<>>
      /\ \A k \in 1 .. Len(Closing(o)) : Closing(o)[k].op \notin {"add", "wait"}
  BY ClosingTyped DEF ProtocolInv, Stop
<1>2. /\ playback' \in [Objects -> Nat]
      /\ \A p \in Objects : playback'[p] \in {0, playback[p]}
  BY DEF Stop, ProtocolInv, OwnerTyped
<1> QED
  BY <1>1, <1>2, MethodBegins DEF Stop

\* So does the end of the object itself.
LEMMA ProtocolCollect ==
  ASSUME ProtocolInv, NEW o \in Objects, Collect(o) PROVE ProtocolInv'
<1> DEFINE s == IF o \in Tracks THEN Closing(o) ELSE <<CallOf("close", playback[o])>>
<1>1. s \in Seq(Calls) /\ s # <<>> /\ \A k \in 1 .. Len(s) : s[k].op \notin {"add", "wait"}
  <2>1. CASE o \in Tracks
    BY <2>1, ClosingTyped DEF ProtocolInv, Collect
  <2>2. CASE o \notin Tracks
    BY <2>2 DEF ProtocolInv, OwnerTyped, CallOf, Calls, Ops
  <2> QED
    BY <2>1, <2>2
<1>2. /\ playback' \in [Objects -> Nat]
      /\ \A p \in Objects : playback'[p] \in {0, playback[p]}
  BY DEF Collect, ProtocolInv, OwnerTyped
<1> QED
  BY <1>1, <1>2, MethodBegins DEF Collect

\* A join is one call, which waits.
LEMMA ProtocolJoin ==
  ASSUME ProtocolInv, NEW o \in Objects, Join(o) PROVE ProtocolInv'
<1> DEFINE s == <<CallOf("wait", playback[o])>>
<1>1. s \in Seq(Calls) /\ s # <<>> /\ \A k \in 1 .. Len(s) : s[k].op # "add" /\ k = 1
  BY DEF ProtocolInv, OwnerTyped, CallOf, Calls, Ops
<1>2. /\ playback' \in [Objects -> Nat] /\ playback'[o] # 0
      /\ \A p \in Objects : playback'[p] = playback[p]
  BY DEF Join, ProtocolInv, OwnerTyped
<1> QED
  BY <1>1, <1>2, MethodBegins DEF Join

\* Asking for the snapshot takes an end at most, and calls nothing.
LEMMA ProtocolObserve ==
  ASSUME ProtocolInv, NEW o \in Objects, Observe(o) PROVE ProtocolInv'
<1> USE DEF Observe, Elsewhere, mixVars, ProtocolInv
<1>0. o \in Objects /\ playback[o] \in DOMAIN snapshot /\ playback[o] \in 1 .. MaxIds
  BY AudioAssumption DEF PlaysOne, MixerTyped, IdLeft
<1>1. OwnerTyped'
  <2>1. taken' \in [Objects -> Nat]
    BY <1>0 DEF OwnerTyped, MixerTyped, Snapshots
  <2>2. delivered' \in [1 .. MaxIds -> Nat]
    BY <1>0 DEF OwnerTyped
  <2> QED
    BY <2>1, <2>2 DEF OwnerTyped
<1>2. MixerTyped'
  BY DEF MixerTyped
<1>3. OneCaller'
  BY DEF OneCaller, Waiting
<1>4. IdLeft'
  BY DEF IdLeft
<1>5. PlaysOne'
  BY DEF PlaysOne, Added
<1> QED
  BY <1>1, <1>2, <1>3, <1>4, <1>5

\* A join that returns becomes the close of the playback.
LEMMA ProtocolJoinReturns == ProtocolInv /\ JoinReturns => ProtocolInv'
<1> SUFFICES ASSUME ProtocolInv, JoinReturns PROVE ProtocolInv'
  OBVIOUS
<1> USE AudioAssumption DEF JoinReturns, Waiting, Elsewhere, mixVars, ProtocolInv
<1> DEFINE last == CallOf("close", Head(calls).id)
<1>0. Head(calls) \in Calls
  BY DEF OwnerTyped
<1>1. last \in Calls /\ last.op = "close"
  BY <1>0 DEF OwnerTyped, CallOf, Calls, Ops
<1>2. calls' = <<last>> /\ calls' \in Seq(Calls) /\ calls' # <<>> /\ Len(calls') = 1
      /\ Head(calls') = last /\ calls'[1] = last
  <2> HIDE DEF last
  <2>1. calls' = <<last>>
    BY DEF last
  <2> QED
    BY <1>1, <2>1
<1> HIDE DEF last
<1>3. OwnerTyped'
  BY <1>2 DEF OwnerTyped
<1>4. MixerTyped'
  BY DEF MixerTyped
<1>5. reply = "unsent" /\ reply' = "unsent"
  <2>1. 1 \in 1 .. Len(calls) /\ calls[1].op = "wait"
    BY DEF OwnerTyped
  <2> QED
    BY <2>1 DEF OneCaller
<1>6. OneCaller'
  BY <1>1, <1>2, <1>5 DEF OneCaller
<1>7. IdLeft'
  BY <1>1, <1>2 DEF IdLeft
<1>8. PlaysOne'
  BY <1>5 DEF PlaysOne, Added, OwnerTyped
<1> QED
  BY <1>3, <1>4, <1>6, <1>7, <1>8

\* One that gives up ends, or closes the playback as stop does.
LEMMA ProtocolJoinGivesUp == ProtocolInv /\ JoinGivesUp => ProtocolInv'
<1> SUFFICES ASSUME ProtocolInv, JoinGivesUp PROVE ProtocolInv'
  OBVIOUS
<1> USE AudioAssumption DEF Waiting, Elsewhere, mixVars, ProtocolInv
<1>1. MixerTyped'
  BY DEF JoinGivesUp, MixerTyped
<1>2. /\ reply = "unsent" /\ reply' = "unsent"
      /\ owner # NoObject /\ playback[owner] # 0
  BY DEF OneCaller, JoinGivesUp, OwnerTyped
<1>3. CASE calls' = <<>> /\ owner' = NoObject /\ UNCHANGED playback
  <2>1. OwnerTyped'
    BY <1>3 DEF JoinGivesUp, OwnerTyped
  <2>2. OneCaller'
    BY <1>2, <1>3 DEF JoinGivesUp, OneCaller
  <2>3. IdLeft'
    BY <1>3 DEF JoinGivesUp, IdLeft
  <2>4. PlaysOne'
    BY <1>3 DEF JoinGivesUp, PlaysOne, Added
  <2> QED
    BY <1>1, <2>1, <2>2, <2>3, <2>4
<1>4. CASE calls' = Closing(owner) /\ UNCHANGED owner
           /\ playback' = [playback EXCEPT ![owner] = 0]
  <2>1. owner \in Objects
    BY <1>2 DEF OwnerTyped
  <2>2. /\ calls' \in Seq(Calls) /\ Len(calls') = 2
        /\ \A k \in 1 .. Len(calls') : calls'[k].op \in {"stop", "close"}
    BY <1>2, <1>4, <2>1, ClosingTyped
  <2>3. OwnerTyped'
    BY <1>4, <2>2 DEF JoinGivesUp, OwnerTyped
  <2>4. OneCaller'
    <3>1. calls' # <<>> /\ \A k \in 1 .. Len(calls') : calls'[k].op # "wait"
      <4>1. Closing(owner) # <<>>
        BY <1>2, <2>1, ClosingTyped
      <4>2. calls' # <<>>
        BY <1>4, <4>1
      <4> QED
        BY <2>2, <4>2
    <3>2. channel' = channel
      BY DEF JoinGivesUp
    <3> QED
      BY <1>2, <1>4, <3>1, <3>2 DEF OneCaller
  <2>5. IdLeft'
    BY <1>4, <2>2 DEF JoinGivesUp, IdLeft
  <2>6. PlaysOne'
    BY <1>2, <1>4, <2>1, <2>2 DEF JoinGivesUp, PlaysOne, Added, OwnerTyped
  <2> QED
    BY <1>1, <2>3, <2>4, <2>5, <2>6
<1> QED
  BY <1>3, <1>4 DEF JoinGivesUp

\* What becomes of a snapshot when its voice halts, or ends.
LEMMA HaltedTyped ==
  ASSUME NEW s \in Snapshots
  PROVE  /\ Halted(s) \in Snapshots /\ Ending(s) \in Snapshots
         /\ ~Halted(s).playing /\ ~Halted(s).paused
         /\ Halted(s).ends = s.ends /\ Halted(s).error = s.error
         /\ ~Ending(s).playing /\ ~Ending(s).paused
         /\ Ending(s).ends = s.ends + 1 /\ Ending(s).error = s.error
<1>1. /\ Halted(s) \in Snapshots /\ ~Halted(s).playing /\ ~Halted(s).paused
      /\ Halted(s).ends = s.ends /\ Halted(s).error = s.error
  BY DEF Snapshots, Halted
<1>2. /\ Ending(s) \in Snapshots
      /\ Ending(s).playing = Halted(s).playing /\ Ending(s).paused = Halted(s).paused
      /\ Ending(s).ends = Halted(s).ends + 1 /\ Ending(s).error = Halted(s).error
  BY <1>1 DEF Snapshots, Ending
<1> QED
  BY <1>1, <1>2

\* Steps of the thread that no method can tell from none.
LEMMA ProtocolApart ==
  ASSUME ProtocolInv, UNCHANGED <<ownerVars, channel, nextId, delivered>>,
         DOMAIN snapshot' = DOMAIN snapshot, MixerTyped'
  PROVE  ProtocolInv'
<1> USE DEF ownerVars, ProtocolInv
<1>1. OwnerTyped'
  BY DEF OwnerTyped
<1>2. OneCaller'
  BY DEF OneCaller
<1>3. IdLeft'
  BY DEF IdLeft
<1>4. PlaysOne'
  BY DEF PlaysOne, Added
<1> QED
  BY <1>1, <1>2, <1>3, <1>4

\* Mixing, the device and the start of the thread are such steps.
LEMMA ProtocolMixing ==
  ProtocolInv /\ (BeginBlock \/ MixVoice \/ EndBlock \/ NextBlock \/ QueueFilled
                  \/ PutFails \/ QueueFails \/ StartManager)
    => ProtocolInv'
<1> SUFFICES ASSUME ProtocolInv,
                    BeginBlock \/ MixVoice \/ EndBlock \/ NextBlock \/ QueueFilled
                      \/ PutFails \/ QueueFails \/ StartManager
             PROVE  ProtocolInv'
  OBVIOUS
<1> USE DEF ProtocolInv, MixerTyped, Workers, mixVars, ghostVars
<1>1. CASE BeginBlock
  BY <1>1, ProtocolApart DEF BeginBlock
<1>2. CASE MixVoice
  <2>1. /\ DOMAIN snapshot' = DOMAIN snapshot
        /\ snapshot' \in [DOMAIN snapshot -> Snapshots]
    <3>1. CASE UNCHANGED snapshot
      BY <3>1
    <3>2. CASE \E id \in unmixed : snapshot' = [snapshot EXCEPT ![id] = Ending(@)]
      <4>1. PICK id : snapshot' = [snapshot EXCEPT ![id] = Ending(snapshot[id])]
        BY <3>2
      <4>2. \A i \in DOMAIN snapshot : Ending(snapshot[i]) \in Snapshots
        BY HaltedTyped
      <4> QED
        BY <4>1, <4>2
    <3> QED
      BY <1>2, <3>1, <3>2 DEF MixVoice
  <2> QED
    BY <1>2, <2>1, ProtocolApart DEF MixVoice
<1>3. CASE EndBlock
  <2>1. /\ DOMAIN voices' \subseteq DOMAIN voices
        /\ voices' \in [DOMAIN voices' -> [paused : BOOLEAN, synth : BOOLEAN]]
    BY <1>3 DEF EndBlock, Restrict
  <2> QED
    BY <1>3, <2>1, ProtocolApart DEF EndBlock
<1>4. CASE NextBlock
  BY <1>4, ProtocolApart DEF NextBlock
<1>5. CASE QueueFilled
  BY <1>5, ProtocolApart DEF QueueFilled
<1>6. ASSUME FailAllVoices
      PROVE  /\ DOMAIN voices' = {}
             /\ voices' \in [DOMAIN voices' -> [paused : BOOLEAN, synth : BOOLEAN]]
             /\ DOMAIN snapshot' = DOMAIN snapshot
             /\ snapshot' \in [DOMAIN snapshot -> Snapshots]
  BY <1>6 DEF FailAllVoices, Restrict, Halted, Snapshots
<1>7. CASE PutFails
  BY <1>6, <1>7, ProtocolApart DEF PutFails
<1>8. CASE QueueFails
  BY <1>6, <1>8, ProtocolApart DEF QueueFails
<1>9. CASE StartManager
  BY <1>9, ProtocolApart DEF StartManager
<1> QED
  BY <1>1, <1>2, <1>3, <1>4, <1>5, <1>7, <1>8, <1>9

\* The command of the outstanding call becomes the last of the channel.
LEMMA ProtocolSend == ProtocolInv /\ Send => ProtocolInv'
<1> SUFFICES ASSUME ProtocolInv, Send PROVE ProtocolInv'
  OBVIOUS
<1> USE DEF ProtocolInv, Send, mixVars, ghostVars
<1> DEFINE command == Command(Head(calls).op, Head(calls).id, TRUE)
<1>1. Head(calls) \in Calls /\ Head(calls) = calls[1] /\ Len(calls) > 0
  BY DEF OwnerTyped
<1>2. /\ command \in Commands
      /\ command.awaited /\ command.op = Head(calls).op
  BY <1>1 DEF Command, Calls, Commands
<1>3. /\ channel' \in Seq(Commands)
      /\ \/ channel' = channel /\ reply' = "error"
         \/ channel' = Append(channel, command) /\ reply' = "awaited"
  <2> HIDE DEF command
  <2>1. \/ channel' = channel /\ reply' = "error"
        \/ channel' = Append(channel, command) /\ reply' = "awaited"
    BY DEF command
  <2>2. /\ channel \in Seq(Commands)
        /\ Append(channel, command) \in Seq(Commands)
    BY <1>2 DEF MixerTyped
  <2> QED
    BY <2>1, <2>2
<1> HIDE DEF command
<1>4. OwnerTyped'
  BY <1>3 DEF OwnerTyped
<1>5. MixerTyped'
  BY <1>3 DEF MixerTyped
<1>6. OneCaller'
  <2>1. \A k \in 1 .. Len(channel) : ~channel[k].awaited
    BY DEF OneCaller
  <2>2. \A k \in 1 .. Len(channel') :
          IF channel'[k].awaited
          THEN k = Len(channel') /\ reply' = "awaited" /\ channel'[k].op = Head(calls).op
          ELSE channel'[k].op = "close"
    BY <1>2, <1>3, <2>1 DEF OneCaller, MixerTyped
  <2>3. \A k \in 1 .. Len(calls) : calls[k].op # "wait"
    BY <1>1 DEF OneCaller, Waiting
  <2> QED
    BY <2>2, <2>3 DEF OneCaller
<1>7. IdLeft'
  BY DEF IdLeft
<1>8. PlaysOne'
  BY <1>3 DEF PlaysOne, Added
<1> QED
  BY <1>4, <1>5, <1>6, <1>7, <1>8

\* What remains of a method's calls when the first one returns.
LEMMA RestOfCalls ==
  ASSUME OwnerTyped, calls # <<>>
  PROVE  /\ Head(calls) \in Calls /\ Head(calls) = calls[1]
         /\ Tail(calls) \in Seq(Calls) /\ Len(Tail(calls)) = Len(calls) - 1
         /\ \A k \in 1 .. Len(Tail(calls)) : Tail(calls)[k] = calls[k + 1]
         /\ Finally(Tail(calls)) \in Seq(Calls)
         /\ Finally(Tail(calls)) # <<>> =>
              /\ Len(Tail(calls)) > 0 /\ Len(Finally(Tail(calls))) = 1
              /\ Finally(Tail(calls))[1] = Tail(calls)[1] /\ Tail(calls)[1].op = "close"
         /\ Tail(calls) # <<>> /\ Tail(calls)[1].op = "close" => Finally(Tail(calls)) # <<>>
<1>1. /\ Head(calls) \in Calls /\ Head(calls) = calls[1]
      /\ Tail(calls) \in Seq(Calls) /\ Len(Tail(calls)) = Len(calls) - 1
      /\ \A k \in 1 .. Len(Tail(calls)) : Tail(calls)[k] = calls[k + 1]
  BY DEF OwnerTyped
<1> DEFINE rest == Tail(calls)
<1>2. rest \in Seq(Calls)
  BY <1>1
<1> HIDE DEF rest
<1>3. /\ Finally(rest) \in Seq(Calls)
      /\ Finally(rest) # <<>> => /\ Len(rest) > 0 /\ Len(Finally(rest)) = 1
                                 /\ Finally(rest)[1] = rest[1] /\ rest[1].op = "close"
      /\ rest # <<>> /\ rest[1].op = "close" => Finally(rest) # <<>>
  <2>1. CASE rest # <<>> /\ rest[1].op = "close"
    <3> DEFINE last == rest[1]
    <3>1. last \in Calls /\ last.op = "close" /\ Len(rest) > 0 /\ Head(rest) = last
      BY <1>2, <2>1
    <3>2. Finally(rest) = <<last>>
      BY <2>1, <3>1 DEF Finally
    <3> HIDE DEF last
    <3>3. <<last>> \in Seq(Calls) /\ Len(<<last>>) = 1 /\ <<last>> # <<>> /\ <<last>>[1] = last
      BY <3>1
    <3> QED
      BY <3>1, <3>2, <3>3 DEF last
  <2>2. CASE ~(rest # <<>> /\ rest[1].op = "close")
    <3>1. Finally(rest) = <<>>
      BY <1>2, <2>2 DEF Finally
    <3> QED
      BY <2>2, <3>1
  <2> QED
    BY <2>1, <2>2
<1> QED
  BY <1>1, <1>3 DEF rest

\* A method goes on with its remaining calls, and an add gives it a new id.
LEMMA ProtocolReturn == ProtocolInv /\ Return => ProtocolInv'
<1> SUFFICES ASSUME ProtocolInv, Return PROVE ProtocolInv'
  OBVIOUS
<1> USE AudioAssumption DEF ProtocolInv, mixVars, ghostVars
<1>1. /\ calls # <<>> /\ reply \in {"ok", "error"} /\ reply' = "unsent"
      /\ owner \in Objects
  BY DEF Return, OneCaller, OwnerTyped
<1>2. calls' = Tail(calls) \/ calls' = Finally(Tail(calls))
  BY DEF Return
<1>3. /\ calls' \in Seq(Calls)
      /\ \A k \in 1 .. Len(calls') :
           /\ calls'[k].op # "wait"
           /\ calls'[k].op = "add" => k = Len(calls') /\ nextId <= MaxIds
  <2>1. \A k \in 1 .. Len(calls) :
          /\ calls[k].op = "wait" => k = 1
          /\ calls[k].op = "add" => k = Len(calls) /\ (k = 1 \/ nextId <= MaxIds)
    BY DEF OneCaller, IdLeft
  <2>2. Len(calls) \in Nat
    BY DEF OwnerTyped
  <2> DEFINE rest == Tail(calls)
             kept == Finally(rest)
  <2>3. /\ rest \in Seq(Calls) /\ Len(rest) = Len(calls) - 1
        /\ \A k \in 1 .. Len(rest) : rest[k] = calls[k + 1]
        /\ kept \in Seq(Calls)
        /\ kept # <<>> => Len(kept) = 1 /\ kept[1].op = "close"
    BY <1>1, RestOfCalls
  <2>4. calls' \in {rest, kept}
    BY <1>2
  <2> HIDE DEF rest, kept
  <2>5. CASE calls' = rest
    BY <2>1, <2>2, <2>3, <2>5
  <2>6. CASE calls' = kept
    <3>1. \A k \in 1 .. Len(kept) : kept[k].op = "close"
      <4>1. kept = <<>> => Len(kept) = 0
        OBVIOUS
      <4> QED
        BY <2>3, <4>1
    <3> QED
      BY <2>3, <2>6, <3>1
  <2> QED
    BY <2>4, <2>5, <2>6
<1>4. \/ UNCHANGED <<playback, taken>>
      \/ /\ Added
         /\ playback' = [playback EXCEPT ![owner] = nextId - 1]
         /\ taken' = [taken EXCEPT ![owner] = 0]
  BY <1>1 DEF Return, Added
<1>5. OwnerTyped'
  <2>1. playback' \in [Objects -> Nat] /\ taken' \in [Objects -> Nat]
    <3>1. nextId - 1 \in Nat
      BY DEF MixerTyped
    <3>2. playback \in [Objects -> Nat] /\ taken \in [Objects -> Nat]
      BY DEF OwnerTyped
    <3> QED
      BY <1>4, <3>1, <3>2
  <2>2. owner' \in Objects \union {NoObject} /\ delivered' = delivered
    BY <1>1 DEF Return
  <2> QED
    BY <1>1, <1>3, <2>1, <2>2 DEF OwnerTyped
<1>6. /\ channel' \in Seq(Commands)
      /\ \A k \in 1 .. Len(channel') : ~channel'[k].awaited /\ channel'[k].op = "close"
  <2>1. \A k \in 1 .. Len(channel) : ~channel[k].awaited /\ channel[k].op = "close"
    BY <1>1 DEF OneCaller
  <2> DEFINE last == Command("close", Head(calls).id, FALSE)
  <2>2. /\ last \in Commands
        /\ ~last.awaited /\ last.op = "close"
    BY <1>1, RestOfCalls DEF Command, Calls, Commands, Ops
  <2>3. channel' = channel \/ channel' = Append(channel, last)
    BY DEF Return
  <2> HIDE DEF last
  <2>4. channel \in Seq(Commands)
    BY DEF MixerTyped
  <2> QED
    BY <2>1, <2>2, <2>3, <2>4
<1>7. MixerTyped'
  BY <1>6 DEF Return, MixerTyped
<1>8. OneCaller'
  <2>1. owner' = NoObject <=> calls' = <<>>
    BY <1>1 DEF Return, Objects
  <2> QED
    BY <1>1, <1>3, <1>6, <2>1 DEF OneCaller
<1>9. IdLeft'
  BY <1>3 DEF Return, IdLeft
<1>10. PlaysOne'
  <2>1. ~Added'
    BY <1>1 DEF Added
  <2>2. CASE UNCHANGED <<playback, taken>>
    BY <2>1, <2>2 DEF Return, PlaysOne
  <2>3. CASE /\ Added
             /\ playback' = [playback EXCEPT ![owner] = nextId - 1]
    BY <1>1, <2>1, <2>3 DEF Return, PlaysOne, OwnerTyped
  <2> QED
    BY <1>4, <2>2, <2>3
<1> QED
  BY <1>5, <1>7, <1>8, <1>9, <1>10

\* The thread takes a command from the channel: an answer goes to the call that is
\* outstanding, and then no other command is waiting.
LEMMA CommandTaken ==
  ASSUME ProtocolInv, NEW ops, Applies(ops), NEW answer \in {"ok", "error"},
         Answer(Head(channel), answer)
  PROVE  /\ Head(channel) \in Commands
         /\ channel' \in Seq(Commands)
         /\ \A k \in 1 .. Len(channel') :
              channel'[k] = channel[k + 1] /\ k + 1 \in 1 .. Len(channel)
         /\ reply' \in {"unsent", "awaited", "ok", "error"}
         /\ OneCaller'
         /\ IF Head(channel).awaited
            THEN /\ reply = "awaited" /\ reply' = answer /\ channel' = <<>>
                 /\ calls # <<>> /\ Head(calls).op = Head(channel).op
            ELSE Head(channel).op = "close" /\ reply' = reply
<1> USE DEF ProtocolInv, Applies
<1>1. /\ channel \in Seq(Commands)
      /\ Head(channel) = channel[1] /\ 1 \in 1 .. Len(channel)
      /\ channel' \in Seq(Commands)
      /\ Len(channel') = Len(channel) - 1
      /\ \A k \in 1 .. Len(channel') :
           channel'[k] = channel[k + 1] /\ k + 1 \in 1 .. Len(channel)
  BY DEF MixerTyped
<1>2. Head(channel) \in Commands
  BY <1>1
<1>3. CASE Head(channel).awaited
  <2>1. /\ Len(channel) = 1 /\ reply = "awaited" /\ reply' = answer
        /\ calls # <<>> /\ Head(calls).op = Head(channel).op
    BY <1>1, <1>3 DEF OneCaller, Answer
  <2>2. channel' = <<>>
    BY <1>1, <2>1
  <2>3. OneCaller'
    <3>1. \A k \in 1 .. Len(channel') : FALSE
      BY <1>1, <2>1
    <3>2. \A k \in 1 .. Len(calls) : calls[k].op # "wait"
      BY <2>1 DEF OneCaller
    <3> QED
      BY <2>1, <3>1, <3>2 DEF OneCaller
  <2> QED
    BY <1>1, <1>2, <1>3, <2>1, <2>2, <2>3
<1>4. CASE ~Head(channel).awaited
  <2>1. Head(channel).op = "close" /\ reply' = reply
    BY <1>1, <1>4 DEF OneCaller, Answer
  <2>2. OneCaller'
    <3>1. \A k \in 1 .. Len(channel') :
            IF channel'[k].awaited
            THEN /\ k = Len(channel') /\ reply = "awaited"
                 /\ calls # <<>> /\ channel'[k].op = Head(calls).op
            ELSE channel'[k].op = "close"
      <4>1. \A j \in 1 .. Len(channel) :
              IF channel[j].awaited
              THEN /\ j = Len(channel) /\ reply = "awaited"
                   /\ calls # <<>> /\ channel[j].op = Head(calls).op
              ELSE channel[j].op = "close"
        BY DEF OneCaller
      <4>2. Len(channel) \in Nat
        BY <1>1
      <4>3. TAKE k \in 1 .. Len(channel')
      <4>4. /\ channel'[k] = channel[k + 1] /\ k + 1 \in 1 .. Len(channel)
            /\ k + 1 = Len(channel) <=> k = Len(channel')
        BY <1>1, <4>2
      <4> QED
        BY <4>1, <4>4, Zenon
    <3>2. UNCHANGED <<owner, calls, playback, reply>>
      BY <2>1
    <3> QED
      BY <3>1, <3>2 DEF OneCaller
  <2> QED
    BY <1>1, <1>2, <1>4, <2>1, <2>2 DEF OwnerTyped
<1> QED
  BY <1>3, <1>4

\* An add takes the id that was kept for it.
LEMMA ProtocolAdd == ProtocolInv /\ ApplyAdd => ProtocolInv'
<1> SUFFICES ASSUME ProtocolInv, ApplyAdd PROVE ProtocolInv'
  OBVIOUS
<1> USE DEF ProtocolInv, mixVars
<1>1. /\ Applies({"add"}) /\ limit' = limit /\ delivered' = delivered
      /\ UNCHANGED <<playback, taken, owner, calls, worker>>
  BY DEF ApplyAdd, Applies
<1>2. PICK answer \in {"ok", "error"} :
        /\ Answer(Head(channel), answer)
        /\ \/ UNCHANGED <<nextId, voices, snapshot>> /\ answer = "error"
           \/ nextId' = nextId + 1 /\ UNCHANGED <<voices, snapshot>> /\ answer = "error"
           \/ /\ nextId' = nextId + 1
              /\ voices' = With(voices, nextId, [paused |-> FALSE, synth |-> owner \in Tracks])
              /\ snapshot' = With(snapshot, nextId, Started)
  BY DEF ApplyAdd
<1>3. Head(channel).op = "add"
  BY <1>1 DEF Applies
<1>4. /\ channel' \in Seq(Commands) /\ OneCaller'
      /\ reply = "awaited" /\ reply' = answer
      /\ calls # <<>> /\ Head(calls).op = "add"
  BY <1>1, <1>2, <1>3, CommandTaken
<1>5. OwnerTyped'
  BY <1>1, <1>4 DEF OwnerTyped
<1>6. nextId \in Nat \ {0} /\ nextId' \in {nextId, nextId + 1}
  BY <1>2 DEF MixerTyped
<1>7. /\ DOMAIN snapshot' \in {DOMAIN snapshot, DOMAIN snapshot \union {nextId}}
      /\ DOMAIN snapshot' # DOMAIN snapshot => nextId' = nextId + 1
      /\ answer = "ok" => nextId' = nextId + 1 /\ nextId \in DOMAIN snapshot'
  BY <1>2 DEF With
<1>8. MixerTyped'
  <2>1. CASE UNCHANGED <<voices, snapshot>>
    BY <1>1, <1>4, <1>6, <2>1 DEF MixerTyped
  <2>2. CASE /\ nextId' = nextId + 1
             /\ voices' = With(voices, nextId, [paused |-> FALSE, synth |-> owner \in Tracks])
             /\ snapshot' = With(snapshot, nextId, Started)
    <3>1. /\ DOMAIN snapshot' = DOMAIN snapshot \union {nextId}
          /\ DOMAIN voices' = DOMAIN voices \union {nextId}
      BY <2>2 DEF With
    <3>2. snapshot' \in [DOMAIN snapshot' -> Snapshots]
      <4>1. Started \in Snapshots
        BY DEF Started, Snapshots
      <4> QED
        BY <2>2, <4>1 DEF With, MixerTyped
    <3>3. voices' \in [DOMAIN voices' -> [paused : BOOLEAN, synth : BOOLEAN]]
      <4>1. [paused |-> FALSE, synth |-> owner \in Tracks] \in [paused : BOOLEAN, synth : BOOLEAN]
        OBVIOUS
      <4> QED
        BY <2>2, <4>1 DEF With, MixerTyped
    <3>4. /\ DOMAIN voices' \subseteq DOMAIN snapshot'
          /\ nextId' \in Nat \ {0} /\ DOMAIN snapshot' \subseteq 1 .. nextId' - 1
      BY <1>6, <2>2, <3>1 DEF MixerTyped
    <3> QED
      BY <1>1, <1>4, <3>2, <3>3, <3>4 DEF MixerTyped
  <2> QED
    BY <1>2, <2>1, <2>2
<1>9. IdLeft'
  <2>1. Len(calls) = 1 /\ nextId <= MaxIds
    <3>1. 1 \in 1 .. Len(calls) /\ calls[1].op = "add"
      BY <1>4 DEF OwnerTyped
    <3> QED
      BY <1>4, <3>1 DEF IdLeft
  <2> QED
    BY <1>1, <1>4, <1>6, <2>1, AudioAssumption DEF IdLeft
<1>10. PlaysOne'
  <2>1. \A o \in Objects : playback[o] # nextId
    BY <1>6 DEF PlaysOne, MixerTyped
  <2>2. answer = "ok" => nextId' - 1 = nextId
    BY <1>6, <1>7
  <2> QED
    BY <1>1, <1>4, <1>7, <2>1, <2>2 DEF PlaysOne, Added
<1> QED
  BY <1>4, <1>5, <1>8, <1>9, <1>10

\* Commands that leave the ids alone, and are not the add.
LEMMA ProtocolApplied ==
  ASSUME ProtocolInv, NEW ops, Applies(ops), "add" \notin ops,
         NEW answer \in {"ok", "error"}, Answer(Head(channel), answer),
         UNCHANGED <<limit, nextId, delivered>>,
         DOMAIN snapshot' = DOMAIN snapshot, DOMAIN voices' \subseteq DOMAIN voices,
         snapshot' \in [DOMAIN snapshot -> Snapshots],
         voices' \in [DOMAIN voices' -> [paused : BOOLEAN, synth : BOOLEAN]]
  PROVE  ProtocolInv'
<1> USE DEF ProtocolInv
<1>1. /\ channel' \in Seq(Commands) /\ OneCaller'
      /\ reply' \in {"unsent", "awaited", "ok", "error"}
      /\ reply' = reply \/ (calls # <<>> /\ Head(calls).op # "add")
  BY CommandTaken DEF Applies
<1>2. UNCHANGED <<playback, taken, owner, calls, worker>>
  BY DEF Applies
<1>3. OwnerTyped'
  BY <1>1, <1>2 DEF OwnerTyped
<1>4. MixerTyped'
  BY <1>1, <1>2 DEF MixerTyped
<1>5. IdLeft'
  <2>1. calls # <<>> => Head(calls) = calls[1]
    BY DEF OwnerTyped
  <2> QED
    BY <1>1, <1>2, <2>1 DEF IdLeft
<1>6. PlaysOne'
  BY <1>1, <1>2 DEF PlaysOne, Added
<1> QED
  BY <1>1, <1>3, <1>4, <1>5, <1>6

\* A stop or close leaves the ids alone, whether the voice is there or not.
LEMMA ProtocolStopped == ProtocolInv /\ ApplyStop => ProtocolInv'
<1> SUFFICES ASSUME ProtocolInv, ApplyStop PROVE ProtocolInv'
  OBVIOUS
<1> DEFINE id == Head(channel).id
<1>1. \/ UNCHANGED <<voices, snapshot>>
      \/ /\ voices' = Restrict(voices, DOMAIN voices \ {id})
         /\ snapshot' = [snapshot EXCEPT ![id] = Halted(snapshot[id])]
  BY DEF ApplyStop
<1>2. /\ DOMAIN snapshot' = DOMAIN snapshot /\ DOMAIN voices' \subseteq DOMAIN voices
      /\ snapshot' \in [DOMAIN snapshot -> Snapshots]
  <2>1. \A i \in DOMAIN snapshot : Halted(snapshot[i]) \in Snapshots
    BY HaltedTyped DEF ProtocolInv, MixerTyped
  <2>2. snapshot \in [DOMAIN snapshot -> Snapshots]
    BY DEF ProtocolInv, MixerTyped
  <2>3. /\ DOMAIN snapshot' = DOMAIN snapshot
        /\ snapshot' \in [DOMAIN snapshot -> Snapshots]
    BY <1>1, <2>1, <2>2
  <2>4. DOMAIN voices' \subseteq DOMAIN voices
    BY <1>1 DEF Restrict
  <2> QED
    BY <2>3, <2>4
<1>3. voices' \in [DOMAIN voices' -> [paused : BOOLEAN, synth : BOOLEAN]]
  BY <1>1 DEF ProtocolInv, MixerTyped, Restrict
<1>4. /\ Applies({"stop", "close"}) /\ Answer(Head(channel), "ok")
      /\ UNCHANGED <<limit, nextId, delivered>>
  BY DEF ApplyStop, Applies, mixVars
<1> QED
  BY <1>2, <1>3, <1>4, ProtocolApplied

\* So does every update.
LEMMA ProtocolUpdated == ProtocolInv /\ ApplyUpdate => ProtocolInv'
<1> SUFFICES ASSUME ProtocolInv, ApplyUpdate PROVE ProtocolInv'
  OBVIOUS
<1> DEFINE id == Head(channel).id
           op == Head(channel).op
<1>1. \/ UNCHANGED <<voices, snapshot>>
      \/ /\ voices' = [voices EXCEPT ![id].paused =
                         op = "pause" \/ (op = "control" /\ @)]
         /\ snapshot' = [snapshot EXCEPT ![id].playing = ~voices'[id].paused,
                                         ![id].paused = voices'[id].paused]
         /\ id \in DOMAIN voices
  BY DEF ApplyUpdate
<1>2. /\ DOMAIN voices' = DOMAIN voices
      /\ voices' \in [DOMAIN voices' -> [paused : BOOLEAN, synth : BOOLEAN]]
  <2> DEFINE p == op = "pause" \/ (op = "control" /\ voices[id].paused)
  <2>1. p \in BOOLEAN /\ voices \in [DOMAIN voices -> [paused : BOOLEAN, synth : BOOLEAN]]
    BY DEF ProtocolInv, MixerTyped
  <2>2. \/ voices' = voices
        \/ voices' = [voices EXCEPT ![id] = [voices[id] EXCEPT !.paused = p]]
    BY <1>1
  <2> HIDE DEF p
  <2>3. \A v \in [paused : BOOLEAN, synth : BOOLEAN] :
          [v EXCEPT !.paused = p] \in [paused : BOOLEAN, synth : BOOLEAN]
    BY <2>1
  <2> QED
    BY <2>1, <2>2, <2>3
<1>3. /\ DOMAIN snapshot' = DOMAIN snapshot
      /\ snapshot' \in [DOMAIN snapshot -> Snapshots]
  <2> DEFINE p == voices'[id].paused
             after == [[snapshot[id] EXCEPT !.playing = ~p] EXCEPT !.paused = p]
  <2>1. CASE UNCHANGED snapshot
    BY <2>1 DEF ProtocolInv, MixerTyped
  <2>2. CASE id \in DOMAIN voices /\ snapshot' = [snapshot EXCEPT ![id] = after]
    <3>1. p \in BOOLEAN /\ snapshot[id] \in Snapshots
      BY <1>2, <2>2 DEF ProtocolInv, MixerTyped
    <3> HIDE DEF p
    <3>2. after \in Snapshots
      BY <3>1 DEF Snapshots
    <3> HIDE DEF after
    <3> QED
      BY <2>2, <3>2 DEF ProtocolInv, MixerTyped
  <2> QED
    BY <1>1, <2>1, <2>2
<1>4. /\ Applies({"pause", "resume", "control"})
      /\ Answer(Head(channel), "ok") \/ Answer(Head(channel), "error")
      /\ UNCHANGED <<limit, nextId, delivered>>
  BY DEF ApplyUpdate, Applies, mixVars
<1> QED
  BY <1>2, <1>3, <1>4, ProtocolApplied

\* The end of the thread empties the channel, and its caller gets an error.
LEMMA ProtocolWorkerEnds == ProtocolInv /\ WorkerEnds => ProtocolInv'
<1> SUFFICES ASSUME ProtocolInv, WorkerEnds PROVE ProtocolInv'
  OBVIOUS
<1> USE DEF ProtocolInv, WorkerEnds, mixVars, ghostVars
<1>1. /\ channel' \in Seq(Commands) /\ \A k \in 1 .. Len(channel') : FALSE
      /\ reply' = "error" \/ reply' = reply
      /\ reply' # reply => reply = "awaited" /\ reply' = "error"
  OBVIOUS
<1>2. OwnerTyped'
  BY <1>1 DEF OwnerTyped
<1>3. MixerTyped'
  BY <1>1 DEF MixerTyped, Workers
<1>4. OneCaller'
  BY <1>1 DEF OneCaller
<1>5. IdLeft'
  BY <1>1 DEF IdLeft
<1>6. PlaysOne'
  BY <1>1 DEF PlaysOne, Added
<1> QED
  BY <1>2, <1>3, <1>4, <1>5, <1>6

\* Every step keeps the protocol.
LEMMA ProtocolStep == ProtocolInv /\ [AudioNext]_audioVars => ProtocolInv'
<1> SUFFICES ASSUME ProtocolInv, [AudioNext]_audioVars PROVE ProtocolInv'
  OBVIOUS
<1>1. CASE Asks
  BY <1>1, ProtocolPlay, ProtocolStop, ProtocolCollect, ProtocolObserve, ProtocolJoin,
     ProtocolControl DEF Asks
<1>2. CASE JoinGivesUp
  BY <1>2, ProtocolJoinGivesUp
<1>3. CASE Owner
  BY <1>3, ProtocolMixing, ProtocolSend, ProtocolReturn, ProtocolJoinReturns DEF Owner
<1>4. CASE Worker
  BY <1>4, ProtocolMixing, ProtocolAdd, ProtocolStopped, ProtocolUpdated,
     ProtocolWorkerEnds DEF Worker
<1>5. CASE UNCHANGED audioVars
  <2>1. MixerTyped'
    BY <1>5 DEF audioVars, mixVars, ProtocolInv, MixerTyped
  <2> QED
    BY <1>5, <2>1, ProtocolApart DEF audioVars, ghostVars
<1> QED
  BY <1>1, <1>2, <1>3, <1>4, <1>5 DEF AudioNext

\* Owner and thread keep their protocol in every behaviour: one call is outstanding, its
\* command is the last one sent, ids are handed out once, and an object that is given
\* one is the only one that plays it (PlaybackHandle::command, run_manager).
THEOREM ProtocolCorrect == AudioSpec => []ProtocolInv
<1>1. AudioInit /\ [][AudioNext]_audioVars => []ProtocolInv
  BY ProtocolInit, ProtocolStep, PTL
<1> QED
  BY <1>1, PTL DEF AudioSpec

-----------------------------------------------------------------------------
(* AudioMixer: what a playback says of itself.                             *)

\* There is no snapshot at first.
LEMMA TruthInit == AudioInit => TruthInv
BY DEF AudioInit, TruthInv, BlockInv, SnapshotInv

\* The owner's steps leave the mixer and the snapshots alone.
LEMMA TruthApart ==
  ASSUME TruthInv, UNCHANGED <<voices, unmixed, ended, snapshot, stopped, failed>>,
         worker' = worker \/ (worker # "mixing" /\ worker' # "mixing")
  PROVE  TruthInv'
BY DEF TruthInv, BlockInv, SnapshotInv, GoesOn, Ends, Gone

\* The owner's steps only ask.
LEMMA TruthOwner == TruthInv /\ (Asks \/ JoinGivesUp \/ Owner) => TruthInv'
<1> SUFFICES ASSUME TruthInv, Asks \/ JoinGivesUp \/ Owner PROVE TruthInv'
  OBVIOUS
<1> USE DEF mixVars, ghostVars, Elsewhere
<1>1. CASE Asks
  <2>1. Elsewhere
    BY <1>1 DEF Asks, Play, Stop, Collect, Observe, Join, Control
  <2> QED
    BY <2>1, TruthApart
<1>2. CASE JoinGivesUp
  BY <1>2, TruthApart DEF JoinGivesUp
<1>3. CASE StartManager
  BY <1>3, TruthApart DEF StartManager
<1>4. CASE Send
  BY <1>4, TruthApart DEF Send
<1>5. CASE Return
  BY <1>5, TruthApart DEF Return
<1>6. CASE JoinReturns
  BY <1>6, TruthApart DEF JoinReturns
<1> QED
  BY <1>1, <1>2, <1>3, <1>4, <1>5, <1>6 DEF Owner

\* A new voice plays, and so says its snapshot.
LEMMA TruthAdd == ProtocolInv /\ TruthInv /\ ApplyAdd => TruthInv'
<1> SUFFICES ASSUME ProtocolInv, TruthInv, ApplyAdd PROVE TruthInv'
  OBVIOUS
<1>0. PICK new : new = nextId
  OBVIOUS
<1>1. /\ worker = "commands" /\ UNCHANGED <<worker, unmixed, ended, stopped, failed>>
  BY DEF ApplyAdd, Applies, mixVars
<1>2. \/ UNCHANGED <<voices, snapshot>>
      \/ /\ voices' = With(voices, new, [paused |-> FALSE, synth |-> owner \in Tracks])
         /\ snapshot' = With(snapshot, new, Started)
  BY <1>0 DEF ApplyAdd
<1>3. CASE UNCHANGED <<voices, snapshot>>
  BY <1>1, <1>3, TruthApart
<1>4. CASE /\ voices' = With(voices, new, [paused |-> FALSE, synth |-> owner \in Tracks])
           /\ snapshot' = With(snapshot, new, Started)
  <2>1. ended = {} /\ unmixed = {} /\ BlockInv'
    BY <1>1 DEF TruthInv, BlockInv
  <2>2. /\ DOMAIN voices' = DOMAIN voices \union {new}
        /\ DOMAIN snapshot' = DOMAIN snapshot \union {new}
        /\ new \notin DOMAIN snapshot /\ new \notin DOMAIN voices
    BY <1>0, <1>4 DEF With, ProtocolInv, MixerTyped
  <2>3. GoesOn(new)'
    BY <1>4 DEF GoesOn, With, Started
  <2>4. \A id \in DOMAIN snapshot : id # new /\ snapshot'[id] = snapshot[id]
    BY <1>4, <2>2 DEF With
  <2>5. \A id \in DOMAIN voices : id # new /\ voices'[id] = voices[id]
    BY <1>4, <2>2 DEF With
  <2>6. SnapshotInv'
    BY <1>1, <2>1, <2>2, <2>3, <2>4, <2>5 DEF TruthInv, SnapshotInv, GoesOn, Gone
  <2> QED
    BY <2>1, <2>6 DEF TruthInv
<1> QED
  BY <1>2, <1>3, <1>4

\* A voice that is taken out was stopped, and its snapshot has halted.
LEMMA TruthStopped == ProtocolInv /\ TruthInv /\ ApplyStop => TruthInv'
<1> SUFFICES ASSUME ProtocolInv, TruthInv, ApplyStop PROVE TruthInv'
  OBVIOUS
<1>0. PICK id : id = Head(channel).id
  OBVIOUS
<1>1. worker = "commands" /\ UNCHANGED <<worker, unmixed, ended, failed>>
  BY DEF ApplyStop, Applies, mixVars
<1>2. ended = {} /\ unmixed = {} /\ BlockInv'
  BY <1>1 DEF TruthInv, BlockInv
<1>3. CASE id \in DOMAIN voices
  <2>1. /\ DOMAIN voices' = DOMAIN voices \ {id}
        /\ \A i \in DOMAIN voices' : voices'[i] = voices[i]
        /\ DOMAIN snapshot' = DOMAIN snapshot /\ id \in DOMAIN snapshot
        /\ snapshot'[id] = Halted(snapshot[id])
        /\ \A i \in DOMAIN snapshot \ {id} : snapshot'[i] = snapshot[i]
        /\ stopped' = stopped \union {id}
    BY <1>0, <1>3 DEF ApplyStop, Restrict, ProtocolInv, MixerTyped
  <2>2. snapshot[id] \in Snapshots /\ GoesOn(id)
    BY <1>2, <1>3, <2>1 DEF TruthInv, SnapshotInv, ProtocolInv, MixerTyped
  <2>3. Gone(id)'
    BY <1>1, <2>1, <2>2, HaltedTyped DEF Gone, GoesOn
  <2>4. \A i \in DOMAIN snapshot \ {id} :
          /\ i \in DOMAIN voices' => GoesOn(i)'
          /\ i \notin DOMAIN voices' => Gone(i)'
    BY <1>1, <1>2, <2>1 DEF TruthInv, SnapshotInv, GoesOn, Gone
  <2>5. SnapshotInv'
    BY <1>1, <1>2, <2>1, <2>3, <2>4 DEF SnapshotInv
  <2> QED
    BY <1>2, <2>5 DEF TruthInv
<1>4. CASE id \notin DOMAIN voices
  <2>1. UNCHANGED <<voices, snapshot, stopped>>
    BY <1>0, <1>4 DEF ApplyStop
  <2>2. SnapshotInv'
    BY <1>1, <2>1 DEF TruthInv, SnapshotInv, GoesOn, Ends, Gone
  <2> QED
    BY <1>2, <2>2 DEF TruthInv
<1> QED
  BY <1>3, <1>4

\* Voice and snapshot are paused or resumed together.
LEMMA TruthUpdated == ProtocolInv /\ TruthInv /\ ApplyUpdate => TruthInv'
<1> SUFFICES ASSUME ProtocolInv, TruthInv, ApplyUpdate PROVE TruthInv'
  OBVIOUS
<1>0. PICK id, op : id = Head(channel).id /\ op = Head(channel).op
  OBVIOUS
<1>1. worker = "commands" /\ UNCHANGED <<worker, unmixed, ended, stopped, failed>>
  BY DEF ApplyUpdate, Applies, mixVars
<1>2. ended = {} /\ unmixed = {}
  BY <1>1 DEF TruthInv, BlockInv
<1>3. CASE id \in DOMAIN voices
  <2>1. /\ voices' = [voices EXCEPT ![id].paused = op = "pause" \/ (op = "control" /\ @)]
        /\ snapshot' = [snapshot EXCEPT ![id].playing = ~voices'[id].paused,
                                        ![id].paused = voices'[id].paused]
    BY <1>0, <1>3 DEF ApplyUpdate
  <2>2. /\ DOMAIN voices' = DOMAIN voices /\ DOMAIN snapshot' = DOMAIN snapshot
        /\ id \in DOMAIN snapshot
        /\ \A i \in DOMAIN voices \ {id} : voices'[i] = voices[i]
        /\ \A i \in DOMAIN snapshot \ {id} : snapshot'[i] = snapshot[i]
    BY <1>3, <2>1 DEF ProtocolInv, MixerTyped
  <2>3. /\ snapshot'[id].ends = snapshot[id].ends /\ snapshot'[id].error = snapshot[id].error
        /\ snapshot'[id].paused = voices'[id].paused
        /\ snapshot'[id].playing = ~voices'[id].paused
    <3> DEFINE p == voices'[id].paused
    <3>1. /\ snapshot \in [DOMAIN snapshot -> Snapshots] /\ id \in DOMAIN snapshot
          /\ snapshot[id] \in Snapshots
      BY <2>2 DEF ProtocolInv, MixerTyped
    <3>2. snapshot' = [snapshot EXCEPT
             ![id] = [[snapshot[id] EXCEPT !.playing = ~p] EXCEPT !.paused = p]]
      <4>1. snapshot' = [snapshot EXCEPT ![id].playing = ~p, ![id].paused = p]
        BY <2>1
      <4> HIDE DEF p
      <4> QED
        BY <3>1, <4>1
    <3> HIDE DEF p
    <3>3. snapshot'[id] = [[snapshot[id] EXCEPT !.playing = ~p] EXCEPT !.paused = p]
      BY <3>1, <3>2
    <3>4. /\ snapshot'[id].ends = snapshot[id].ends /\ snapshot'[id].error = snapshot[id].error
          /\ snapshot'[id].paused = p /\ snapshot'[id].playing = ~p
      BY <3>1, <3>3 DEF Snapshots
    <3> QED
      BY <3>4 DEF p
  <2>4. GoesOn(id)'
    BY <1>2, <1>3, <2>2, <2>3 DEF TruthInv, SnapshotInv, GoesOn
  <2>5. \A i \in DOMAIN snapshot \ {id} :
          /\ i \in DOMAIN voices' => GoesOn(i)'
          /\ i \notin DOMAIN voices' => Gone(i)'
    BY <1>1, <1>2, <2>2 DEF TruthInv, SnapshotInv, GoesOn, Gone
  <2>6. SnapshotInv'
    BY <1>1, <1>2, <1>3, <2>2, <2>4, <2>5 DEF SnapshotInv
  <2>7. BlockInv'
    BY <1>1, <1>2 DEF BlockInv
  <2> QED
    BY <2>6, <2>7 DEF TruthInv
<1>4. CASE id \notin DOMAIN voices
  <2>1. UNCHANGED <<voices, snapshot>>
    BY <1>0, <1>4 DEF ApplyUpdate
  <2> QED
    BY <1>1, <2>1, TruthApart
<1> QED
  BY <1>3, <1>4

\* A voice that is mixed goes on, ends once, or fails.
LEMMA TruthMixed == ProtocolInv /\ TruthInv /\ MixVoice => TruthInv'
<1> SUFFICES ASSUME ProtocolInv, TruthInv, MixVoice PROVE TruthInv'
  OBVIOUS
<1>1. PICK id \in unmixed :
        /\ unmixed' = unmixed \ {id}
        /\ \/ UNCHANGED <<ended, snapshot, failed>>
           \/ /\ ~voices[id].paused
              /\ ended' = ended \union {id}
              /\ \/ /\ snapshot' = [snapshot EXCEPT ![id] = Ending(snapshot[id])]
                    /\ UNCHANGED failed
                 \/ failed' = failed \union {id} /\ UNCHANGED snapshot
  BY DEF MixVoice
<1>2. UNCHANGED <<worker, voices, stopped>>
  BY DEF MixVoice
<1>3. BlockInv'
  BY <1>1, <1>2 DEF MixVoice, TruthInv, BlockInv
<1>4. /\ id \in DOMAIN snapshot /\ id \in DOMAIN voices \ ended
      /\ snapshot \in [DOMAIN snapshot -> Snapshots] /\ GoesOn(id)
  BY DEF TruthInv, BlockInv, SnapshotInv, ProtocolInv, MixerTyped
<1>5. CASE UNCHANGED <<ended, snapshot, failed>>
  <2>1. SnapshotInv'
    BY <1>2, <1>5 DEF TruthInv, SnapshotInv, GoesOn, Ends, Gone
  <2> QED
    BY <1>3, <2>1 DEF TruthInv
<1>6. CASE /\ ~voices[id].paused /\ ended' = ended \union {id}
           /\ snapshot' = [snapshot EXCEPT ![id] = Ending(snapshot[id])] /\ UNCHANGED failed
  <2>1. /\ DOMAIN snapshot' = DOMAIN snapshot /\ snapshot'[id] = Ending(snapshot[id])
        /\ \A i \in DOMAIN snapshot \ {id} : snapshot'[i] = snapshot[i]
    BY <1>4, <1>6
  <2>2. Ends(id)'
    BY <1>2, <1>4, <1>6, <2>1, HaltedTyped DEF Ends, GoesOn
  <2>3. \A i \in DOMAIN snapshot \ {id} :
          /\ i \in DOMAIN voices' \ ended' => GoesOn(i)'
          /\ i \in ended' => Ends(i)'
          /\ i \notin DOMAIN voices' => Gone(i)'
    BY <1>2, <1>6, <2>1 DEF TruthInv, SnapshotInv, GoesOn, Ends, Gone
  <2>4. SnapshotInv'
    BY <1>2, <1>4, <1>6, <2>1, <2>2, <2>3 DEF SnapshotInv
  <2> QED
    BY <1>3, <2>4 DEF TruthInv
<1>7. CASE /\ ~voices[id].paused /\ ended' = ended \union {id}
           /\ failed' = failed \union {id} /\ UNCHANGED snapshot
  <2>1. Ends(id)'
    BY <1>2, <1>4, <1>7 DEF Ends, GoesOn
  <2>2. \A i \in DOMAIN snapshot \ {id} :
          /\ i \in DOMAIN voices' \ ended' => GoesOn(i)'
          /\ i \in ended' => Ends(i)'
          /\ i \notin DOMAIN voices' => Gone(i)'
    BY <1>2, <1>7 DEF TruthInv, SnapshotInv, GoesOn, Ends, Gone
  <2>3. SnapshotInv'
    BY <1>2, <1>4, <1>7, <2>1, <2>2 DEF SnapshotInv
  <2> QED
    BY <1>3, <2>3 DEF TruthInv
<1> QED
  BY <1>1, <1>5, <1>6, <1>7

\* The end of a block takes out the voices that ended or failed in it.
LEMMA TruthBlockEnds == TruthInv /\ EndBlock => TruthInv'
<1> SUFFICES ASSUME TruthInv, EndBlock PROVE TruthInv'
  OBVIOUS
<1>1. /\ worker' = "mixed" /\ ended' = {} /\ unmixed = {}
      /\ UNCHANGED <<unmixed, snapshot, stopped, failed>>
  BY DEF EndBlock, ghostVars
<1>2. /\ DOMAIN voices' = DOMAIN voices \ ended
      /\ \A i \in DOMAIN voices' : voices'[i] = voices[i]
  BY DEF EndBlock, Restrict
<1>3. BlockInv'
  BY <1>1 DEF BlockInv
<1>4. \A i \in DOMAIN snapshot : Ends(i) => Gone(i)
  BY DEF Ends, Gone
<1>5. SnapshotInv'
  BY <1>1, <1>2, <1>4 DEF TruthInv, SnapshotInv, BlockInv, GoesOn, Gone
<1> QED
  BY <1>3, <1>5 DEF TruthInv

\* The device fails outside of a block, so every voice there is goes on.
LEMMA TruthDeviceFails ==
  ASSUME ProtocolInv, TruthInv, FailAllVoices, worker # "mixing", worker' # "mixing",
         UNCHANGED <<unmixed, ended, stopped, failed>>
  PROVE  TruthInv'
<1>1. /\ DOMAIN voices' = {} /\ DOMAIN snapshot' = DOMAIN snapshot
      /\ \A i \in DOMAIN snapshot :
           snapshot'[i] = IF i \in DOMAIN voices
                          THEN [Halted(snapshot[i]) EXCEPT !.error = TRUE] ELSE snapshot[i]
  BY DEF FailAllVoices, Restrict
<1>2. ended = {} /\ BlockInv'
  BY DEF TruthInv, BlockInv
<1>3. ASSUME NEW i \in DOMAIN snapshot, i \in DOMAIN voices PROVE Gone(i)'
  <2>1. snapshot[i] \in Snapshots /\ GoesOn(i)
    BY <1>2, <1>3 DEF TruthInv, SnapshotInv, ProtocolInv, MixerTyped
  <2>2. /\ Halted(snapshot[i]) \in Snapshots /\ Halted(snapshot[i]).ends = 0
        /\ ~Halted(snapshot[i]).playing /\ ~Halted(snapshot[i]).paused
    BY <2>1, HaltedTyped DEF GoesOn
  <2>3. /\ snapshot'[i].ends = 0 /\ snapshot'[i].error
        /\ ~snapshot'[i].playing /\ ~snapshot'[i].paused
    BY <1>1, <1>3, <2>2 DEF Snapshots
  <2> QED
    BY <2>3 DEF Gone
<1>4. ASSUME NEW i \in DOMAIN snapshot, i \notin DOMAIN voices PROVE Gone(i)'
  BY <1>1, <1>4 DEF TruthInv, SnapshotInv, Gone
<1>5. SnapshotInv'
  BY <1>1, <1>2, <1>3, <1>4 DEF SnapshotInv
<1> QED
  BY <1>2, <1>5 DEF TruthInv

\* Every step keeps the snapshots true.
LEMMA TruthStep == ProtocolInv /\ TruthInv /\ [AudioNext]_audioVars => TruthInv'
<1> SUFFICES ASSUME ProtocolInv, TruthInv, [AudioNext]_audioVars PROVE TruthInv'
  OBVIOUS
<1> USE DEF mixVars, ghostVars
<1>1. CASE Asks \/ JoinGivesUp \/ Owner
  BY <1>1, TruthOwner
<1>2. CASE BeginBlock \/ NextBlock
  <2>1. /\ worker # "mixing" /\ unmixed' = DOMAIN voices /\ worker' = "mixing"
        /\ UNCHANGED <<voices, ended, snapshot, stopped, failed>>
    BY <1>2 DEF BeginBlock, NextBlock
  <2> QED
    BY <2>1 DEF TruthInv, BlockInv, SnapshotInv, GoesOn, Ends, Gone
<1>3. CASE QueueFilled
  BY <1>3, TruthApart DEF QueueFilled
<1>4. CASE PutFails
  BY <1>4, TruthDeviceFails DEF PutFails
<1>5. CASE QueueFails
  BY <1>5, TruthDeviceFails DEF QueueFails
<1>6. CASE WorkerEnds
  BY <1>6, TruthApart DEF WorkerEnds
<1>7. CASE UNCHANGED audioVars
  BY <1>7, TruthApart DEF audioVars
<1> QED
  BY <1>1, <1>2, <1>3, <1>4, <1>5, <1>6, <1>7, TruthAdd, TruthStopped, TruthUpdated,
     TruthMixed, TruthBlockEnds DEF AudioNext, Worker

\* The invariant says all that the property says.
LEMMA TruthSuffices == ProtocolInv /\ TruthInv => PlaybackTruthful
<1> SUFFICES ASSUME ProtocolInv, TruthInv, NEW id \in DOMAIN snapshot
             PROVE  LET s == snapshot[id] IN
                    /\ s.playing => id \in failed \/ (id \in DOMAIN voices /\ ~voices[id].paused)
                    /\ s.paused => id \in DOMAIN voices /\ voices[id].paused
                    /\ id \in DOMAIN voices \ ended => s.playing = ~s.paused
                    /\ id \notin DOMAIN voices =>
                         id \in stopped \union failed \/ s.ends = 1 \/ s.error
                    /\ s.ends <= 1 /\ (s.ends = 1 => ~s.error)
  BY DEF PlaybackTruthful
<1>1. ended \subseteq DOMAIN voices
  BY DEF TruthInv, BlockInv
<1>2. CASE id \in DOMAIN voices \ ended
  <2>1. /\ snapshot[id].ends = 0 /\ ~snapshot[id].error
        /\ snapshot[id].paused = voices[id].paused
        /\ snapshot[id].playing = ~voices[id].paused
    BY <1>2 DEF TruthInv, SnapshotInv, GoesOn
  <2>2. snapshot[id].ends <= 1 /\ snapshot[id].ends # 1
    BY <2>1
  <2> QED
    BY <1>2, <2>1, <2>2, Zenon
<1>3. CASE id \in ended
  BY <1>1, <1>3 DEF TruthInv, SnapshotInv, Ends
<1>4. CASE id \notin DOMAIN voices
  BY <1>1, <1>4 DEF TruthInv, SnapshotInv, Gone
<1> QED
  BY <1>2, <1>3, <1>4

\* What a playback says of itself is so, with any number of objects, voices and ids:
\* it plays or pauses as its voice does, has ended once at most, and is gone for a
\* reason (mix_block, Voice::stop, update, fail_all_voices).
THEOREM TruthCorrect == AudioSpec => []PlaybackTruthful
<1>1. AudioInit /\ [][AudioNext]_audioVars /\ []ProtocolInv => []TruthInv
  BY TruthInit, TruthStep, PTL
<1>2. AudioSpec => AudioInit /\ [][AudioNext]_audioVars
  BY PTL DEF AudioSpec
<1> QED
  BY <1>1, <1>2, ProtocolCorrect, TruthSuffices, PTL

-----------------------------------------------------------------------------
(* AudioMixer: the ends delivered.                                         *)

\* No end is delivered at first.
LEMMA DeliveryInit == AudioInit => DeliveryInv
BY DEF AudioInit, DeliveryInv, EndDeliveredOnce, Objects, Added

\* No callback runs, no end is forgotten, and an object at most gives up its playback.
LEMMA DeliveryKept ==
  ASSUME ProtocolInv, ProtocolInv', DeliveryInv, UNCHANGED <<taken, delivered>>,
         \A o \in Objects : playback'[o] \in {0, playback[o]},
         \A id \in DOMAIN snapshot :
           id \in DOMAIN snapshot' /\ snapshot'[id].ends >= snapshot[id].ends,
         Added' => delivered[nextId' - 1] = 0
  PROVE  DeliveryInv'
<1>1. \A id \in 1 .. MaxIds :
        delivered'[id] <= IF id \in DOMAIN snapshot' THEN snapshot'[id].ends ELSE 0
  <2>1. TAKE id \in 1 .. MaxIds
  <2>2. delivered[id] \in Nat /\ delivered'[id] = delivered[id]
    BY DEF ProtocolInv, OwnerTyped
  <2>3. CASE id \in DOMAIN snapshot
    <3>1. delivered[id] <= snapshot[id].ends
      BY <2>3 DEF DeliveryInv, EndDeliveredOnce
    <3>2. /\ id \in DOMAIN snapshot' /\ snapshot'[id].ends >= snapshot[id].ends
          /\ snapshot[id].ends \in Nat /\ snapshot'[id].ends \in Nat
      BY <2>3 DEF ProtocolInv, MixerTyped, Snapshots
    <3> QED
      BY <2>2, <3>1, <3>2
  <2>4. CASE id \notin DOMAIN snapshot
    <3>1. delivered[id] <= 0
      BY <2>4 DEF DeliveryInv, EndDeliveredOnce
    <3>2. id \in DOMAIN snapshot' => snapshot'[id].ends \in Nat
      BY DEF ProtocolInv, MixerTyped, Snapshots
    <3> QED
      BY <2>2, <3>1, <3>2
  <2> QED
    BY <2>3, <2>4
<1>2. \A o \in Sounds : playback'[o] # 0 => taken'[o] = delivered'[playback'[o]]
  BY DEF DeliveryInv, EndDeliveredOnce, Objects
<1> QED
  BY <1>1, <1>2 DEF DeliveryInv, EndDeliveredOnce

\* An end is delivered at most once: before it, the object has taken none of this playback.
LEMMA DeliveryObserve ==
  ASSUME ProtocolInv, TruthInv, DeliveryInv, NEW o \in Objects, Observe(o)
  PROVE  DeliveryInv'
<1>1. PICK id \in DOMAIN snapshot : id = playback[o] /\ id \in 1 .. MaxIds
  BY AudioAssumption DEF ProtocolInv, PlaysOne, MixerTyped, IdLeft, Observe
<1>2. /\ o \in Sounds /\ snapshot[id].ends \in Nat /\ snapshot[id].ends <= 1
      /\ snapshot[id].ends # 0 /\ snapshot[id].ends # taken[o]
      /\ taken' = [taken EXCEPT ![o] = snapshot[id].ends]
      /\ delivered' = [delivered EXCEPT ![id] = delivered[id] + 1]
  <2>1. snapshot[id].ends \in Nat /\ snapshot[id].ends <= 1
    BY TruthSuffices DEF PlaybackTruthful, ProtocolInv, MixerTyped, Snapshots
  <2> QED
    BY <1>1, <2>1 DEF Observe
<1>3. /\ taken[o] = delivered[id] /\ delivered[id] <= snapshot[id].ends
      /\ delivered[id] \in Nat
  BY <1>1, <1>2 DEF DeliveryInv, EndDeliveredOnce, Observe, ProtocolInv, OwnerTyped
<1>4. snapshot[id].ends = 1 /\ delivered[id] = 0
  BY <1>2, <1>3
<1>5. /\ taken'[o] = 1 /\ delivered'[id] = 1
      /\ \A p \in Objects \ {o} : taken'[p] = taken[p]
      /\ \A i \in 1 .. MaxIds \ {id} : delivered'[i] = delivered[i]
  BY <1>1, <1>2, <1>4 DEF ProtocolInv, OwnerTyped
<1>6. UNCHANGED <<playback, snapshot>> /\ ~Added'
  BY DEF Observe, Elsewhere, ProtocolInv, OneCaller, Added
<1>7. \A i \in 1 .. MaxIds :
        delivered'[i] <= IF i \in DOMAIN snapshot' THEN snapshot'[i].ends ELSE 0
  BY <1>1, <1>4, <1>5, <1>6 DEF DeliveryInv, EndDeliveredOnce
<1>8. \A p \in Sounds : playback'[p] # 0 => taken'[p] = delivered'[playback'[p]]
  <2>1. TAKE p \in Sounds
  <2>2. HAVE playback'[p] # 0
  <2>3. p \in Objects /\ playback[p] # 0 /\ taken[p] = delivered[playback[p]]
    BY <1>6, <2>2 DEF DeliveryInv, EndDeliveredOnce, Objects
  <2>4. CASE p = o
    BY <1>1, <1>5, <1>6, <2>4
  <2>5. CASE p # o
    <3>1. playback[p] \in 1 .. MaxIds /\ playback[p] # id
      BY <1>1, <2>3, <2>5, AudioAssumption DEF ProtocolInv, PlaysOne, MixerTyped, IdLeft
    <3> QED
      BY <1>5, <1>6, <2>3, <2>5, <3>1
  <2> QED
    BY <2>4, <2>5
<1> QED
  BY <1>6, <1>7, <1>8 DEF DeliveryInv, EndDeliveredOnce

\* A Sound that plays again starts with no end taken, of an id that has none.
LEMMA DeliveryReturn ==
  ASSUME ProtocolInv, ProtocolInv', DeliveryInv, Return PROVE DeliveryInv'
<1>1. /\ reply' = "unsent" /\ owner \in Objects /\ ~Added'
      /\ UNCHANGED <<nextId, snapshot, delivered>>
  BY DEF Return, ProtocolInv, OneCaller, OwnerTyped, Added, ghostVars
<1>2. \/ UNCHANGED <<playback, taken>>
      \/ /\ Added
         /\ playback' = [playback EXCEPT ![owner] = nextId - 1]
         /\ taken' = [taken EXCEPT ![owner] = 0]
  BY DEF Return, Added, ProtocolInv, OneCaller
<1>3. CASE UNCHANGED <<playback, taken>>
  BY <1>1, <1>3 DEF DeliveryInv, EndDeliveredOnce
<1>4. CASE /\ Added
           /\ playback' = [playback EXCEPT ![owner] = nextId - 1]
           /\ taken' = [taken EXCEPT ![owner] = 0]
  <2>1. /\ playback'[owner] = nextId - 1 /\ taken'[owner] = 0
        /\ \A p \in Objects \ {owner} : playback'[p] = playback[p] /\ taken'[p] = taken[p]
    BY <1>1, <1>4 DEF ProtocolInv, OwnerTyped
  <2>2. delivered[nextId - 1] = 0
    BY <1>4 DEF DeliveryInv
  <2> QED
    BY <1>1, <2>1, <2>2 DEF DeliveryInv, EndDeliveredOnce, Objects
<1> QED
  BY <1>2, <1>3, <1>4

\* The id of a new voice was never delivered an end.
LEMMA DeliveryAdd ==
  ASSUME ProtocolInv, ProtocolInv', DeliveryInv, ApplyAdd PROVE DeliveryInv'
<1>1. /\ Applies({"add"}) /\ UNCHANGED <<playback, taken, delivered>>
      /\ Answer(Head(channel), "ok") \/ Answer(Head(channel), "error")
  BY DEF ApplyAdd, Applies
<1>2. /\ Head(channel).awaited /\ calls # <<>> /\ Head(calls).op = "add"
  BY <1>1, CommandTaken DEF Applies
<1>3. /\ nextId \in 1 .. MaxIds /\ nextId \notin DOMAIN snapshot
  <2>1. 1 \in 1 .. Len(calls) /\ calls[1].op = "add"
    BY <1>2 DEF ProtocolInv, OwnerTyped
  <2>2. reply = "awaited"
    BY <1>1, <1>2, CommandTaken
  <2>3. nextId <= MaxIds
    BY <2>1, <2>2 DEF ProtocolInv, IdLeft
  <2>4. nextId \in Nat \ {0} /\ DOMAIN snapshot \subseteq 1 .. nextId - 1
    BY DEF ProtocolInv, MixerTyped
  <2> QED
    BY <2>3, <2>4, AudioAssumption
<1>4. delivered[nextId] = 0
  <2>1. delivered[nextId] \in Nat
    BY <1>3 DEF ProtocolInv, OwnerTyped
  <2>2. delivered[nextId] <= 0
    BY <1>3 DEF DeliveryInv, EndDeliveredOnce
  <2> QED
    BY <2>1, <2>2
<1>5. Added' => nextId' - 1 = nextId
  BY <1>2 DEF ApplyAdd, Answer, Added, ProtocolInv, MixerTyped
<1>6. \A id \in DOMAIN snapshot :
        id \in DOMAIN snapshot' /\ snapshot'[id].ends >= snapshot[id].ends
  <2>1. TAKE id \in DOMAIN snapshot
  <2>2. id \in DOMAIN snapshot' /\ snapshot'[id] = snapshot[id]
    BY <1>3 DEF ApplyAdd, With
  <2>3. snapshot[id].ends \in Nat
    BY DEF ProtocolInv, MixerTyped, Snapshots
  <2> QED
    BY <2>2, <2>3
<1> QED
  BY <1>1, <1>4, <1>5, <1>6, DeliveryKept

\* No step of the thread takes the end of a voice back.
LEMMA EndsKept ==
  ASSUME ProtocolInv, TruthInv, Worker, ~ApplyAdd
  PROVE  \A id \in DOMAIN snapshot :
           id \in DOMAIN snapshot' /\ snapshot'[id].ends >= snapshot[id].ends
<1> USE DEF ghostVars
<1>1. \A id \in DOMAIN snapshot :
        /\ snapshot[id] \in Snapshots /\ snapshot[id].ends \in Nat
        /\ Halted(snapshot[id]).ends = snapshot[id].ends
        /\ Halted(snapshot[id]) \in Snapshots
        /\ Ending(snapshot[id]).ends = snapshot[id].ends + 1
  BY HaltedTyped DEF ProtocolInv, MixerTyped, Snapshots
<1>2. CASE UNCHANGED snapshot
  BY <1>1, <1>2
<1>3. CASE \E id \in DOMAIN snapshot :
             \/ snapshot' = [snapshot EXCEPT ![id] = Halted(snapshot[id])]
             \/ snapshot' = [snapshot EXCEPT ![id] = Ending(snapshot[id])]
  BY <1>1, <1>3
<1>4. CASE FailAllVoices
  <2>1. TAKE id \in DOMAIN snapshot
  <2>2. CASE id \in DOMAIN voices
    <3>1. snapshot'[id] = [Halted(snapshot[id]) EXCEPT !.error = TRUE]
      BY <1>4, <2>2 DEF FailAllVoices
    <3>2. snapshot'[id].ends = Halted(snapshot[id]).ends
      BY <1>1, <3>1 DEF Snapshots
    <3> QED
      BY <1>1, <1>4, <3>2 DEF FailAllVoices
  <2>3. CASE id \notin DOMAIN voices
    BY <1>1, <1>4, <2>3 DEF FailAllVoices
  <2> QED
    BY <2>2, <2>3
<1>5. CASE ApplyUpdate
  <2>1. CASE UNCHANGED snapshot
    BY <1>2, <2>1
  <2>2. CASE snapshot' # snapshot
    <3>1. PICK id, p : snapshot' = [snapshot EXCEPT ![id].playing = ~p, ![id].paused = p]
      BY <1>5, <2>2 DEF ApplyUpdate
    <3>2. \A i \in DOMAIN snapshot :
            i \in DOMAIN snapshot' /\ snapshot'[i].ends = snapshot[i].ends
      BY <1>1, <3>1 DEF Snapshots
    <3> QED
      BY <1>1, <3>2
  <2> QED
    BY <2>1, <2>2
<1>6. CASE ApplyStop
  <2>1. CASE Head(channel).id \in DOMAIN voices
    BY <1>3, <1>6, <2>1 DEF ApplyStop, ProtocolInv, MixerTyped
  <2>2. CASE Head(channel).id \notin DOMAIN voices
    BY <1>2, <1>6, <2>2 DEF ApplyStop
  <2> QED
    BY <2>1, <2>2
<1>7. CASE MixVoice
  <2>1. unmixed \subseteq DOMAIN snapshot
    BY DEF TruthInv, BlockInv, ProtocolInv, MixerTyped
  <2> QED
    BY <1>2, <1>3, <1>7, <2>1 DEF MixVoice
<1> QED
  BY <1>2, <1>4, <1>5, <1>6, <1>7 DEF Worker, BeginBlock, EndBlock, NextBlock,
     QueueFilled, PutFails, QueueFails, WorkerEnds

\* Every step keeps what was delivered within what has ended.
LEMMA DeliveryStep ==
  ProtocolInv /\ ProtocolInv' /\ TruthInv /\ DeliveryInv /\ [AudioNext]_audioVars
    => DeliveryInv'
<1> SUFFICES ASSUME ProtocolInv, ProtocolInv', TruthInv, DeliveryInv, [AudioNext]_audioVars
             PROVE  DeliveryInv'
  OBVIOUS
<1> USE DEF mixVars, ghostVars
<1>1. playback \in [Objects -> Nat] /\ \A id \in DOMAIN snapshot : snapshot[id].ends \in Nat
  BY DEF ProtocolInv, OwnerTyped, MixerTyped, Snapshots
<1>2. ASSUME UNCHANGED snapshot
      PROVE  \A id \in DOMAIN snapshot :
               id \in DOMAIN snapshot' /\ snapshot'[id].ends >= snapshot[id].ends
  BY <1>1, <1>2
<1>3. ASSUME NEW o \in Objects,
             Play(o) \/ Stop(o) \/ Collect(o) \/ Join(o)
               \/ \E op \in {"pause", "resume", "control"} : Control(o, op)
      PROVE  DeliveryInv'
  <2>1. /\ UNCHANGED <<taken, delivered, snapshot>> /\ reply' = "unsent"
        /\ \A p \in Objects : playback'[p] \in {0, playback[p]}
    BY <1>1, <1>3 DEF Play, Stop, Collect, Join, Control, Begin, Elsewhere
  <2> QED
    BY <1>2, <2>1, DeliveryKept DEF Added
<1>4. CASE Asks
  BY <1>3, <1>4, DeliveryObserve DEF Asks
<1>5. CASE JoinGivesUp \/ JoinReturns
  <2>1. /\ UNCHANGED <<taken, delivered, snapshot, reply>> /\ reply = "unsent"
        /\ \A p \in Objects : playback'[p] \in {0, playback[p]}
    <3>1. reply = "unsent"
      BY <1>5 DEF JoinGivesUp, JoinReturns, Waiting, ProtocolInv, OneCaller, OwnerTyped
    <3> QED
      BY <1>1, <1>5, <3>1 DEF JoinGivesUp, JoinReturns, Elsewhere
  <2> QED
    BY <1>2, <2>1, DeliveryKept DEF Added
<1>6. CASE StartManager
  BY <1>1, <1>2, <1>6, DeliveryKept DEF StartManager, ownerVars, Added, DeliveryInv
<1>7. CASE Send
  <2>1. /\ UNCHANGED <<taken, delivered, snapshot, playback>>
        /\ reply' \in {"awaited", "error"}
    BY <1>7 DEF Send
  <2> QED
    BY <1>1, <1>2, <2>1, DeliveryKept DEF Added
<1>8. CASE Worker /\ ~ApplyAdd
  <2>1. UNCHANGED <<taken, delivered, playback, calls, nextId>>
    BY <1>8 DEF Worker, ApplyStop, ApplyUpdate, Applies, BeginBlock, MixVoice, EndBlock,
       NextBlock, QueueFilled, PutFails, QueueFails, WorkerEnds, ownerVars
  <2>2. Added' => Added
    <3>1. CASE UNCHANGED reply
      BY <2>1, <3>1 DEF Added
    <3>2. CASE ApplyStop \/ ApplyUpdate
      <4>1. PICK ops \in {{"stop", "close"}, {"pause", "resume", "control"}},
                 answer \in {"ok", "error"} :
              Applies(ops) /\ Answer(Head(channel), answer)
        BY <3>2 DEF ApplyStop, ApplyUpdate
      <4>2. reply' = reply \/ Head(calls).op = Head(channel).op
        BY <4>1, CommandTaken
      <4>3. Head(channel).op # "add"
        BY <4>1 DEF Applies
      <4> QED
        BY <2>1, <4>2, <4>3 DEF Added
    <3>3. CASE WorkerEnds
      BY <2>1, <3>3 DEF WorkerEnds, Added
    <3> QED
      BY <1>8, <3>1, <3>2, <3>3 DEF Worker, BeginBlock, MixVoice, EndBlock,
         NextBlock, QueueFilled, PutFails, QueueFails, ownerVars
  <2> QED
    BY <1>1, <1>8, <2>1, <2>2, EndsKept, DeliveryKept DEF DeliveryInv
<1>9. CASE UNCHANGED audioVars
  BY <1>1, <1>2, <1>9, DeliveryKept DEF audioVars, ownerVars, Added, DeliveryInv
<1> QED
  BY <1>4, <1>5, <1>6, <1>7, <1>8, <1>9, DeliveryReturn, DeliveryAdd
     DEF AudioNext, Owner, Worker

\* The callbacks of a playback that reached its end run at most once, and never those of
\* another, however often a Sound is played again and asked (take_ended,
\* _poll_ended, Sound.play).
THEOREM DeliveryCorrect == AudioSpec => []EndDeliveredOnce
<1>1. AudioInit /\ [][AudioNext]_audioVars /\ []ProtocolInv => []TruthInv
  BY TruthInit, TruthStep, PTL
<1>2. AudioInit /\ [][AudioNext]_audioVars /\ []ProtocolInv /\ []TruthInv => []DeliveryInv
  BY DeliveryInit, DeliveryStep, PTL
<1>3. AudioSpec => AudioInit /\ [][AudioNext]_audioVars
  BY PTL DEF AudioSpec
<1>4. DeliveryInv => EndDeliveredOnce
  BY DEF DeliveryInv
<1> QED
  BY <1>1, <1>2, <1>3, <1>4, ProtocolCorrect, PTL

-----------------------------------------------------------------------------
(* AudioMixer: who answers for a voice: the calls.                         *)

\* There are no calls at first.
LEMMA CallsInit == AudioInit => CallsInv
BY DEF AudioInit, CallsInv, CallsMatch, Unheard

\* The calls that Closing asks for, one by one.
LEMMA ClosingCalls ==
  ASSUME OwnerTyped, NEW o \in Objects, playback[o] # 0
  PROVE  /\ Len(Closing(o)) = 2
         /\ Closing(o)[1] = CallOf("stop", playback[o])
         /\ Closing(o)[2] = CallOf("close", playback[o])
         /\ Closing(o)[1].id = playback[o]
<1>1. /\ Len(Closing(o)) = 2
      /\ Closing(o)[1] = CallOf("stop", playback[o])
      /\ Closing(o)[2] = CallOf("close", playback[o])
  BY DEF Closing
<1>2. CallOf("stop", playback[o]).id = playback[o]
  BY DEF CallOf
<1> QED
  BY <1>1, <1>2

\* The first calls of a method match, whatever its owner is.
LEMMA CallsOfMethod ==
  ASSUME OwnerTyped, NEW o \in Objects, NEW s \in Seq(Calls),
         \/ s = Closing(o)
         \/ s = Append(Closing(o), CallOf("add", 0)) /\ playback'[o] = 0
         \/ s = <<CallOf("close", playback[o])>>
         \/ /\ \E op \in {"pause", "resume", "control", "wait"} : s = <<CallOf(op, playback[o])>>
            /\ playback'[o] = playback[o],
         calls' = s, owner' = o
  PROVE  CallsMatch'
<1>1. CASE s = Closing(o)
  <2>1. CASE playback[o] = 0
    BY <1>1, <2>1, ClosingTyped DEF CallsMatch
  <2>2. CASE playback[o] # 0
    <3>1. /\ Len(s) = 2 /\ s[1] = CallOf("stop", playback[o])
          /\ s[2] = CallOf("close", playback[o])
      BY <1>1, <2>2, ClosingCalls
    <3> QED
      BY <3>1 DEF CallsMatch, CallOf
  <2> QED
    BY <2>1, <2>2
<1>2. CASE s = Append(Closing(o), CallOf("add", 0)) /\ playback'[o] = 0
  <2>1. CASE playback[o] = 0
    <3>1. Len(s) = 1 /\ s[1] = CallOf("add", 0)
      BY <1>2, <2>1, ClosingTyped
    <3> QED
      BY <1>2, <3>1 DEF CallsMatch, CallOf
  <2>2. CASE playback[o] # 0
    <3>1. /\ Len(s) = 3 /\ s[1] = CallOf("stop", playback[o])
          /\ s[2] = CallOf("close", playback[o]) /\ s[3] = CallOf("add", 0)
      BY <1>2, <2>2, ClosingTyped, ClosingCalls
    <3> QED
      BY <1>2, <3>1 DEF CallsMatch, CallOf
  <2> QED
    BY <2>1, <2>2
<1>3. CASE s = <<CallOf("close", playback[o])>>
  BY <1>3 DEF CallsMatch, CallOf
<1>4. CASE /\ \E op \in {"pause", "resume", "control", "wait"} : s = <<CallOf(op, playback[o])>>
           /\ playback'[o] = playback[o]
  <2>1. PICK op \in {"pause", "resume", "control", "wait"} : s = <<CallOf(op, playback[o])>>
    BY <1>4
  <2>2. Len(s) = 1 /\ s[1] = CallOf(op, playback[o])
    BY <2>1
  <2> QED
    BY <1>4, <2>2 DEF CallsMatch, CallOf
<1> QED
  BY <1>1, <1>2, <1>3, <1>4

\* Every method begins with calls that match.
LEMMA CallsAsked == ProtocolInv /\ CallsMatch /\ Asks => CallsMatch'
<1> SUFFICES ASSUME ProtocolInv, CallsMatch, NEW o \in Objects,
                    \/ Play(o) \/ Stop(o) \/ Collect(o) \/ Observe(o) \/ Join(o)
                    \/ \E op \in {"pause", "resume", "control"} : Control(o, op)
             PROVE  CallsMatch'
  BY DEF Asks
<1> USE DEF Begin
<1>1. OwnerTyped /\ OwnerTyped'
  <2>1. Asks
    BY DEF Asks
  <2> QED
    BY <2>1, ProtocolStep DEF AudioNext, ProtocolInv
<1>2. /\ calls' \in Seq(Calls) /\ playback[o] \in Nat
      /\ playback' = [playback EXCEPT ![o] = 0] => playback'[o] = 0
  BY <1>1 DEF OwnerTyped
<1>3. CASE Play(o)
  BY <1>1, <1>2, <1>3, CallsOfMethod DEF Play
<1>4. CASE Stop(o)
  BY <1>1, <1>2, <1>4, CallsOfMethod DEF Stop
<1>5. CASE Collect(o)
  BY <1>1, <1>2, <1>5, CallsOfMethod DEF Collect
<1>6. CASE Observe(o)
  BY <1>6 DEF Observe, CallsMatch
<1>7. CASE Join(o)
  BY <1>1, <1>2, <1>7, CallsOfMethod DEF Join
<1>8. ASSUME NEW op \in {"pause", "resume", "control"}, Control(o, op) PROVE CallsMatch'
  BY <1>1, <1>2, <1>8, CallsOfMethod DEF Control
<1> QED
  BY <1>3, <1>4, <1>5, <1>6, <1>7, <1>8

\* What remains of matching calls matches.
LEMMA CallsReturn == ProtocolInv /\ CallsMatch /\ Return => CallsMatch'
<1> SUFFICES ASSUME ProtocolInv, CallsMatch, Return PROVE CallsMatch'
  OBVIOUS
<1>1. calls # <<>> /\ OwnerTyped
  BY DEF Return, ProtocolInv, OneCaller
<1> DEFINE rest == Tail(calls)
           kept == Finally(rest)
<1>2. /\ rest \in Seq(Calls) /\ Len(rest) = Len(calls) - 1
      /\ \A k \in 1 .. Len(rest) : rest[k] = calls[k + 1]
      /\ kept \in Seq(Calls)
      /\ kept # <<>> => Len(kept) = 1 /\ kept[1].op = "close"
      /\ Head(calls) = calls[1] /\ Len(calls) \in Nat /\ Len(calls) > 0
  BY <1>1, RestOfCalls DEF OwnerTyped
<1>3. calls' \in {rest, kept}
  BY DEF Return
<1>4. calls' # <<>> => owner' = owner
  BY DEF Return
<1>5. calls' # <<>> => Head(calls).op # "add"
  <2>1. Head(calls).op = "add" => Len(calls) = 1
    <3>1. 1 \in 1 .. Len(calls) /\ Head(calls) = calls[1]
      BY <1>2
    <3> QED
      BY <3>1 DEF ProtocolInv, IdLeft
  <2>2. Len(rest) = 0 => rest = <<>>
    <3> HIDE DEF rest
    <3> QED
      BY <1>2
  <2>3. rest = <<>> => kept = <<>>
    BY DEF Finally
  <2> QED
    BY <1>2, <1>3, <2>1, <2>2, <2>3
<1>6. calls' # <<>> => UNCHANGED playback
  BY <1>5 DEF Return
<1> HIDE DEF rest, kept
<1>7. CASE calls' = rest
  <2>1. CASE rest = <<>>
    BY <1>7, <2>1 DEF CallsMatch
  <2>2. CASE rest # <<>>
    <3>1. owner' = owner /\ UNCHANGED playback
      BY <1>4, <1>6, <1>7, <2>2
    <3>2. \A k \in 1 .. Len(rest) : k + 1 \in 1 .. Len(calls) /\ rest[k] = calls[k + 1]
      BY <1>2
    <3>3. \A k \in 1 .. Len(rest) :
            /\ rest[k].op = "stop" =>
                 k + 1 \in 1 .. Len(rest) /\ rest[k + 1] = CallOf("close", rest[k].id)
            /\ rest[k].op \notin {"pause", "resume", "control", "wait"}
            /\ rest[k].op = "add" => rest[k].id = 0 /\ playback[owner] = 0
            /\ k > 1 => rest[k].op = "add"
      <4>1. TAKE k \in 1 .. Len(rest)
      <4>2. Len(calls) > 1 /\ Len(calls) \in Nat /\ k + 1 # 1
        BY <1>2, <4>1
      <4>3. /\ calls[k + 1].op = "stop" =>
                 /\ (k + 1) + 1 \in 1 .. Len(calls)
                 /\ calls[(k + 1) + 1] = CallOf("close", calls[k + 1].id)
            /\ calls[k + 1].op \notin {"pause", "resume", "control", "wait"}
            /\ calls[k + 1].op = "add" => calls[k + 1].id = 0 /\ playback[owner] = 0
            /\ k > 1 => calls[k + 1].op = "add"
        BY <3>2, <4>1, <4>2 DEF CallsMatch
      <4>4. (k + 1) + 1 \in 1 .. Len(calls) =>
              k + 1 \in 1 .. Len(rest) /\ rest[k + 1] = calls[(k + 1) + 1]
        BY <1>2, <4>1
      <4> QED
        BY <3>2, <4>1, <4>3, <4>4
    <3> QED
      BY <1>7, <3>1, <3>3 DEF CallsMatch
  <2> QED
    BY <2>1, <2>2
<1>8. CASE calls' = kept
  <2>1. kept = <<>> => Len(kept) = 0
    OBVIOUS
  <2>2. \A k \in 1 .. Len(kept) : kept[k].op = "close" /\ k = 1
    <3>1. CASE kept = <<>>
      BY <2>1, <3>1
    <3>2. CASE kept # <<>>
      <4>1. Len(kept) = 1 /\ kept[1].op = "close"
        BY <1>2, <3>2
      <4> QED
        BY <4>1
    <3> QED
      BY <3>1, <3>2
  <2> QED
    BY <1>8, <2>2 DEF CallsMatch
<1> QED
  BY <1>3, <1>7, <1>8

\* Every step keeps the calls matching, and the voices of a thread that is gone away.
LEMMA CallsStep == ProtocolInv /\ CallsInv /\ [AudioNext]_audioVars => CallsInv'
<1> SUFFICES ASSUME ProtocolInv, CallsInv, [AudioNext]_audioVars PROVE CallsInv'
  OBVIOUS
<1> USE DEF mixVars, ghostVars, ownerVars, CallsInv
<1>1. CallsMatch'
  <2>1. CASE UNCHANGED <<calls, owner, playback>>
    BY <2>1 DEF CallsMatch
  <2>2. CASE JoinGivesUp
    <3>1. CASE calls' = <<>>
      BY <3>1 DEF CallsMatch
    <3>2. CASE calls' # <<>>
      <4>1. /\ calls' = Closing(owner) /\ UNCHANGED owner
            /\ OwnerTyped /\ OwnerTyped' /\ owner \in Objects
        BY <2>2, <3>2, ProtocolJoinGivesUp
           DEF JoinGivesUp, Waiting, ProtocolInv, OneCaller, OwnerTyped
      <4>2. calls' \in Seq(Calls)
        BY <4>1 DEF OwnerTyped
      <4> QED
        BY <4>1, <4>2, CallsOfMethod
    <3> QED
      BY <3>1, <3>2
  <2>3. CASE JoinReturns
    <3>1. PICK i : calls' = <<CallOf("close", i)>>
      BY <2>3 DEF JoinReturns
    <3> QED
      BY <3>1 DEF CallsMatch, CallOf
  <2>4. CASE Asks
    BY <2>4, CallsAsked
  <2>5. CASE Return
    BY <2>5, CallsReturn
  <2>6. CASE StartManager \/ Send \/ Worker \/ UNCHANGED audioVars
    <3>1. UNCHANGED <<calls, owner, playback>>
      BY <2>6 DEF StartManager, Send, Worker, ApplyAdd, ApplyStop, ApplyUpdate, Applies,
         BeginBlock, MixVoice, EndBlock, NextBlock, QueueFilled, PutFails, QueueFails,
         WorkerEnds, audioVars
    <3> QED
      BY <2>1, <3>1
  <2> QED
    BY <2>2, <2>3, <2>4, <2>5, <2>6 DEF AudioNext, Owner
<1>2. Unheard'
  <2>1. CASE UNCHANGED <<worker, voices>>
    BY <2>1 DEF Unheard
  <2>2. CASE Worker
    <3>1. CASE FailAllVoices
      BY <3>1 DEF FailAllVoices, Restrict, Unheard
    <3>2. CASE worker' \in {"commands", "mixing", "mixed"}
      BY <3>2 DEF Unheard
    <3>3. CASE WorkerEnds
      BY <3>3 DEF WorkerEnds, Unheard
    <3> QED
      BY <2>2, <3>1, <3>2, <3>3 DEF Worker, ApplyAdd, ApplyStop, ApplyUpdate, Applies,
         BeginBlock, MixVoice, EndBlock, NextBlock, QueueFilled, PutFails, QueueFails
  <2>3. CASE StartManager
    BY <2>3 DEF StartManager, Unheard
  <2>4. CASE Asks \/ JoinGivesUp \/ Send \/ Return \/ JoinReturns \/ UNCHANGED audioVars
    <3>1. UNCHANGED <<worker, voices>>
      BY <2>4 DEF Asks, Play, Stop, Collect, Observe, Join, Control, Elsewhere, JoinGivesUp,
         Send, Return, JoinReturns, audioVars
    <3> QED
      BY <2>1, <3>1
  <2> QED
    BY <2>2, <2>3, <2>4 DEF AudioNext, Owner
<1> QED
  BY <1>1, <1>2

-----------------------------------------------------------------------------
(* AudioMixer: who answers for a voice: how many there are.                *)

\* Ids are numbers below the next one, so there are finitely many voices.
LEMMA VoicesFinite ==
  ASSUME ProtocolInv
  PROVE  IsFiniteSet(DOMAIN voices) /\ Cardinality(DOMAIN voices) \in Nat
<1>1. nextId - 1 \in Int /\ DOMAIN voices \in SUBSET (1 .. nextId - 1)
  BY DEF ProtocolInv, MixerTyped
<1>2. IsFiniteSet(1 .. nextId - 1)
  BY <1>1, FS_Interval
<1>3. IsFiniteSet(DOMAIN voices)
  BY <1>1, <1>2, FS_Subset
<1> QED
  BY <1>3, FS_CardinalityType

\* No voice is counted at first.
LEMMA CountInit == AudioInit => CountInv
<1> SUFFICES ASSUME AudioInit PROVE CountInv
  OBVIOUS
<1>1. DOMAIN voices = {} /\ active = 0 /\ limit \in Nat
  BY AudioAssumption DEF AudioInit
<1> QED
  BY <1>1, FS_EmptySet DEF CountInv

\* A device error takes all voices out at once, and their number off the count.
LEMMA CountDeviceFails ==
  ASSUME ProtocolInv, CountInv, FailAllVoices, UNCHANGED limit PROVE CountInv'
<1>1. DOMAIN voices' = {} /\ active' = active - Cardinality(DOMAIN voices)
  BY DEF FailAllVoices, Restrict
<1>2. limit \in Nat
  BY DEF ProtocolInv, MixerTyped
<1>3. active' = 0
  BY <1>1, VoicesFinite DEF CountInv
<1> QED
  BY <1>1, <1>2, <1>3, FS_EmptySet DEF CountInv

\* Every step counts the voices it makes and takes out, and makes none at the limit.
LEMMA CountStep == ProtocolInv /\ TruthInv /\ CountInv /\ [AudioNext]_audioVars => CountInv'
<1> SUFFICES ASSUME ProtocolInv, TruthInv, CountInv, [AudioNext]_audioVars PROVE CountInv'
  OBVIOUS
<1> USE DEF mixVars, ghostVars
<1>1. ASSUME UNCHANGED <<active, voices, limit>> PROVE CountInv'
  BY <1>1 DEF CountInv
<1>2. /\ IsFiniteSet(DOMAIN voices) /\ Cardinality(DOMAIN voices) \in Nat /\ limit \in Nat
  BY VoicesFinite DEF ProtocolInv, MixerTyped
<1>3. CASE ApplyAdd
  <2>1. CASE UNCHANGED voices
    <3>1. CASE UNCHANGED active
      BY <1>1, <1>3, <2>1, <3>1 DEF ApplyAdd, Applies
    <3>2. CASE active' # active
      <4>1. voices' = With(voices, nextId, [paused |-> FALSE, synth |-> owner \in Tracks])
        BY <1>3, <3>2 DEF ApplyAdd
      <4>2. nextId \in DOMAIN voices' /\ nextId \notin DOMAIN voices
        BY <4>1 DEF With, ProtocolInv, MixerTyped
      <4> QED
        BY <2>1, <4>2
    <3> QED
      BY <3>1, <3>2
  <2>2. CASE voices' # voices
    <3>1. /\ voices' = With(voices, nextId, [paused |-> FALSE, synth |-> owner \in Tracks])
          /\ active' = active + 1 /\ limit' = limit
          /\ ~(Cardinality(DOMAIN voices) >= limit)
      BY <1>2, <1>3, <2>2 DEF ApplyAdd, Applies
    <3>2. nextId \notin DOMAIN voices /\ DOMAIN voices' = DOMAIN voices \union {nextId}
      BY <3>1 DEF With, ProtocolInv, MixerTyped
    <3>3. Cardinality(DOMAIN voices') = Cardinality(DOMAIN voices) + 1
      BY <1>2, <3>2, FS_AddElement
    <3> QED
      BY <1>2, <3>1, <3>3 DEF CountInv
  <2> QED
    BY <2>1, <2>2
<1>4. CASE ApplyStop
  <2>1. PICK id : id = Head(channel).id
    OBVIOUS
  <2>2. CASE id \in DOMAIN voices
    <3>1. DOMAIN voices' = DOMAIN voices \ {id} /\ active' = active - 1 /\ limit' = limit
      BY <1>4, <2>1, <2>2 DEF ApplyStop, Applies, Restrict
    <3>2. Cardinality(DOMAIN voices') = Cardinality(DOMAIN voices) - 1
      BY <1>2, <2>2, <3>1, FS_RemoveElement
    <3> QED
      BY <1>2, <3>1, <3>2 DEF CountInv
  <2>3. CASE id \notin DOMAIN voices
    BY <1>1, <1>4, <2>1, <2>3 DEF ApplyStop, Applies
  <2> QED
    BY <2>2, <2>3
<1>5. CASE ApplyUpdate
  <2>1. DOMAIN voices' = DOMAIN voices /\ UNCHANGED <<active, limit>>
    BY <1>5 DEF ApplyUpdate, Applies
  <2> QED
    BY <2>1 DEF CountInv
<1>6. CASE EndBlock
  <2>1. /\ DOMAIN voices' = DOMAIN voices \ ended /\ limit' = limit
        /\ active' = active - Cardinality(ended)
    BY <1>6 DEF EndBlock, Restrict
  <2>2. ended \in SUBSET DOMAIN voices
    BY DEF TruthInv, BlockInv
  <2>3. DOMAIN voices \cap ended = ended
    BY <2>2
  <2>4. IsFiniteSet(ended) /\ Cardinality(ended) \in Nat
    <3>1. IsFiniteSet(ended)
      BY <1>2, <2>2, FS_Subset
    <3> QED
      BY <3>1, FS_CardinalityType
  <2>5. Cardinality(DOMAIN voices') = Cardinality(DOMAIN voices) - Cardinality(ended)
    BY <1>2, <2>1, <2>3, FS_Difference
  <2> QED
    BY <1>2, <2>1, <2>4, <2>5 DEF CountInv
<1>7. CASE PutFails
  BY <1>7, CountDeviceFails DEF PutFails
<1>8. CASE QueueFails
  BY <1>8, CountDeviceFails DEF QueueFails
<1>9. CASE \/ BeginBlock \/ MixVoice \/ NextBlock \/ QueueFilled \/ WorkerEnds
           \/ Asks \/ JoinGivesUp \/ Owner \/ UNCHANGED audioVars
  <2>1. UNCHANGED <<active, voices, limit>>
    BY <1>9 DEF BeginBlock, MixVoice, NextBlock, QueueFilled, WorkerEnds, Asks, Play, Stop,
       Collect, Observe, Join, Control, Elsewhere, JoinGivesUp, Owner, StartManager, Send,
       Return, JoinReturns, audioVars
  <2> QED
    BY <1>1, <2>1
<1> QED
  BY <1>3, <1>4, <1>5, <1>6, <1>7, <1>8, <1>9 DEF AudioNext, Worker

-----------------------------------------------------------------------------
(* AudioMixer: who answers for a voice: each one is answered for.          *)

\* There is no voice at first.
LEMMA AnswerInit == AudioInit => AnswerInv
BY DEF AudioInit, AnswerInv

\* A method that begins, or goes on after its join, calls for the playback it takes
\* from its object.
LEMMA AnswerMethod ==
  ASSUME ProtocolInv, NEW o \in Objects, NEW id, AnsweredFor(id),
         calls = <<>> \/ (Waiting /\ Len(calls) = 1 /\ Head(calls).id = playback[o]),
         UNCHANGED channel,
         playback'[o] = playback[o]
           \/ playback[o] # id \/ \E k \in 1 .. Len(calls') : calls'[k].id = id,
         \A p \in Objects \ {o} : playback'[p] = playback[p]
  PROVE  AnsweredFor(id)'
<1>1. CASE \E p \in Objects : playback[p] = id
  BY <1>1 DEF AnsweredFor
<1>2. CASE \E k \in 1 .. Len(calls) : calls[k].id = id
  <2>1. calls # <<>> /\ Len(calls) = 1 /\ Head(calls) = calls[1]
    BY <1>2 DEF ProtocolInv, OwnerTyped
  <2>2. playback[o] = id
    BY <1>2, <2>1
  <2> QED
    BY <1>1, <2>2
<1>3. CASE \E k \in 1 .. Len(channel) : channel[k].id = id /\ channel[k].op \in {"stop", "close"}
  BY <1>3 DEF AnsweredFor
<1>4. ~Added
  BY DEF Added, Waiting
<1> QED
  BY <1>1, <1>2, <1>3, <1>4 DEF AnsweredFor

\* Every method asks for the end of the playback that it takes from its object.
LEMMA AnswerAsked == ProtocolInv /\ AnswerInv /\ Asks => AnswerInv'
<1> SUFFICES ASSUME ProtocolInv, AnswerInv, NEW o \in Objects,
                    \/ Play(o) \/ Stop(o) \/ Collect(o) \/ Observe(o) \/ Join(o)
                    \/ \E op \in {"pause", "resume", "control"} : Control(o, op)
             PROVE  AnswerInv'
  BY DEF Asks
<1> USE DEF Begin, Elsewhere
<1>1. /\ calls = <<>> /\ UNCHANGED <<channel, voices>>
      /\ \A p \in Objects \ {o} : playback'[p] = playback[p]
  BY DEF Play, Stop, Collect, Observe, Join, Control, ProtocolInv, OneCaller, OwnerTyped
<1>2. \/ playback'[o] = playback[o]
      \/ playback[o] # 0 => \E k \in 1 .. Len(calls') : calls'[k].id = playback[o]
  <2>1. CASE Observe(o) \/ Join(o) \/ \E op \in {"pause", "resume", "control"} : Control(o, op)
    BY <2>1 DEF Observe, Join, Control
  <2>2. CASE playback[o] = 0
    BY <2>2
  <2>3. CASE playback[o] # 0 /\ (Play(o) \/ Stop(o) \/ Collect(o))
    <3>1. /\ Closing(o) \in Seq(Calls) /\ Len(Closing(o)) = 2
          /\ Closing(o)[1].id = playback[o] /\ 1 \in 1 .. Len(Closing(o))
      BY <2>3, ClosingTyped, ClosingCalls DEF ProtocolInv
    <3>2. CASE calls' = Closing(o)
      BY <3>1, <3>2
    <3>3. CASE calls' = Append(Closing(o), CallOf("add", 0))
      <4>1. CallOf("add", 0) \in Calls
        BY DEF CallOf, Calls, Ops
      <4>2. 1 \in 1 .. Len(calls') /\ calls'[1] = Closing(o)[1]
        BY <3>1, <3>3, <4>1
      <4> QED
        BY <3>1, <4>2
    <3>4. CASE calls' = <<CallOf("close", playback[o])>>
      <4>1. Len(calls') = 1 /\ calls'[1].id = playback[o]
        BY <3>4 DEF CallOf
      <4> QED
        BY <4>1
    <3> QED
      BY <2>3, <3>2, <3>3, <3>4 DEF Play, Stop, Collect
  <2> QED
    BY <2>1, <2>2, <2>3
<1>3. ASSUME NEW id \in DOMAIN voices PROVE AnsweredFor(id)'
  <2>1. id # 0 /\ AnsweredFor(id)
    BY DEF AnswerInv, ProtocolInv, MixerTyped
  <2> QED
    BY <1>1, <1>2, <2>1, AnswerMethod
<1> QED
  BY <1>1, <1>3 DEF AnswerInv

\* So does a join, unless it leaves the playback with its object.
LEMMA AnswerJoin ==
  ProtocolInv /\ CallsInv /\ AnswerInv /\ (JoinReturns \/ JoinGivesUp) => AnswerInv'
<1> SUFFICES ASSUME ProtocolInv, CallsInv, AnswerInv, JoinReturns \/ JoinGivesUp
             PROVE  AnswerInv'
  OBVIOUS
<1>1. PICK o \in Objects : o = owner
  BY DEF JoinReturns, JoinGivesUp, Waiting, ProtocolInv, OneCaller, OwnerTyped
<1>2. /\ Waiting /\ UNCHANGED <<channel, voices>>
      /\ \A p \in Objects \ {o} : playback'[p] = playback[p]
  BY <1>1 DEF JoinReturns, JoinGivesUp, Elsewhere, ProtocolInv, OwnerTyped
<1>3. Len(calls) = 1 /\ Head(calls).id = playback[o] /\ playback[o] # 0
  <2>1. 1 \in 1 .. Len(calls) /\ Head(calls) = calls[1]
    BY <1>2 DEF Waiting, ProtocolInv, OwnerTyped
  <2> QED
    BY <1>1, <1>2, <2>1 DEF Waiting, CallsInv, CallsMatch, ProtocolInv, OneCaller
<1>4. playback'[o] = playback[o] \/ \E k \in 1 .. Len(calls') : calls'[k].id = playback[o]
  <2>1. CASE UNCHANGED playback
    BY <2>1
  <2>2. CASE calls' = <<CallOf("close", Head(calls).id)>>
    <3>1. Len(calls') = 1 /\ calls'[1].id = Head(calls).id
      BY <2>2 DEF CallOf
    <3> QED
      BY <1>3, <3>1
  <2>3. CASE calls' = Closing(owner)
    <3>1. 1 \in 1 .. Len(calls') /\ calls'[1].id = playback[o]
      <4>1. Len(Closing(o)) = 2 /\ Closing(o)[1].id = playback[o]
        BY <1>3, ClosingCalls DEF ProtocolInv
      <4> QED
        BY <1>1, <2>3, <4>1
    <3> QED
      BY <3>1
  <2> QED
    BY <2>1, <2>2, <2>3 DEF JoinReturns, JoinGivesUp
<1>5. ASSUME NEW id \in DOMAIN voices PROVE AnsweredFor(id)'
  <2>1. AnsweredFor(id)
    BY DEF AnswerInv
  <2> QED
    BY <1>2, <1>3, <1>4, <2>1, AnswerMethod
<1> QED
  BY <1>2, <1>5 DEF AnswerInv

\* A call that returns leaves the voice to the next call, to the close of its handle,
\* to the object it controls, or to the one that gets it.
LEMMA AnswerReturn == ProtocolInv /\ CallsInv /\ AnswerInv /\ Return => AnswerInv'
<1> SUFFICES ASSUME ProtocolInv, CallsInv, AnswerInv, Return PROVE AnswerInv'
  OBVIOUS
<1>1. /\ calls # <<>> /\ OwnerTyped /\ owner \in Objects /\ reply \in {"ok", "error"}
      /\ UNCHANGED <<voices, nextId>>
  BY DEF Return, ProtocolInv, OneCaller, OwnerTyped, mixVars
<1> DEFINE rest == Tail(calls)
           kept == Finally(rest)
<1>2. /\ Head(calls) = calls[1] /\ rest \in Seq(Calls) /\ Len(rest) = Len(calls) - 1
      /\ \A k \in 1 .. Len(rest) : rest[k] = calls[k + 1]
      /\ kept \in Seq(Calls)
      /\ kept # <<>> => Len(kept) = 1 /\ kept[1] = rest[1]
      /\ rest # <<>> /\ rest[1].op = "close" => kept # <<>>
      /\ Len(calls) \in Nat /\ Len(calls) > 0
  BY <1>1, RestOfCalls DEF OwnerTyped
<1>3. calls' = IF reply = "ok" THEN rest ELSE kept
  BY DEF Return
<1>4. channel \in Seq(Commands)
  BY DEF ProtocolInv, MixerTyped
<1>5. SUFFICES ASSUME NEW id \in DOMAIN voices PROVE AnsweredFor(id)'
  BY <1>1 DEF AnswerInv
<1>6. AnsweredFor(id) /\ id # 0 /\ Alive
  BY DEF AnswerInv, ProtocolInv, MixerTyped, CallsInv, Unheard, Alive
<1> HIDE DEF rest, kept
<1>7. CASE \E o \in Objects : playback[o] = id
  <2>1. PICK o \in Objects : playback[o] = id
    BY <1>7
  <2>2. CASE o = owner /\ Head(calls).op = "add"
    <3>1. 1 \in 1 .. Len(calls) /\ calls[1].op = "add"
      BY <1>2, <2>2
    <3> QED
      BY <1>6, <2>1, <2>2, <3>1 DEF CallsInv, CallsMatch
  <2>3. CASE ~(o = owner /\ Head(calls).op = "add")
    <3>1. playback'[o] = playback[o]
      BY <1>1, <2>3 DEF Return, OwnerTyped
    <3> QED
      BY <2>1, <3>1 DEF AnsweredFor
  <2> QED
    BY <2>2, <2>3
<1>8. CASE \E k \in 1 .. Len(channel) : channel[k].id = id /\ channel[k].op \in {"stop", "close"}
  <2>1. PICK k \in 1 .. Len(channel) : channel[k].id = id /\ channel[k].op \in {"stop", "close"}
    BY <1>8
  <2>2. PICK c : channel' = channel \/ channel' = Append(channel, c)
    BY DEF Return
  <2>3. k \in 1 .. Len(channel') /\ channel'[k] = channel[k]
    BY <1>4, <2>2
  <2> QED
    BY <2>1, <2>3 DEF AnsweredFor
<1>9. CASE Added /\ id = nextId - 1
  <2>1. playback'[owner] = id
    BY <1>1, <1>9 DEF Return, Added, OwnerTyped
  <2> QED
    BY <1>1, <2>1 DEF AnsweredFor
<1>10. CASE \E k \in 1 .. Len(calls) : calls[k].id = id
  <2>1. PICK k \in 1 .. Len(calls) : calls[k].id = id
    BY <1>10
  <2>2. CASE calls[1].id = id /\ calls[1].op = "close"
    <3> DEFINE c == Command("close", calls[1].id, FALSE)
    <3>1. channel' = Append(channel, c)
      BY <1>2, <1>6, <2>2 DEF Return
    <3>2. c.id = id /\ c.op = "close"
      BY <2>2 DEF Command
    <3> HIDE DEF c
    <3>3. Len(channel) + 1 \in 1 .. Len(channel') /\ channel'[Len(channel) + 1] = c
      BY <1>4, <3>1
    <3> QED
      BY <3>2, <3>3 DEF AnsweredFor
  <2>3. CASE calls[1].id = id /\ calls[1].op = "stop"
    <3>1. 2 \in 1 .. Len(calls) /\ calls[2] = CallOf("close", id)
      <4>1. 1 \in 1 .. Len(calls) /\ 1 + 1 = 2
        BY <1>2
      <4> QED
        BY <2>3, <4>1 DEF CallsInv, CallsMatch
    <3>2. /\ rest # <<>> /\ 1 \in 1 .. Len(rest)
          /\ rest[1].op = "close" /\ rest[1].id = id
      BY <1>2, <3>1 DEF CallOf
    <3>3. 1 \in 1 .. Len(calls') /\ calls'[1].id = id
      BY <1>2, <1>3, <3>2
    <3> QED
      BY <3>3 DEF AnsweredFor
  <2>4. CASE calls[1].id = id /\ calls[1].op \in {"pause", "resume", "control", "wait"}
    <3>1. playback[owner] = id
      BY <1>2, <2>4 DEF CallsInv, CallsMatch
    <3> QED
      BY <1>1, <1>7, <3>1
  <2>5. CASE calls[1].id = id /\ calls[1].op = "add"
    BY <1>2, <1>6, <2>5 DEF CallsInv, CallsMatch
  <2>6. CASE k # 1
    <3>1. k - 1 \in 1 .. Len(rest) /\ rest[k - 1].id = id
      BY <1>2, <2>1, <2>6
    <3>2. CASE reply = "ok"
      BY <1>3, <3>1, <3>2 DEF AnsweredFor
    <3>3. CASE reply = "error"
      <4>1. k = 2 /\ calls[2].op = "close"
        <5>1. calls[k].op # "add"
          BY <1>6, <2>1 DEF CallsInv, CallsMatch
        <5> QED
          BY <1>2, <2>1, <2>6, <5>1 DEF CallsInv, CallsMatch
      <4>2. rest # <<>> /\ rest[1].op = "close" /\ rest[1].id = id
        <5>1. 1 \in 1 .. Len(rest) /\ rest[1] = calls[2]
          BY <1>2, <2>1, <4>1
        <5> QED
          BY <2>1, <4>1, <5>1
      <4>3. 1 \in 1 .. Len(calls') /\ calls'[1].id = id
        BY <1>2, <1>3, <3>3, <4>2
      <4> QED
        BY <4>3 DEF AnsweredFor
    <3> QED
      BY <1>1, <3>2, <3>3
  <2>7. calls[1].op \in Ops
    <3>1. calls[1] \in Calls
      BY <1>1, <1>2 DEF OwnerTyped
    <3> QED
      BY <3>1 DEF Calls
  <2> QED
    BY <2>1, <2>2, <2>3, <2>4, <2>5, <2>6, <2>7 DEF Ops
<1> QED
  BY <1>6, <1>7, <1>8, <1>9, <1>10 DEF AnsweredFor

\* Nobody answers for less when the calls, the objects and the channel stay.
LEMMA AnswerApart ==
  ASSUME AnswerInv, UNCHANGED <<playback, calls, nextId>>, DOMAIN voices' \subseteq DOMAIN voices,
         Added => Added',
         \A k \in 1 .. Len(channel) : k \in 1 .. Len(channel') /\ channel'[k] = channel[k]
  PROVE  AnswerInv'
<1>1. SUFFICES ASSUME NEW id \in DOMAIN voices PROVE AnsweredFor(id)'
  BY DEF AnswerInv
<1>2. AnsweredFor(id)
  BY DEF AnswerInv
<1> QED
  BY <1>2 DEF AnsweredFor

\* A command that is sent adds to the channel only.
LEMMA AnswerSend == ProtocolInv /\ AnswerInv /\ Send => AnswerInv'
<1> SUFFICES ASSUME ProtocolInv, AnswerInv, Send PROVE AnswerInv'
  OBVIOUS
<1>1. PICK c : channel' = channel \/ channel' = Append(channel, c)
  BY DEF Send
<1>2. channel \in Seq(Commands)
  BY DEF ProtocolInv, MixerTyped
<1>3. \A k \in 1 .. Len(channel) : k \in 1 .. Len(channel') /\ channel'[k] = channel[k]
  BY <1>1, <1>2
<1>4. ~Added
  BY DEF Send, Added
<1> QED
  BY <1>3, <1>4, AnswerApart DEF Send, mixVars, ghostVars

\* A command that is applied answers for no voice any more: an add has just made one,
\* which its object gets, a stop or close has taken it out.
LEMMA AnswerAdd == ProtocolInv /\ AnswerInv /\ ApplyAdd => AnswerInv'
<1> SUFFICES ASSUME ProtocolInv, AnswerInv, ApplyAdd PROVE AnswerInv'
  OBVIOUS
<1>1. /\ Applies({"add"}) /\ UNCHANGED <<playback, calls>> /\ Head(channel).op = "add"
      /\ Answer(Head(channel), "ok") \/ Answer(Head(channel), "error")
  BY DEF ApplyAdd, Applies
<1>2. /\ Head(channel).awaited /\ reply = "awaited"
      /\ calls # <<>> /\ Head(calls).op = "add"
  BY <1>1, CommandTaken
<1>3. \A k \in 1 .. Len(channel) : channel[k].op \notin {"stop", "close"}
  <2>1. 1 \in 1 .. Len(channel) /\ Head(channel) = channel[1] /\ Len(channel) \in Nat
    BY <1>1 DEF Applies, ProtocolInv, MixerTyped
  <2>2. Len(channel) = 1
    BY <1>2, <2>1 DEF ProtocolInv, OneCaller
  <2> QED
    BY <1>1, <2>1, <2>2
<1>4. ASSUME NEW id \in DOMAIN voices PROVE AnsweredFor(id)'
  <2>1. AnsweredFor(id) /\ ~Added
    BY <1>2 DEF AnswerInv, Added
  <2> QED
    BY <1>1, <1>3, <2>1 DEF AnsweredFor
<1>5. CASE UNCHANGED voices
  BY <1>4, <1>5 DEF AnswerInv
<1>6. CASE voices' # voices
  <2>1. PICK new : new = nextId
    OBVIOUS
  <2>2. /\ DOMAIN voices' = DOMAIN voices \union {new}
        /\ Answer(Head(channel), "ok") /\ nextId' = new + 1
    BY <1>6, <2>1 DEF ApplyAdd, With
  <2>3. Added'
    BY <1>1, <1>2, <2>2 DEF Answer, Added
  <2>4. AnsweredFor(new)'
    <3>1. new = nextId' - 1
      BY <2>1, <2>2 DEF ProtocolInv, MixerTyped
    <3> QED
      BY <2>3, <3>1 DEF AnsweredFor
  <2> QED
    BY <1>4, <2>2, <2>4 DEF AnswerInv
<1> QED
  BY <1>5, <1>6

\* A stop or close that is applied takes its voice out; the others stay in the channel.
LEMMA AnswerApplied ==
  ASSUME ProtocolInv, AnswerInv, ApplyStop \/ ApplyUpdate PROVE AnswerInv'
<1>1. PICK ops \in {{"stop", "close"}, {"pause", "resume", "control"}},
           answer \in {"ok", "error"} :
        Applies(ops) /\ Answer(Head(channel), answer)
  BY DEF ApplyStop, ApplyUpdate
<1>2. /\ UNCHANGED <<playback, calls, nextId>> /\ Head(channel).op \in ops
      /\ channel # <<>> /\ channel' = Tail(channel)
  BY <1>1 DEF Applies, ApplyStop, ApplyUpdate
<1>3. reply' = reply \/ (calls # <<>> /\ Head(calls).op = Head(channel).op)
  BY <1>1, CommandTaken
<1>4. Added => Added'
  BY <1>2, <1>3 DEF Added
<1>5. /\ Head(channel) = channel[1] /\ Len(channel) \in Nat
      /\ Len(channel') = Len(channel) - 1
      /\ \A k \in 1 .. Len(channel') : channel'[k] = channel[k + 1]
  BY <1>2 DEF ProtocolInv, MixerTyped
<1>6. SUFFICES ASSUME NEW id \in DOMAIN voices' PROVE AnsweredFor(id)'
  BY DEF AnswerInv
<1>7. id \in DOMAIN voices /\ (Head(channel).op \in {"stop", "close"} => id # Head(channel).id)
  <2>1. CASE ApplyUpdate
    BY <2>1 DEF ApplyUpdate, Applies
  <2>2. CASE ApplyStop
    BY <2>2 DEF ApplyStop, Restrict
  <2> QED
    BY <2>1, <2>2
<1>8. CASE \E k \in 1 .. Len(channel) : channel[k].id = id /\ channel[k].op \in {"stop", "close"}
  <2>1. PICK k \in 1 .. Len(channel) : channel[k].id = id /\ channel[k].op \in {"stop", "close"}
    BY <1>8
  <2>2. k # 1
    BY <1>5, <1>7, <2>1
  <2>3. k - 1 \in 1 .. Len(channel') /\ channel'[k - 1] = channel[k]
    BY <1>5, <2>1, <2>2
  <2> QED
    BY <2>1, <2>3 DEF AnsweredFor
<1>9. AnsweredFor(id)
  BY <1>7 DEF AnswerInv
<1> QED
  BY <1>2, <1>4, <1>8, <1>9 DEF AnsweredFor

\* Every step leaves each voice with somebody who answers for it.
LEMMA AnswerStep ==
  ProtocolInv /\ CallsInv /\ AnswerInv /\ [AudioNext]_audioVars => AnswerInv'
<1> SUFFICES ASSUME ProtocolInv, CallsInv, AnswerInv, [AudioNext]_audioVars
             PROVE  AnswerInv'
  OBVIOUS
<1> USE DEF mixVars, ghostVars, ownerVars
<1>1. CASE WorkerEnds
  <2>1. DOMAIN voices = {} /\ UNCHANGED voices
    BY <1>1 DEF WorkerEnds, CallsInv, Unheard
  <2> QED
    BY <2>1 DEF AnswerInv
<1>2. CASE \/ BeginBlock \/ MixVoice \/ EndBlock \/ NextBlock \/ QueueFilled
           \/ PutFails \/ QueueFails \/ StartManager \/ UNCHANGED audioVars
  <2>1. DOMAIN voices' \subseteq DOMAIN voices
    BY <1>2 DEF BeginBlock, MixVoice, EndBlock, NextBlock, QueueFilled, PutFails, QueueFails,
       StartManager, FailAllVoices, Restrict, audioVars
  <2>2. UNCHANGED <<playback, calls, nextId, channel, reply>>
    BY <1>2 DEF BeginBlock, MixVoice, EndBlock, NextBlock, QueueFilled, PutFails, QueueFails,
       StartManager, audioVars
  <2> QED
    BY <2>1, <2>2, AnswerApart DEF Added
<1> QED
  BY <1>1, <1>2, AnswerAsked, AnswerJoin, AnswerReturn, AnswerSend, AnswerAdd, AnswerApplied
     DEF AudioNext, Owner, Worker

\* The two parts make the property.
LEMMA AccountSuffices == ProtocolInv /\ CountInv /\ AnswerInv => VoicesAccounted
<1> SUFFICES ASSUME ProtocolInv, CountInv, AnswerInv PROVE VoicesAccounted
  OBVIOUS
<1>1. DOMAIN calls = 1 .. Len(calls) /\ DOMAIN channel = 1 .. Len(channel)
  BY DEF ProtocolInv, OwnerTyped, MixerTyped
<1> QED
  BY <1>1 DEF CountInv, AnswerInv, AnsweredFor, Added, VoicesAccounted

\* The voice limit is kept, the diagnostics count the voices there are, and none is
\* left to itself, for any number of objects and voices (Sound.play, its finally
\* clause, CanvasAudioPlayback::drop, the commands of Drop).
THEOREM AccountCorrect == AudioSpec => []VoicesAccounted
<1>1. AudioInit /\ [][AudioNext]_audioVars /\ []ProtocolInv => []TruthInv
  BY TruthInit, TruthStep, PTL
<1>2. AudioInit /\ [][AudioNext]_audioVars /\ []ProtocolInv => []CallsInv
  BY CallsInit, CallsStep, PTL
<1>3. AudioInit /\ [][AudioNext]_audioVars /\ []ProtocolInv /\ []TruthInv => []CountInv
  BY CountInit, CountStep, PTL
<1>4. AudioInit /\ [][AudioNext]_audioVars /\ []ProtocolInv /\ []CallsInv => []AnswerInv
  BY AnswerInit, AnswerStep, PTL
<1>5. AudioSpec => AudioInit /\ [][AudioNext]_audioVars
  BY PTL DEF AudioSpec
<1> QED
  BY <1>1, <1>2, <1>3, <1>4, <1>5, ProtocolCorrect, AccountSuffices, PTL

=============================================================================
