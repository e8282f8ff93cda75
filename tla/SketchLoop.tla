----------------------------- MODULE SketchLoop -----------------------------
(***************************************************************************)
(* One run of a sketch: Sketch.run from preload to its finally clause, and *)
(* inside it the backend's headless, bounded or interactive loop.  The     *)
(* sketch's callbacks (preload, setup, draw, event handlers) are states in *)
(* which the user's code may call no_loop, loop, redraw and stop, raise,   *)
(* or return; the window system delivers batches of events; the clock      *)
(* decides when an interactive frame is due.                               *)
(***************************************************************************)
EXTENDS Naturals, Sequences, SequencesExt

CONSTANTS
  MaxFrames,   \* bound: the max_frames a run is given
  MaxMoves,    \* bound: pointer motions in a behaviour
  MaxBatch     \* bound: events of one poll

ASSUME LoopAssumption == MaxFrames \in Nat \ {0} /\ MaxMoves \in Nat /\ MaxBatch \in Nat

VARIABLES
  mode,            \* which loop CanvasBackendRuntimeMixin.run chose
  budget,          \* max_frames
  pc,              \* where the run is
  sketchRunning,   \* Sketch._running
  backendRunning,  \* backend._running
  looping,         \* context.state.looping
  redraw,          \* context.state.redraw_requested
  wasLooping,      \* was_looping, read before the events of an iteration
  window,          \* the Rust canvas has an InteractiveRuntime
  closed,          \* canvas.should_close()
  batch,           \* polled events that are still to be dispatched
  due,             \* now >= _next_frame_time
  count,           \* headless: iterations of the loop; bounded: _frames_drawn
  frameMotion,     \* _frame_mouse_dx, one per motion
  frames,          \* ghost: frames completed, MaxFrames + 1 standing for more
  moves,           \* ghost: motions dispatched to the context
  shown,           \* ghost: motions the frames that were begun could read
  cause            \* ghost: "stop" or "raise" once user or window asked to end

runVars == <<mode, budget>>
flagVars == <<sketchRunning, backendRunning>>
drawVars == <<looping, redraw>>
windowVars == <<window, closed>>
motionVars == <<frameMotion, moves, shown>>
loopVars == <<runVars, pc, flagVars, drawVars, wasLooping, windowVars, batch,
              due, count, motionVars, frames, cause>>

Modes == {"headless", "bounded", "interactive"}

\* The states in which code of the sketch runs.
Callbacks == {"preload", "setup", "draw", "event"}

\* The states between the start of the backend's loop and its finally clause.
InLoop == {"loop", "poll", "dispatch", "event", "tick", "draw", "unwind"}

\* The events of a poll: pointer motions, and the window's close button, which
\* InteractiveRuntime.close reports once.
Batches == {b \in SeqOf({"move", "close"}, MaxBatch) :
              \A i, j \in DOMAIN b : b[i] = "close" /\ b[j] = "close" => i = j}

\* Sketch.run: a new context (looping, no redraw asked for) and a new backend.
LoopInit ==
  /\ mode \in Modes
  /\ budget \in 0 .. MaxFrames
  /\ pc = "preload"
  /\ sketchRunning = TRUE /\ backendRunning = FALSE
  /\ looping = TRUE /\ redraw = FALSE /\ wasLooping = TRUE
  /\ window = FALSE /\ closed = FALSE
  /\ batch = <<>> /\ due = FALSE /\ count = 0
  /\ frameMotion = 0 /\ moves = 0 /\ shown = 0
  /\ frames = 0 /\ cause = "none"

-----------------------------------------------------------------------------
(* What the sketch's code may do while one of its callbacks runs.          *)

NoLoop ==
  /\ pc \in Callbacks /\ looping
  /\ looping' = FALSE
  /\ UNCHANGED <<runVars, pc, flagVars, redraw, wasLooping, windowVars, batch,
                 due, count, motionVars, frames, cause>>

Loop ==
  /\ pc \in Callbacks /\ ~looping
  /\ looping' = TRUE
  /\ UNCHANGED <<runVars, pc, flagVars, redraw, wasLooping, windowVars, batch,
                 due, count, motionVars, frames, cause>>

Redraw ==
  /\ pc \in Callbacks /\ ~redraw
  /\ redraw' = TRUE
  /\ UNCHANGED <<runVars, pc, flagVars, looping, wasLooping, windowVars, batch,
                 due, count, motionVars, frames, cause>>

\* Sketch.stop then backend.stop: both flags fall and the renderer closes its
\* canvas.  Before the loop there may be no canvas yet to close.
StopSketch ==
  /\ pc \in Callbacks
  /\ sketchRunning' = FALSE /\ backendRunning' = FALSE
  /\ window' = FALSE
  /\ closed' \in {closed, TRUE}
  /\ pc = "preload" => closed' = closed
  /\ pc \notin {"preload", "setup"} => closed'
  /\ cause' = "stop"
  /\ UNCHANGED <<runVars, pc, drawVars, wasLooping, batch, due, count,
                 motionVars, frames>>

\* An exception leaves run through every finally clause on the way: from draw
\* also through the end_frame of renderer and context, but the frame does not
\* count and a redraw stays asked for.
Raise ==
  /\ pc \in Callbacks
  /\ pc' = "unwind"
  /\ frameMotion' = IF pc = "draw" THEN 0 ELSE frameMotion
  /\ batch' = <<>>
  /\ cause' = "raise"
  /\ UNCHANGED <<runVars, flagVars, drawVars, wasLooping, windowVars, due, count,
                 moves, shown, frames>>

UserCode == NoLoop \/ Loop \/ Redraw \/ StopSketch \/ Raise

-----------------------------------------------------------------------------
(* The run.                                                                *)

PreloadReturns ==
  /\ pc = "preload"
  /\ pc' = "setup"
  /\ UNCHANGED <<runVars, flagVars, drawVars, wasLooping, windowVars, batch, due,
                 count, motionVars, frames, cause>>

\* setup returned and the canvas exists; the headless loop starts.
StartHeadless ==
  /\ pc = "setup" /\ mode = "headless"
  /\ pc' = "loop"
  /\ backendRunning' = TRUE
  /\ UNCHANGED <<runVars, sketchRunning, drawVars, wasLooping, windowVars, batch,
                 due, count, motionVars, frames, cause>>

\* open_window clears closed, whatever happened before; the first frame is due.
StartInteractive ==
  /\ pc = "setup" /\ mode # "headless"
  /\ pc' = "loop"
  /\ backendRunning' = TRUE
  /\ window' = TRUE /\ closed' = FALSE
  /\ due' = TRUE
  /\ UNCHANGED <<runVars, sketchRunning, drawVars, wasLooping, batch, count,
                 motionVars, frames, cause>>

\* run_interactive raises before its try: there is no support for windows, or
\* InteractiveRuntime::open fails, when open_window has already cleared closed.
\* Nothing after it can fail: the mode of the pointer lock was accepted before.
OpenFails ==
  /\ pc = "setup" /\ mode # "headless"
  /\ pc' = "done"
  /\ sketchRunning' = FALSE
  /\ closed' \in {closed, FALSE}
  /\ cause' = "raise"
  /\ UNCHANGED <<runVars, backendRunning, drawVars, wasLooping, window, batch, due,
                 count, motionVars, frames>>

\* Mutant: the loop does not look at the flags between iterations.
NeverLeaves == TRUE

Runs == backendRunning /\ (mode = "headless" \/ ~closed)

\* The head of either loop.
Iterate ==
  /\ pc = "loop"
  /\ IF ~Runs \/ (mode = "headless" /\ count = budget)
     THEN pc' = "unwind" /\ UNCHANGED <<count, wasLooping>>
     ELSE IF mode = "headless"
     THEN pc' = "tick" /\ count' = count + 1 /\ UNCHANGED wasLooping
     ELSE pc' = "poll" /\ wasLooping' = looping /\ UNCHANGED count
  /\ UNCHANGED <<runVars, flagVars, drawVars, windowVars, batch, due, motionVars,
                 frames, cause>>

\* poll_events: a close button pressed by now already counts as closed.
Poll ==
  /\ pc = "poll"
  /\ \E b \in Batches :
       /\ moves + Cardinality({i \in DOMAIN b : b[i] = "move"}) <= MaxMoves
       /\ batch' = b
       /\ closed' = (closed \/ "close" \in {b[i] : i \in DOMAIN b})
  /\ pc' = "dispatch"
  /\ UNCHANGED <<runVars, flagVars, drawVars, wasLooping, window, due, count,
                 motionVars, frames, cause>>

\* poll_events raises, or an event is of a type that nothing handles.
EventsFail ==
  /\ pc \in {"poll", "dispatch"}
  /\ pc' = "unwind"
  /\ batch' = <<>>
  /\ cause' = "raise"
  /\ UNCHANGED <<runVars, flagVars, drawVars, wasLooping, windowVars, due, count,
                 motionVars, frames>>

\* Mutant: the position update adds the motion as well.
DispatchMoveTwice ==
  /\ pc = "dispatch" /\ batch # <<>> /\ Head(batch) = "move"
  /\ pc' = "event"
  /\ batch' = Tail(batch)
  /\ frameMotion' = frameMotion + 2
  /\ moves' = moves + 1
  /\ UNCHANGED <<runVars, flagVars, drawVars, wasLooping, windowVars, due, count,
                 shown, frames, cause>>

\* dispatch_mouse_event adds the motion to the frame's before the callback runs.
DispatchMove ==
  /\ pc = "dispatch" /\ batch # <<>> /\ Head(batch) = "move"
  /\ pc' = "event"
  /\ batch' = Tail(batch)
  /\ frameMotion' = frameMotion + 1
  /\ moves' = moves + 1
  /\ UNCHANGED <<runVars, flagVars, drawVars, wasLooping, windowVars, due, count,
                 shown, frames, cause>>

EventReturns ==
  /\ pc = "event"
  /\ pc' = "dispatch"
  /\ UNCHANGED <<runVars, flagVars, drawVars, wasLooping, windowVars, batch, due,
                 count, motionVars, frames, cause>>

\* _dispatch_close_canvas_event: sketch.stop, then backend.stop once more.
DispatchClose ==
  /\ pc = "dispatch" /\ batch # <<>> /\ Head(batch) = "close"
  /\ batch' = Tail(batch)
  /\ sketchRunning' = FALSE /\ backendRunning' = FALSE
  /\ window' = FALSE /\ closed' = TRUE
  /\ cause' = "stop"
  /\ UNCHANGED <<runVars, pc, drawVars, wasLooping, due, count, motionVars, frames>>

\* The batch is done: leave, or tick.  A frame asked for, or a loop resumed, by
\* the events is due now (_wake_for_pending_draw).
Dispatched ==
  /\ pc = "dispatch" /\ batch = <<>>
  /\ IF Runs
     THEN pc' = "tick" /\ due' = (due \/ redraw \/ (looping /\ ~wasLooping))
     ELSE pc' = "unwind" /\ UNCHANGED due
  /\ UNCHANGED <<runVars, flagVars, drawVars, wasLooping, windowVars, batch, count,
                 motionVars, frames, cause>>

Pending == looping \/ redraw

\* Mutant: a frame is only drawn while the sketch loops.
PendingIfLooping == looping

ShouldDraw == Pending

\* The interactive tick draws when a frame is due, the others always try to.
Tries == mode = "interactive" => ShouldDraw /\ due

\* _draw_frame reaches the user's draw.
BeginFrame ==
  /\ pc = "tick" /\ Tries /\ sketchRunning /\ ShouldDraw
  /\ pc' = "draw"
  /\ shown' = shown + frameMotion
  /\ UNCHANGED <<runVars, flagVars, drawVars, wasLooping, windowVars, batch, due,
                 count, frameMotion, moves, frames, cause>>

\* Mutant: the bounded loop draws one frame more than it was asked for.
BoundedDoneLate(drawn) == drawn > budget

BoundedDone(drawn) == drawn >= budget

\* The tick goes by without a frame: the bounded loop then ends unless a frame
\* is pending, the interactive one moves on to the next frame time if it tried.
SkipFrame ==
  /\ pc = "tick" /\ ~(Tries /\ sketchRunning /\ ShouldDraw)
  /\ pc' = IF mode = "bounded" /\ (~Pending \/ BoundedDone(count))
           THEN "unwind" ELSE "loop"
  /\ due' = (due /\ (mode = "interactive" => ~Tries))
  /\ UNCHANGED <<runVars, flagVars, drawVars, wasLooping, windowVars, batch, count,
                 motionVars, frames, cause>>

\* Mutant: the frame's motion is kept for the next frame.
DrawReturnsKeepingMotion ==
  /\ pc = "draw"
  /\ redraw' = FALSE
  /\ frames' = IF frames > MaxFrames THEN frames ELSE frames + 1
  /\ count' = IF mode = "bounded" THEN count + 1 ELSE count
  /\ pc' = IF mode = "bounded" /\ BoundedDone(count + 1) THEN "unwind" ELSE "loop"
  /\ due' = (due /\ mode # "interactive")
  /\ UNCHANGED <<runVars, flagVars, looping, wasLooping, windowVars, batch,
                 motionVars, cause>>

\* draw returned: end_frame forgets the frame's motion, the frame counts, and a
\* redraw asked for until now is served by it; then the rest of the tick.
DrawReturns ==
  /\ pc = "draw"
  /\ frameMotion' = 0
  /\ redraw' = FALSE
  /\ frames' = IF frames > MaxFrames THEN frames ELSE frames + 1
  /\ count' = IF mode = "bounded" THEN count + 1 ELSE count
  /\ pc' = IF mode = "bounded" /\ BoundedDone(count + 1) THEN "unwind" ELSE "loop"
  /\ due' = (due /\ mode # "interactive")
  /\ UNCHANGED <<runVars, flagVars, looping, wasLooping, windowVars, batch,
                 moves, shown, cause>>

\* present raises: the sketch has counted the frame, the loop has not.
PresentFails ==
  /\ pc = "draw"
  /\ pc' = "unwind"
  /\ frameMotion' = 0
  /\ redraw' = FALSE
  /\ frames' = IF frames > MaxFrames THEN frames ELSE frames + 1
  /\ cause' = "raise"
  /\ UNCHANGED <<runVars, flagVars, looping, wasLooping, windowVars, batch, due,
                 count, moves, shown>>

\* Mutant: the interactive loop's finally clears the flag only.
UnwindKeepsWindow ==
  /\ pc = "unwind"
  /\ pc' = "done"
  /\ sketchRunning' = FALSE /\ backendRunning' = FALSE
  /\ UNCHANGED <<runVars, drawVars, wasLooping, windowVars, batch, due, count,
                 motionVars, frames, cause>>

\* The finally clauses: the interactive loop stops the backend, the headless one
\* clears its flag, Sketch.run clears its own.
Unwind ==
  /\ pc = "unwind"
  /\ pc' = "done"
  /\ sketchRunning' = FALSE /\ backendRunning' = FALSE
  /\ window' = FALSE
  /\ closed' = (closed \/ window)
  /\ UNCHANGED <<runVars, drawVars, wasLooping, batch, due, count, motionVars,
                 frames, cause>>

\* perf_counter passes the next frame time.
Clock ==
  /\ pc \in InLoop /\ mode = "interactive" /\ ~due
  /\ due' = TRUE
  /\ UNCHANGED <<runVars, pc, flagVars, drawVars, wasLooping, windowVars, batch,
                 count, motionVars, frames, cause>>

\* What the program does by itself, its callbacks' returns among it.
Program ==
  \/ PreloadReturns \/ StartHeadless \/ StartInteractive \/ OpenFails
  \/ Iterate \/ Poll \/ DispatchMove \/ EventReturns \/ DispatchClose
  \/ Dispatched \/ BeginFrame \/ SkipFrame \/ DrawReturns \/ Unwind
  \/ EventsFail \/ PresentFails

LoopNext == UserCode \/ Program \/ Clock

\* The thread that called run keeps running and callbacks return; the clock
\* advances.  Nothing is assumed of what the user's code asks for, nor of events.
LoopSpec == LoopInit /\ [][LoopNext]_loopVars /\ WF_loopVars(Program)
                     /\ WF_loopVars(Clock)

-----------------------------------------------------------------------------
(* Properties.                                                             *)

LoopTypeOK ==
  /\ mode \in Modes /\ budget \in 0 .. MaxFrames
  /\ pc \in Callbacks \union InLoop \union {"done"}
  /\ {sketchRunning, backendRunning, looping, redraw, wasLooping, window, closed,
      due} \subseteq BOOLEAN
  /\ batch \in Batches
  /\ count \in 0 .. MaxFrames + 1 /\ frames \in 0 .. MaxFrames + 1
  /\ {frameMotion, moves, shown} \subseteq 0 .. MaxMoves
  /\ cause \in {"none", "stop", "raise"}

\* Every pointer motion is part of the motion of exactly one frame, however
\* many polls and skipped ticks lie between two frames: the motions dispatched
\* are those that frames have read and those the next frame will read.  Only a
\* run that is ending drops motion (Sketch._draw_frame, dispatch_mouse_event).
MotionShownOnce == moves = shown + (IF pc = "draw" THEN 0 ELSE frameMotion)

\* The bounded interactive loop tests its bound after a frame: asked for no
\* frame it draws one.
Budget == IF mode = "bounded" /\ budget = 0 THEN 1 ELSE budget

\* max_frames is a bound, and a loop that nobody stopped, closed or broke ends
\* only when it has drawn that many frames or when no frame is pending; the
\* unbounded loop never ends by itself.
EndsForAReason ==
  /\ mode # "interactive" => frames <= Budget
  /\ pc = "done" /\ cause = "none" =>
       mode # "interactive" /\ (frames = Budget \/ ~Pending)

\* Whichever callback raised or stopped the sketch, and at whatever point, run
\* leaves no window open and neither flag set.
ReleasedAtEnd == pc = "done" => ~sketchRunning /\ ~backendRunning /\ ~window

\* A frame that is asked for - by looping, by redraw, or by loop after no_loop -
\* is drawn unless the request is withdrawn or the run is stopped: no poll,
\* pacing decision or frame bound of an iteration loses it.
PendingFrameDrawn ==
  (pc \in InLoop /\ Pending /\ sketchRunning /\ backendRunning) ~>
    (pc = "draw" \/ ~Pending \/ ~sketchRunning \/ ~backendRunning)

\* A loop ends once it is stopped or its window closed, from whichever callback
\* and whatever events of the batch are still to be dispatched; a bounded loop
\* ends anyway unless the sketch was stopped before it.
LoopEnds ==
  (pc \in InLoop /\ (~backendRunning \/ closed \/
                      (mode # "interactive" /\ sketchRunning))) ~> (pc = "done")

\* "Request that the active backend stops scheduling this sketch."
\* (Sketch.stop, src/gummysnake/sketch/runtime.py:81)
StopEndsRun == (~sketchRunning) ~> (pc = "done")
=============================================================================
