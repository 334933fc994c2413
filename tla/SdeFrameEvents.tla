--------------------------- MODULE SdeFrameEvents ---------------------------
(***************************************************************************)
(* The frame events of a CRTC (msm/sde/sde_crtc.c): encoders post them     *)
(* from interrupts and waits, the event thread works them off, counts the  *)
(* frames down and signals the fences.  Of the two SdeFence timelines only *)
(* the counters are kept.  SdeCmdFrames and SdeVidFrames compose it with   *)
(* the encoders of the two kinds of panel.                                 *)
(***************************************************************************)
EXTENDS Integers, Sequences

CONSTANTS
    PoolSize,     \* SDE_CRTC_FRAME_EVENT_SIZE
    None

ASSUME PoolAssumption == PoolSize \in Nat \ {0}

VARIABLES
    frame_pending,    \* of the CRTC
    fevents,          \* queued frame events, oldest first
    worker,           \* event the event thread is working on
    prepared,         \* commit_count of both timelines
    released, retired \* done_count of the output and the retire fence

events == <<frame_pending, fevents, worker>>
fences == <<prepared, released, retired>>

\* DONE, ERROR or PANEL_DEAD; SIGNAL_RELEASE_FENCE; SIGNAL_RETIRE_FENCE.
Flag == {"done", "release", "retire"}

Dec(n) == IF n > 0 THEN n - 1 ELSE 0
B(b) == IF b THEN 1 ELSE 0

EventsInit ==
    /\ frame_pending = 0 /\ fevents = <<>> /\ worker = None
    /\ prepared = 0 /\ released = 0 /\ retired = 0

\* sde_crtc_frame_event_cb; {} is no event.  An event that finds the pool
\* empty is dropped.
Post(event) ==
    fevents' = IF event = {} \/ Len(fevents) + B(worker # None) >= PoolSize
                 THEN fevents ELSE Append(fevents, event)

\* sde_fence_signal; an extra signal is only logged.
Signal(done) == IF done < prepared THEN done + 1 ELSE done

\* sde_crtc_frame_event_work, up to the fences.
FrameEventWork ==
    /\ worker = None /\ fevents # <<>>
    /\ worker' = Head(fevents) /\ fevents' = Tail(fevents)
    /\ frame_pending' = IF "done" \in worker' THEN Dec(frame_pending) ELSE frame_pending
    /\ UNCHANGED fences

SignalFences ==
    /\ worker # None /\ worker' = None
    /\ released' = IF "release" \in worker THEN Signal(released) ELSE released
    /\ retired' = IF "retire" \in worker THEN Signal(retired) ELSE retired
    /\ UNCHANGED <<frame_pending, fevents, prepared>>

\* _sde_crtc_flush_event_thread lets the display thread go on.
Flushed == frame_pending = 0 \/ (fevents = <<>> /\ worker = None)

\* The end of sde_crtc_disable: both timelines are reset.
ResetFences ==
    /\ frame_pending' = 0 /\ released' = prepared /\ retired' = prepared
    /\ UNCHANGED <<fevents, worker, prepared>>

EventsTypeOK ==
    /\ frame_pending \in Nat /\ fevents \in Seq(SUBSET Flag)
    /\ worker = None \/ worker \in SUBSET Flag
    /\ prepared \in Nat /\ released \in Nat /\ retired \in Nat
=============================================================================
