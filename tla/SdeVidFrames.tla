---------------------------- MODULE SdeVidFrames ----------------------------
(***************************************************************************)
(* Frames of a video mode display: the commit path of the virtual encoder, *)
(* the video physical encoders (msm/sde/sde_encoder_phys_vid.c) with their *)
(* vsync interrupt, its way through the interrupt controller               *)
(* (msm/sde/sde_core_irq.c, sde_hw_interrupts.c) and the time-outs.        *)
(*                                                                         *)
(* The panel refreshes by itself: at each vsync the hardware takes what    *)
(* was flushed, and the driver finds out from the flush register in the    *)
(* interrupt, which may run late or beside the display thread (`disp').    *)
(* A split panel's two physical encoders are flushed through one CTL; only *)
(* the master has an interrupt.                                            *)
(***************************************************************************)
EXTENDS SdeFrameEvents

CONSTANTS
    Master, Slave,    \* physical encoders
    Scenarios         \* records [phys, fault, frames, offs]: the encoders,
                      \* the faults, bounds on frames and on turning off

\* "late": the interrupt is not delivered while a wait lasts; "hang": vsyncs
\* do not come in time.
Faults == {"late", "hang"}

ASSUME VidAssumption ==
    /\ Master # Slave /\ \A e \in SUBSET Flag : e # None
    /\ \A s \in Scenarios :
         /\ s.phys \in {{Master}, {Master, Slave}} /\ s.fault \subseteq Faults
         /\ s.frames \in Nat /\ s.offs \in Nat

VARIABLES
    scenario,         \* fixed in the initial state
    disp,             \* place of the display thread
    pending,          \* pending_kickoff_cnt of the master
    retire_cnt,       \* pending_retire_fence_cnt of the master
    busy,             \* frame_busy_mask
    enabling,         \* enable_state is SDE_ENC_ENABLING
    registered,       \* the vsync callback is in irq_cb_tbl
    irq,              \* place of the interrupt handler
    handler,          \* context |-> event the vsync callback is to post
    timing,           \* interface: off, on, or on with ENABLE=0 not latched
    flush,            \* the flush register is not zero
    enabled, status,  \* vsync bits of the enable mask and the status register
    kicked, shown,    \* frames flushed, and the last one taken
    offs,             \* times the display was turned off
    stale             \* events were left queued when it was: history

counts == <<pending, retire_cnt, busy, enabling>>
interrupt == <<registered, irq, handler>>
frames == <<kicked, shown, offs, stale>>
vars == <<scenario, disp, counts, interrupt, timing, flush, enabled, status, frames,
          events, fences>>

Context == {"irq", "disp"}
Phys == scenario.phys
Fault(f) == f \in scenario.fault

Init ==
    /\ scenario \in Scenarios /\ disp = "off"
    /\ pending = 0 /\ retire_cnt = 0 /\ busy = {} /\ enabling = FALSE
    /\ registered = FALSE /\ irq = "idle" /\ handler = [c \in Context |-> None]
    /\ timing = "off" /\ flush = FALSE /\ enabled = FALSE /\ status = FALSE
    /\ kicked = 0 /\ shown = 0 /\ offs = 0 /\ stale = FALSE
    /\ EventsInit

\* irq_lock of the interrupt controller and cb_lock, held while the handler
\* runs the callback.
IrqLocked == irq = "callback"

-----------------------------------------------------------------------------
(* The hardware.                                                           *)

HwVsync ==
    /\ timing # "off"
    /\ status' = TRUE /\ flush' = FALSE
    /\ shown' = IF flush THEN kicked ELSE shown
    /\ timing' = IF timing = "stopping" THEN "off" ELSE timing
    /\ UNCHANGED <<scenario, disp, counts, interrupt, enabled, kicked, offs, stale, events, fences>>

-----------------------------------------------------------------------------
(* The vsync interrupt.                                                    *)

\* Mutant: the flush register is not looked at.
VblankIrqUnchecked(c) ==
    /\ pending' = Dec(pending) /\ retire_cnt' = Dec(retire_cnt)
    /\ handler' = [handler EXCEPT ![c] = IF retire_cnt > 0 THEN {"release", "retire"} ELSE {}]

\* Mutant: the retire fence is signalled but not counted down.
VblankIrqKeeps(c) ==
    /\ UNCHANGED retire_cnt
    /\ pending' = IF flush THEN pending ELSE Dec(pending)
    /\ handler' = [handler EXCEPT ![c] =
                     IF ~flush /\ retire_cnt > 0 THEN {"release", "retire"} ELSE {}]

\* sde_encoder_phys_vid_vblank_irq under enc_spinlock, in context c: nothing
\* is done if the hardware has not taken the flush.
VblankIrq(c) ==
    IF flush
      THEN handler' = [handler EXCEPT ![c] = {}] /\ UNCHANGED <<pending, retire_cnt>>
      ELSE /\ pending' = Dec(pending) /\ retire_cnt' = Dec(retire_cnt)
           /\ handler' = [handler EXCEPT ![c] =
                            IF retire_cnt > 0 THEN {"release", "retire"} ELSE {}]

\* Mutant: the event is not posted.
VblankPostNever(c) == handler' = [handler EXCEPT ![c] = None] /\ UNCHANGED fevents

\* Its end, without the lock.
VblankPost(c) == Post(handler[c]) /\ handler' = [handler EXCEPT ![c] = None]

\* sde_hw_intr_get_interrupt_statuses.
IrqRead ==
    /\ irq = "idle" /\ status /\ enabled
    /\ irq' = "saved" /\ status' = FALSE
    /\ UNCHANGED <<scenario, disp, counts, registered, handler, timing, flush, enabled,
                   frames, events, fences>>

\* sde_hw_intr_dispatch_irq, sde_core_irq_callback_handler.  The status is
\* cleared once more at the end, whatever came in between.
IrqDispatch ==
    /\ irq = "saved"
    /\ IF registered
         THEN irq' = "callback" /\ VblankIrq("irq") /\ UNCHANGED status
         ELSE irq' = "idle" /\ status' = FALSE /\ UNCHANGED <<pending, retire_cnt, handler>>
    /\ UNCHANGED <<scenario, disp, busy, enabling, registered, timing, flush, enabled,
                   frames, events, fences>>

IrqEnd ==
    /\ irq = "callback" /\ irq' = "idle"
    /\ VblankPost("irq") /\ status' = FALSE
    /\ UNCHANGED <<scenario, disp, counts, registered, timing, flush, enabled, frames,
                   frame_pending, worker, fences>>

-----------------------------------------------------------------------------
(* A commit.                                                               *)

\* sde_encoder_virt_enable: the interrupt is registered and unmasked, the
\* physical encoders wait for their first flush.
Enable ==
    /\ disp = "off" /\ kicked < scenario.frames
    /\ disp' = "free" /\ enabling' = TRUE /\ registered' = TRUE
    /\ enabled' = TRUE /\ status' = FALSE
    /\ UNCHANGED <<scenario, pending, retire_cnt, busy, irq, handler, timing, flush, frames,
                   events, fences>>

\* sde_crtc_prepare_commit creates the fences.
PrepareCommit ==
    /\ disp = "free" /\ kicked < scenario.frames
    /\ disp' = "flush" /\ prepared' = prepared + 1
    /\ UNCHANGED <<scenario, counts, interrupt, timing, flush, enabled, status, frames,
                   events, released, retired>>

\* sde_crtc_commit_kickoff.
CommitKickoff ==
    /\ disp = "flush" /\ Flushed
    /\ disp' = "kick" /\ frame_pending' = frame_pending + 1
    /\ UNCHANGED <<scenario, counts, interrupt, timing, flush, enabled, status, frames,
                   fevents, worker, fences>>

\* _sde_encoder_kickoff_phys marks the encoders busy; _sde_encoder_trigger_flush
\* counts the retire fence and flushes under enc_spinlock.
KickoffFlush ==
    /\ disp = "kick" /\ disp' = "count"
    /\ busy' = Phys /\ retire_cnt' = retire_cnt + 1
    /\ flush' = TRUE /\ kicked' = kicked + 1
    /\ UNCHANGED <<scenario, pending, enabling, interrupt, timing, enabled, status, shown,
                   offs, stale, events, fences>>

KickoffCount ==
    /\ disp = "count" /\ disp' = "post"
    /\ pending' = pending + 1
    /\ UNCHANGED <<scenario, retire_cnt, busy, enabling, interrupt, timing, flush, enabled,
                   status, frames, events, fences>>

\* sde_encoder_phys_vid_handle_post_kickoff: the first flush is there, the
\* timing engine starts.
PostKickoff ==
    /\ disp = "post" /\ disp' = "wait"
    /\ timing' = IF enabling THEN "on" ELSE timing
    /\ enabling' = FALSE
    /\ UNCHANGED <<scenario, pending, retire_cnt, busy, interrupt, flush, enabled, status,
                   frames, events, fences>>

-----------------------------------------------------------------------------
(* The waits: for the frame ("wait"), for the last one before the display  *)
(* goes off ("tx"), for the stop of the timing engine ("stop1", "stop2").  *)

After == [wait |-> "wait_done", tx |-> "tx_done", stop1 |-> "status", stop2 |-> "disable"]
Waiting == disp \in DOMAIN After /\ handler["disp"] = None

\* sde_encoder_helper_wait_for_irq finds the count at zero.
WaitForIrq ==
    /\ Waiting /\ pending = 0 /\ disp' = After[disp]
    /\ UNCHANGED <<scenario, counts, interrupt, timing, flush, enabled, status, frames,
                   events, fences>>

\* It times out, but the status says that the interrupt is due: the callback
\* runs here.  KICKOFF_TIMEOUT_MS is longer than a frame: the hardware has
\* taken by then what was written before.
IrqLate ==
    /\ Fault("late") /\ Waiting /\ pending > 0 /\ ~IrqLocked
    /\ status /\ ~flush /\ timing # "stopping"
    /\ status' = FALSE /\ VblankIrq("disp")
    /\ UNCHANGED <<scenario, disp, busy, enabling, registered, irq, timing, flush, enabled,
                   frames, events, fences>>

IrqLateEnd ==
    /\ handler["disp"] # None /\ disp' = After[disp]
    /\ VblankPost("disp")
    /\ UNCHANGED <<scenario, counts, registered, irq, timing, flush, enabled, status, frames,
                   frame_pending, worker, fences>>

\* sde_encoder_frame_done_callback for the encoders ps, one after the other.
FrameDone(ps, event) ==
    /\ busy' = busy \ ps
    /\ Post(IF busy # {} /\ busy' = {} THEN event ELSE {})

\* _sde_encoder_phys_vid_wait_for_vblank reports the frame; the slave does it
\* without waiting.  A commit is over, a display that goes off goes on.
VblankDone ==
    /\ disp \in {"wait_done", "tx_done"}
    /\ FrameDone(Phys, {"done"})
    /\ disp' = IF disp = "wait_done" THEN "free" ELSE "stop"
    /\ UNCHANGED <<scenario, pending, retire_cnt, enabling, interrupt, timing, flush, enabled,
                   status, frames, frame_pending, worker, fences>>

\* Nothing came: the engine has stopped, or hangs.  sde_encoder_wait_for_event
\* gives up with the master.
WaitTimeout ==
    /\ Waiting /\ pending > 0 /\ ~status /\ irq = "idle"
    /\ Fault("hang") \/ timing = "off"
    /\ IF disp \in {"wait", "tx"}
         THEN /\ FrameDone({Master}, {"done"} \cup IF retire_cnt > 0 THEN {"release", "retire"} ELSE {})
              /\ retire_cnt' = Dec(retire_cnt)
              /\ disp' = (IF disp = "wait" THEN "free" ELSE "stop")
              /\ UNCHANGED pending
         ELSE /\ pending' = 0 /\ disp' = After[disp]
              /\ UNCHANGED <<retire_cnt, busy, fevents>>
    /\ UNCHANGED <<scenario, enabling, interrupt, timing, flush, enabled, status, frames,
                   frame_pending, worker, fences>>

-----------------------------------------------------------------------------
(* The display goes off.                                                   *)

\* sde_encoder_virt_disable waits for the last frame.
Disable ==
    /\ disp = "free" /\ ~enabling /\ offs < scenario.offs
    /\ disp' = "tx" /\ offs' = offs + 1
    /\ UNCHANGED <<scenario, counts, interrupt, timing, flush, enabled, status, kicked, shown,
                   stale, events, fences>>

\* sde_encoder_phys_vid_disable, up to the first wait.
StopTiming ==
    /\ disp = "stop" /\ disp' = "stop1"
    /\ timing' = (IF timing = "off" THEN "off" ELSE "stopping") /\ pending' = pending + 1
    /\ UNCHANGED <<scenario, retire_cnt, busy, enabling, interrupt, flush, enabled, status,
                   frames, events, fences>>

\* Mutant: one wait is enough.
ReadStatusNever ==
    /\ disp = "status" /\ disp' = "disable"
    /\ UNCHANGED <<scenario, counts, interrupt, timing, flush, enabled, status, frames,
                   events, fences>>

\* The engine may still be running: the interrupt that ended the first wait
\* can be of an earlier vsync.
ReadStatus ==
    /\ disp = "status"
    /\ IF timing # "off"
         THEN disp' = "stop2" /\ pending' = pending + 1
         ELSE disp' = "disable" /\ UNCHANGED pending
    /\ UNCHANGED <<scenario, retire_cnt, busy, enabling, interrupt, timing, flush, enabled,
                   status, frames, events, fences>>

\* sde_encoder_helper_phys_disable resets the CTL.
PhysDisable ==
    /\ disp = "disable" /\ disp' = "mask" /\ flush' = FALSE
    /\ UNCHANGED <<scenario, counts, interrupt, timing, enabled, status, frames, events, fences>>

\* sde_encoder_helper_unregister_irq: the mask under irq_lock, then the
\* callback under cb_lock.
MaskIrq ==
    /\ disp = "mask" /\ ~IrqLocked
    /\ disp' = "unregister" /\ enabled' = FALSE /\ status' = FALSE
    /\ UNCHANGED <<scenario, counts, interrupt, timing, flush, frames, events, fences>>

UnregisterIrq ==
    /\ disp = "unregister" /\ ~IrqLocked
    /\ disp' = "crtc" /\ registered' = FALSE
    /\ UNCHANGED <<scenario, counts, irq, handler, timing, flush, enabled, status, frames,
                   events, fences>>

CrtcDisable ==
    /\ disp = "crtc" /\ Flushed /\ disp' = "off"
    /\ stale' = (stale \/ fevents # <<>> \/ worker # None)
    /\ ResetFences
    /\ UNCHANGED <<scenario, counts, interrupt, timing, flush, enabled, status, kicked, shown,
                   offs>>

-----------------------------------------------------------------------------
WorkBegin ==
    /\ FrameEventWork
    /\ UNCHANGED <<scenario, disp, counts, interrupt, timing, flush, enabled, status, frames>>

WorkEnd ==
    /\ SignalFences
    /\ UNCHANGED <<scenario, disp, counts, interrupt, timing, flush, enabled, status, frames>>

DispStep ==
    \/ CommitKickoff \/ KickoffFlush \/ KickoffCount \/ PostKickoff
    \/ WaitForIrq \/ IrqLate \/ IrqLateEnd \/ VblankDone \/ WaitTimeout
    \/ StopTiming \/ ReadStatus \/ PhysDisable \/ MaskIrq \/ UnregisterIrq \/ CrtcDisable

IrqStep == IrqRead \/ IrqDispatch \/ IrqEnd

EventStep == WorkBegin \/ WorkEnd

Next ==
    \/ Enable \/ PrepareCommit \/ Disable
    \/ DispStep \/ IrqStep \/ EventStep \/ HwVsync

\* The threads and the interrupt handler run, and vsyncs come unless the
\* engine hangs.  Nobody has to commit.
Spec ==
    /\ Init /\ [][Next]_vars
    /\ WF_vars(DispStep) /\ WF_vars(IrqStep) /\ WF_vars(EventStep)
    /\ WF_vars(HwVsync /\ ~Fault("hang"))

-----------------------------------------------------------------------------
TypeOK ==
    /\ scenario \in Scenarios
    /\ disp \in {"off", "free", "flush", "kick", "count", "post", "wait", "wait_done", "tx",
                 "tx_done", "stop", "stop1", "status", "stop2", "disable", "mask",
                 "unregister", "crtc"}
    /\ pending \in Nat /\ retire_cnt \in 0 .. 1 /\ busy \subseteq Phys
    /\ enabling \in BOOLEAN /\ registered \in BOOLEAN
    /\ irq \in {"idle", "saved", "callback"}
    /\ handler \in [Context -> (SUBSET Flag) \cup {None}]
    /\ timing \in {"off", "on", "stopping"} /\ flush \in BOOLEAN
    /\ enabled \in BOOLEAN /\ status \in BOOLEAN
    /\ kicked \in 0 .. scenario.frames /\ shown \in 0 .. kicked /\ offs \in 0 .. scenario.offs
    /\ stale \in BOOLEAN /\ EventsTypeOK

\* Neither fence of a frame is signalled, and no commit returns to the code
\* that unpins the old buffers, before the hardware has taken the frame:
\* however late the interrupt runs after its vsync, and wherever it falls
\* between the flush and the count of a kickoff.  Left out is what the events
\* of before do after the display went off and on: sde_crtc_disable does not
\* wait for them when no frame is pending.
ReportsNotEarly ==
    ~Fault("hang") =>
        /\ ~stale => released <= shown /\ retired <= shown
        /\ disp = "wait_done" => shown = kicked

\* The display thread only takes the sources of a stopping interface away
\* (sde_encoder_helper_phys_disable, then clocks and panel) once ENABLE=0 has
\* latched, although the interrupt that ends its wait may belong to a vsync
\* from before (the comment in sde_encoder_phys_vid_single_vblank_wait).
OffIsLatched ==
    ~Fault("hang") /\ disp \in {"mask", "unregister", "crtc", "off"} => timing = "off"

\* Every frame is reported on both its fences, also when the interrupt comes
\* too late for the wait or vsyncs fail to come; and every commit and every
\* disable ends.  A split panel that hangs is left out: sde_encoder_wait_for_event
\* gives up before the slave is reported, and the event is lost.
Lossy == Fault("hang") /\ Slave \in Phys

FramesReported ==
    /\ \A n \in UNION {1 .. s.frames : s \in Scenarios} :
         prepared >= n /\ ~Lossy ~> released >= n /\ retired >= n
    /\ disp \notin {"free", "off"} ~> disp \in {"free", "off"}
=============================================================================
