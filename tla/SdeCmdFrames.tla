---------------------------- MODULE SdeCmdFrames ----------------------------
(***************************************************************************)
(* Frames of a command mode display, from the commit that kicks one off to *)
(* the fences that report it: the interrupt handlers and waits of the      *)
(* command mode physical encoders (msm/sde/sde_encoder_phys_cmd.c), the    *)
(* frame done callback and kickoff of the virtual encoder, and the frame   *)
(* events of the CRTC (msm/sde/sde_crtc.c).                                *)
(*                                                                         *)
(* Contexts: the display thread (`disp'), the interrupt handler, the event *)
(* thread (`worker').  Interrupts are dispatched one after the other; a    *)
(* wait that times out does the handler's work in the display thread.      *)
(* Events and fences are those of SdeFrameEvents.                          *)
(***************************************************************************)
EXTENDS SdeFrameEvents

CONSTANTS
    Phys,         \* physical encoders
    Master,       \* the one that starts the frame
    MaxFrames,    \* bound on frames in each fault mode
    FaultModes    \* sets of "noctl" (ctl_start interrupts are lost),
                  \* "timeout" (a transfer does not end in time),
                  \* "off" (the display is turned off and on)

Faults == {"noctl", "timeout", "off"}

ASSUME CmdAssumption ==
    /\ Master \in Phys /\ None \notin Phys /\ Phys \cap {"ctl", "rd"} = {}
    /\ PoolSize >= 3 /\ \A e \in SUBSET Flag : e # None
    /\ FaultModes \subseteq SUBSET Faults /\ MaxFrames \in [FaultModes -> Nat]

VARIABLES
    fault,            \* fixed in the initial state
    disp, waits,      \* place of the display thread, encoders it waits for
    handler,          \* context |-> encoder between the two steps of
                      \* sde_encoder_frame_done_callback
    kickoff_cnt,      \* pending_kickoff_cnt of each physical encoder
    retire_cnt, ctlstart_cnt, rd_ptr_cnt,   \* of the master
    te_seen,          \* rd_ptr_timestamp was set
    needs_reset,      \* enable_state is SDE_ENC_ERR_NEEDS_HW_RESET
    busy,             \* frame_busy_mask
    trig, hw,         \* hardware: start requested, encoders transferring
    latch,            \* interrupts not yet handled
    kicked, started   \* frames kicked off and started by the hardware

counts == <<kickoff_cnt, retire_cnt, ctlstart_cnt, rd_ptr_cnt>>
hardware == <<trig, hw, latch, started>>
vars == <<fault, disp, waits, handler, counts, te_seen, needs_reset, busy,
          events, fences, hardware, kicked>>

Context == {"irq", "disp"}

Init ==
    /\ fault \in FaultModes
    /\ disp = "free" /\ waits = {} /\ handler = [c \in Context |-> None]
    /\ kickoff_cnt = [p \in Phys |-> 0]
    /\ retire_cnt = 0 /\ ctlstart_cnt = 0 /\ rd_ptr_cnt = 0
    /\ te_seen = FALSE /\ needs_reset = FALSE /\ busy = {}
    /\ EventsInit
    /\ trig = FALSE /\ hw = {} /\ latch = {} /\ started = 0 /\ kicked = 0

-----------------------------------------------------------------------------
(* Events.                                                                 *)

\* A frame that is done also gives its buffers back.
FrameDone == {"done", "release"}

\* The master's handlers and time-outs report the retire fence if none did.
RetireEvent(p) == IF p = Master /\ retire_cnt > 0 THEN {"retire"} ELSE {}

\* Mutant: the encoder stays in the busy mask.
FrameDoneKept(c, p) ==
    busy' = busy /\ handler' = [handler EXCEPT ![c] = IF busy = {} THEN None ELSE p]

\* sde_encoder_frame_done_callback for a frame done or an error, up to the
\* test; suppressed if no frame is expected.
FrameDoneClear(c, p) ==
    /\ busy' = busy \ {p}
    /\ handler' = [handler EXCEPT ![c] = IF busy = {} THEN None ELSE p]

\* Mutant: the first encoder that is done reports the frame.
FrameDoneAny(c) == Post(FrameDone) /\ handler' = [handler EXCEPT ![c] = None]

FrameDoneTest(c) ==
    /\ Post(IF busy = {} THEN FrameDone ELSE {})
    /\ handler' = [handler EXCEPT ![c] = None]

\* The event thread.
WorkBegin ==
    /\ FrameEventWork
    /\ UNCHANGED <<fault, disp, waits, handler, counts, te_seen, needs_reset, busy,
                   hardware, kicked>>

WorkEnd ==
    /\ SignalFences
    /\ UNCHANGED <<fault, disp, waits, handler, counts, te_seen, needs_reset, busy,
                   hardware, kicked>>

-----------------------------------------------------------------------------
(* The hardware (tear check, CTL start and transfer).                      *)

HwStart ==
    /\ trig
    /\ trig' = FALSE /\ hw' = Phys /\ started' = started + 1
    /\ latch' \in IF "noctl" \in fault THEN {latch, latch \cup {"ctl"}}
                                       ELSE {latch \cup {"ctl"}}
    /\ UNCHANGED <<fault, disp, waits, handler, counts, te_seen, needs_reset, busy,
                   events, fences, kicked>>

HwDone(p) ==
    /\ p \in hw
    /\ hw' = hw \ {p} /\ latch' = latch \cup {p}
    /\ UNCHANGED <<fault, disp, waits, handler, counts, te_seen, needs_reset, busy,
                   events, fences, trig, started, kicked>>

HwTe ==
    /\ latch' = latch \cup {"rd"}
    /\ UNCHANGED <<fault, disp, waits, handler, counts, te_seen, needs_reset, busy,
                   events, fences, trig, hw, started, kicked>>

-----------------------------------------------------------------------------
(* Interrupts.                                                             *)

Irq(i) == handler["irq"] = None /\ i \in latch /\ latch' = latch \ {i}

\* sde_encoder_phys_cmd_pp_tx_done_irq, in two steps.
PpDoneBegin(p) ==
    /\ Irq(p)
    /\ Post(RetireEvent(p))
    /\ retire_cnt' = IF p = Master THEN Dec(retire_cnt) ELSE retire_cnt
    /\ ctlstart_cnt' = IF p = Master THEN Dec(ctlstart_cnt) ELSE ctlstart_cnt
    /\ FrameDoneClear("irq", p)
    /\ kickoff_cnt' = IF handler'["irq"] = None
                        THEN [kickoff_cnt EXCEPT ![p] = Dec(@)] ELSE kickoff_cnt
    /\ UNCHANGED <<fault, disp, waits, rd_ptr_cnt, te_seen, needs_reset, frame_pending,
                   worker, fences, trig, hw, started, kicked>>

PpDoneEnd ==
    /\ handler["irq"] # None
    /\ FrameDoneTest("irq")
    /\ kickoff_cnt' = [kickoff_cnt EXCEPT ![handler["irq"]] = Dec(@)]
    /\ UNCHANGED <<fault, disp, waits, retire_cnt, ctlstart_cnt, rd_ptr_cnt, te_seen,
                   needs_reset, busy, frame_pending, worker, fences, hardware, kicked>>

\* Mutant: the two counters are tested in the other order.
RdPtrSwapped ==
    /\ Irq("rd") /\ te_seen' = TRUE
    /\ retire_cnt' = Dec(retire_cnt)
    /\ rd_ptr_cnt' = IF retire_cnt > 0 THEN Dec(rd_ptr_cnt) ELSE rd_ptr_cnt
    /\ Post(IF retire_cnt > 0 /\ rd_ptr_cnt > 0 THEN {"retire"} ELSE {})
    /\ UNCHANGED <<fault, disp, waits, handler, kickoff_cnt, ctlstart_cnt, needs_reset,
                   busy, frame_pending, worker, fences, trig, hw, started, kicked>>

\* sde_encoder_phys_cmd_te_rd_ptr_irq.
RdPtrIrq ==
    /\ Irq("rd")
    /\ te_seen' = TRUE
    /\ rd_ptr_cnt' = Dec(rd_ptr_cnt)
    /\ IF rd_ptr_cnt > 0
         THEN Post(RetireEvent(Master)) /\ retire_cnt' = Dec(retire_cnt)
         ELSE UNCHANGED <<fevents, retire_cnt>>
    /\ UNCHANGED <<fault, disp, waits, handler, kickoff_cnt, ctlstart_cnt, needs_reset,
                   busy, frame_pending, worker, fences, trig, hw, started, kicked>>

\* sde_encoder_phys_cmd_ctl_start_irq; `recent': the read pointer interrupt
\* is at most ctl_start_threshold ago.
CtlStartIrq ==
    /\ Irq("ctl")
    /\ ctlstart_cnt' = Dec(ctlstart_cnt)
    /\ \E recent \in IF te_seen THEN BOOLEAN ELSE {FALSE} :
         \/ /\ retire_cnt > 0 /\ recent
            /\ Post(RetireEvent(Master)) /\ retire_cnt' = retire_cnt - 1
            /\ UNCHANGED rd_ptr_cnt
         \/ /\ retire_cnt > 0 /\ ~recent
            /\ rd_ptr_cnt' = rd_ptr_cnt + 1
            /\ UNCHANGED <<fevents, retire_cnt>>
         \/ retire_cnt = 0 /\ UNCHANGED <<fevents, retire_cnt, rd_ptr_cnt>>
    /\ UNCHANGED <<fault, disp, waits, handler, kickoff_cnt, te_seen, needs_reset, busy,
                   frame_pending, worker, fences, trig, hw, started, kicked>>

-----------------------------------------------------------------------------
(* The display thread.                                                     *)

\* sde_crtc_prepare_commit, then sde_encoder_prepare_for_kickoff waits for
\* the previous frame on every physical encoder.
PrepareCommit ==
    /\ disp = "free" /\ kicked < MaxFrames[fault]
    /\ disp' = "wait" /\ waits' = Phys
    /\ prepared' = prepared + 1
    /\ UNCHANGED <<fault, handler, counts, te_seen, needs_reset, busy, events,
                   released, retired, hardware, kicked>>

Waiting == disp \in {"wait", "off_wait"} /\ handler["disp"] = None

\* _sde_encoder_phys_cmd_wait_for_idle finds the transfer over.
WaitForIdle(p) ==
    /\ Waiting /\ p \in waits /\ kickoff_cnt[p] = 0
    /\ waits' = waits \ {p}
    /\ UNCHANGED <<fault, disp, handler, counts, te_seen, needs_reset, busy, events,
                   fences, hardware, kicked>>

\* _sde_encoder_phys_cmd_handle_ppdone_timeout.  A wait for the end of the
\* display (off_wait) gives up with the first encoder.
PpDoneTimeout(p) ==
    /\ "timeout" \in fault
    /\ Waiting /\ p \in waits /\ kickoff_cnt[p] > 0 /\ p \notin latch
    /\ waits' = IF disp = "wait" THEN waits \ {p} ELSE {}
    /\ Post(RetireEvent(p))
    /\ retire_cnt' = IF p = Master THEN Dec(retire_cnt) ELSE retire_cnt
    /\ ctlstart_cnt' = IF p = Master THEN Dec(ctlstart_cnt) ELSE ctlstart_cnt
    /\ kickoff_cnt' = [kickoff_cnt EXCEPT ![p] = IF disp = "wait" THEN 0 ELSE Dec(@)]
    /\ needs_reset' = TRUE
    /\ FrameDoneClear("disp", p)
    /\ UNCHANGED <<fault, disp, rd_ptr_cnt, te_seen, frame_pending, worker, fences,
                   hardware, kicked>>

PpDoneTimeoutEnd ==
    /\ handler["disp"] # None
    /\ FrameDoneTest("disp")
    /\ UNCHANGED <<fault, disp, waits, counts, te_seen, needs_reset, busy,
                   frame_pending, worker, fences, hardware, kicked>>

\* Mutant: the next frame does not wait for the previous one.
PrepareNoWait ==
    /\ disp = "wait" /\ disp' = "flush" /\ waits' = {}
    /\ UNCHANGED <<fault, handler, counts, te_seen, needs_reset, busy, events, fences,
                   hardware, kicked>>

\* The rest of sde_encoder_prepare_for_kickoff: the hardware is reset if a
\* transfer hung.  Interrupts raised before are handled by then.
PrepareForKickoff ==
    /\ disp = "wait" /\ Waiting /\ waits = {}
    /\ disp' = "flush"
    /\ needs_reset' = FALSE
    /\ IF needs_reset
         THEN /\ latch \cap (Phys \cup {"ctl"}) = {} /\ handler["irq"] = None
              /\ hw' = {} /\ trig' = FALSE
         ELSE UNCHANGED <<hw, trig>>
    /\ UNCHANGED <<fault, waits, handler, counts, te_seen, busy, events, fences,
                   latch, started, kicked>>

\* sde_crtc_commit_kickoff.
CommitKickoff ==
    /\ disp = "flush" /\ Flushed /\ disp' = "kick"
    /\ frame_pending' = frame_pending + 1
    /\ UNCHANGED <<fault, waits, handler, counts, te_seen, needs_reset, busy, fevents,
                   worker, fences, hardware, kicked>>

\* _sde_encoder_kickoff_phys: mark busy and flush; then count; then start.
KickoffFlush ==
    /\ disp = "kick" /\ disp' = "count"
    /\ busy' = Phys /\ retire_cnt' = retire_cnt + 1 /\ kicked' = kicked + 1
    /\ UNCHANGED <<fault, waits, handler, kickoff_cnt, ctlstart_cnt, rd_ptr_cnt,
                   te_seen, needs_reset, events, fences, hardware>>

KickoffCount ==
    /\ disp = "count" /\ disp' = "start"
    /\ kickoff_cnt' = [p \in Phys |-> kickoff_cnt[p] + 1]
    /\ ctlstart_cnt' = ctlstart_cnt + 1
    /\ UNCHANGED <<fault, waits, handler, retire_cnt, rd_ptr_cnt, te_seen, needs_reset,
                   busy, events, fences, hardware, kicked>>

KickoffStart ==
    /\ disp = "start" /\ disp' = "ctl"
    /\ trig' = TRUE
    /\ UNCHANGED <<fault, waits, handler, counts, te_seen, needs_reset, busy, events,
                   fences, hw, latch, started, kicked>>

\* _sde_encoder_phys_cmd_wait_for_ctl_start.
WaitForCtlStart ==
    /\ disp = "ctl" /\ ctlstart_cnt = 0 /\ disp' = "free"
    /\ UNCHANGED <<fault, waits, handler, counts, te_seen, needs_reset, busy, events,
                   fences, hardware, kicked>>

CtlStartTimeout ==
    /\ "noctl" \in fault
    /\ disp = "ctl" /\ ctlstart_cnt > 0 /\ "ctl" \notin latch /\ disp' = "free"
    /\ Post(RetireEvent(Master))
    /\ retire_cnt' = Dec(retire_cnt) /\ ctlstart_cnt' = Dec(ctlstart_cnt)
    /\ UNCHANGED <<fault, waits, handler, kickoff_cnt, rd_ptr_cnt, te_seen, needs_reset,
                   busy, frame_pending, worker, fences, hardware, kicked>>

\* The display is turned off: sde_encoder_virt_disable waits for the last
\* transfer, interrupts go, sde_crtc_disable resets both timelines.
Disable ==
    /\ "off" \in fault /\ disp = "free" /\ kicked > 0
    /\ disp' = "off_wait" /\ waits' = {p \in Phys : kickoff_cnt[p] > 0}
    /\ UNCHANGED <<fault, handler, counts, te_seen, needs_reset, busy, events, fences,
                   hardware, kicked>>

DisableIrqs ==
    /\ disp = "off_wait" /\ Waiting /\ waits = {} /\ handler["irq"] = None
    /\ disp' = "off_flush"
    /\ latch' = {} /\ hw' = {} /\ trig' = FALSE /\ needs_reset' = FALSE
    /\ UNCHANGED <<fault, waits, handler, counts, te_seen, busy, events, fences,
                   started, kicked>>

CrtcDisable ==
    /\ disp = "off_flush" /\ Flushed /\ disp' = "free"
    /\ ResetFences
    /\ UNCHANGED <<fault, waits, handler, counts, te_seen, needs_reset, busy,
                   hardware, kicked>>

-----------------------------------------------------------------------------
DispStep ==
    \/ \E p \in Phys : WaitForIdle(p) \/ PpDoneTimeout(p)
    \/ PpDoneTimeoutEnd \/ PrepareForKickoff \/ CommitKickoff
    \/ KickoffFlush \/ KickoffCount \/ KickoffStart
    \/ WaitForCtlStart \/ CtlStartTimeout \/ DisableIrqs \/ CrtcDisable

IrqStep ==
    \/ \E p \in Phys : PpDoneBegin(p)
    \/ PpDoneEnd \/ RdPtrIrq \/ CtlStartIrq

EventStep == WorkBegin \/ WorkEnd

HwStep == HwStart \/ \E p \in Phys : HwDone(p)

Next == PrepareCommit \/ Disable \/ DispStep \/ IrqStep \/ EventStep \/ HwStep \/ HwTe

\* The threads run, interrupts are handled, the hardware starts and ends a
\* transfer unless it hangs, in which case the wait times out.
Spec ==
    /\ Init /\ [][Next]_vars
    /\ WF_vars(DispStep) /\ WF_vars(EventStep) /\ WF_vars(HwStep)
    /\ WF_vars(PpDoneEnd) /\ WF_vars(RdPtrIrq) /\ WF_vars(CtlStartIrq)
    /\ \A p \in Phys : WF_vars(PpDoneBegin(p))

-----------------------------------------------------------------------------
TypeOK ==
    /\ fault \in FaultModes
    /\ disp \in {"free", "wait", "flush", "kick", "count", "start", "ctl",
                 "off_wait", "off_flush"}
    /\ waits \subseteq Phys /\ handler \in [Context -> Phys \cup {None}]
    /\ kickoff_cnt \in [Phys -> 0 .. 1]
    /\ retire_cnt \in 0 .. 1 /\ ctlstart_cnt \in Nat /\ rd_ptr_cnt \in Nat
    /\ te_seen \in BOOLEAN /\ needs_reset \in BOOLEAN /\ busy \subseteq Phys
    /\ EventsTypeOK
    /\ trig \in BOOLEAN /\ hw \subseteq Phys
    /\ latch \subseteq Phys \cup {"ctl", "rd"}
    /\ kicked \in 0 .. MaxFrames[fault] /\ started \in Nat

Transferring == trig \/ hw # {} \/ latch \cap Phys # {}

\* No fence is signalled early.  The one that hands buffers back waits until
\* the hardware has read the frame it belongs to (sde_encoder_frame_done_callback
\* waits for every physical encoder; the counters, events and the event thread
\* run behind the interrupts).  The retire fence, which ping-pong done, read
\* pointer, CTL start and the time-outs all count down, waits until its frame
\* has been kicked off.
ReleaseNotEarly ==
    fault \subseteq {"noctl"} => released <= kicked - B(Transferring /\ busy # {})
RetireAfterKickoff == "timeout" \notin fault => retired <= kicked

FencesNotEarly == ReleaseNotEarly /\ RetireAfterKickoff

\* When the display is at rest every frame is reported: both fences are
\* signalled and the CRTC counts no frame.
Quiet ==
    /\ disp = "free" /\ fevents = <<>> /\ worker = None
    /\ ~trig /\ hw = {} /\ latch \subseteq {"rd"} /\ handler["irq"] = None
QuietSignaled ==
    Quiet /\ "timeout" \notin fault =>
        released = prepared /\ retired = prepared /\ frame_pending = 0

\* Every frame userspace got fences for is reported on them, also when
\* interrupts are lost, the display goes off or a transfer hangs; and the
\* display thread gets through every commit: no wait for a frame, for the
\* start of one or for the event thread lasts forever.
FramesReported ==
    /\ \A n \in UNION {1 .. MaxFrames[f] : f \in FaultModes} :
         /\ prepared >= n ~> released >= n
         /\ prepared >= n /\ "timeout" \notin fault ~> retired >= n
    /\ disp # "free" ~> disp = "free"
=============================================================================
