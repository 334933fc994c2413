---------------------------- MODULE SdeEncoderRc ----------------------------
(***************************************************************************)
(* Resource control of one virtual encoder (msm/sde/sde_encoder.c): the    *)
(* state machine that decides when a display holds its clocks, interrupts  *)
(* and RSC vote, and the threads that feed it events.                      *)
(*                                                                         *)
(*   disp thread   one work item at a time: a commit (disable, seamless    *)
(*                 mode set, enable, frame), the delayed off work, the     *)
(*                 input work, the vblank work.  `disp' is its place in a  *)
(*                 commit, "free" between work items.                      *)
(*   interrupt     frame done of each physical encoder (or the time-out a  *)
(*                 waiting commit reports for it), in two steps.           *)
(*   event thread  CRTC frame events, and KICKOFF for a dead panel (ESD).  *)
(*   PM thread     the idle request of system suspend.                     *)
(*                                                                         *)
(* rc_lock is held across a step only by PRE_MODESET, while it waits for   *)
(* the transfer to end.  cur_master, the cached crtc and crtc->enabled     *)
(* change together within commits; they are the one variable `attached'.   *)
(***************************************************************************)
EXTENDS Integers, FiniteSets

CONSTANTS
    Phys,         \* physical encoders that report frame done
    HasIdlePc,    \* catalog->has_idle_pc
    Scenarios     \* what to look at, see ScenarioType

Displays == {"cmd", "vid", "wb"}
Faults == {"pm", "clk", "tx", "rm"}
EventSources == {"esd", "suspend", "input", "vblank", "seamless", "vidswitch",
                 "idlepc", "autorefresh"}

\* The capabilities of the display, what may fail, which optional event
\* sources there are, and the bounds on commits and touch events.
ScenarioType == [display : Displays, fault : SUBSET Faults,
                 actors : SUBSET EventSources, commits : Nat, inputs : Nat]

ASSUME RcAssumption ==
    /\ Phys # {} /\ IsFiniteSet(Phys)
    /\ HasIdlePc \in BOOLEAN
    /\ Scenarios \subseteq ScenarioType

VARIABLES
    scenario,         \* fixed in the initial state
    rc_state,         \* sde_enc->rc_state
    pm, clk,          \* runtime PM and DSI clock references held by it
    irq,              \* interrupts registered through irq_control
    vblank_refcount,  \* of the master physical encoder
    rsc,              \* the RSC client was last voted active
    off_work,         \* delayed_off_work is pending
    idle_pc_enabled,
    autorefresh,      \* is_autorefresh_enabled() of the master
    attached,
    phys_on,          \* physical encoders past their enable op
    busy,             \* frame_busy_mask
    done,             \* frame_done_callback between its two steps
    frame_pending,    \* of the CRTC
    fevents,          \* CRTC frame events queued to the event thread
    vblank_requested, \* of the CRTC
    vblank_enabled,   \* of the encoder
    input_work,       \* input_event_work is queued
    suspending,       \* PM thread waited and is about to request idle
    disp, commits, inputs

res == <<pm, clk, irq, vblank_refcount, rsc>>
rcvars == <<rc_state, res, off_work>>
frames == <<busy, done, frame_pending, fevents>>
conf == <<idle_pc_enabled, autorefresh, attached, phys_on>>
vblank == <<vblank_requested, vblank_enabled>>
others == <<input_work, suspending, inputs>>
vars == <<rcvars, frames, conf, vblank, others, disp, commits, scenario>>

RcStates == {"OFF", "PRE_OFF", "ON", "MODESET", "IDLE"}
Places == {"free", "mode_set", "enable", "prepare", "flush", "kick", "wait",
           "disable", "pre_stop", "stop", "crtc_disable"}

display == scenario.display
Fault == scenario.fault
Actors == scenario.actors
MaxCommits == scenario.commits
MaxInputs == scenario.inputs

TypeOK ==
    /\ rc_state \in RcStates
    /\ pm \in Nat /\ clk \in Nat /\ vblank_refcount \in Nat
    /\ irq \in BOOLEAN /\ rsc \in BOOLEAN /\ off_work \in BOOLEAN
    /\ idle_pc_enabled \in BOOLEAN /\ autorefresh \in BOOLEAN
    /\ attached \in BOOLEAN /\ phys_on \in BOOLEAN
    /\ busy \subseteq Phys /\ done \subseteq Phys
    /\ frame_pending \in Nat /\ fevents \in Nat
    /\ vblank_requested \in BOOLEAN /\ vblank_enabled \in BOOLEAN
    /\ input_work \in BOOLEAN /\ suspending \in BOOLEAN
    /\ disp \in Places \cup {"pre_modeset"}
    /\ scenario \in Scenarios
    /\ commits \in 0 .. MaxCommits /\ inputs \in 0 .. MaxInputs

vid == display = "vid"
B(b) == IF b THEN 1 ELSE 0

\* sde_encoder_setup_display: only panels get idle power collapse.
Init ==
    /\ scenario \in Scenarios
    /\ rc_state = "OFF" /\ pm = 0 /\ clk = 0 /\ vblank_refcount = 0
    /\ irq = FALSE /\ rsc = FALSE /\ off_work = FALSE
    /\ idle_pc_enabled = (HasIdlePc /\ display # "wb")
    /\ autorefresh = FALSE /\ attached = FALSE /\ phys_on = FALSE
    /\ busy = {} /\ done = {} /\ frame_pending = 0 /\ fevents = 0
    /\ vblank_requested = FALSE /\ vblank_enabled = FALSE
    /\ input_work = FALSE /\ suspending = FALSE /\ inputs = 0
    /\ disp = "free" /\ commits = 0

\* pending_kickoff_cnt of some physical encoder is not zero: it is counted
\* down after handle_frame_done returned.
Transferring == busy # {} \/ done # {}

\* A wait for TX_COMPLETE that gave up on one encoder returns at once and
\* leaves the others transferring.
TxTimedOut == "tx" \in Fault /\ busy # {} /\ busy # Phys

RcUnlocked == disp # "pre_modeset"

-----------------------------------------------------------------------------
(* _sde_encoder_irq_control and _sde_encoder_resource_control_helper.      *)

\* The vblank interrupt is counted and never goes below zero.
VblankDec(n) == IF n = 0 THEN 0 ELSE n - 1

IrqOn == irq' = TRUE /\ vblank_refcount' = vblank_refcount + 1
IrqOff == irq' = FALSE /\ vblank_refcount' = VblankDec(vblank_refcount)

\* Enabling.  A failed pm_runtime_get_sync keeps the reference it took; a
\* failed clock request gives it back.
HelperOn(outcome) ==
    /\ outcome \in {"ok"} \cup (Fault \cap {"pm", "clk"})
    /\ pm' = pm + B(outcome # "clk")
    /\ clk' = clk + B(outcome = "ok")
    /\ IF outcome = "ok"
         THEN IrqOn /\ rsc' = TRUE /\ rc_state' = "ON"
         ELSE UNCHANGED <<irq, vblank_refcount, rsc, rc_state>>

HelperOff ==
    /\ IrqOff
    /\ clk' = clk - 1
    /\ pm' = pm - 1

-----------------------------------------------------------------------------
(* sde_encoder_resource_control, one operator per event.                   *)

\* SDE_ENC_RC_EVENT_KICKOFF; it failed unless rc_state' = "ON".
Kickoff ==
    /\ off_work' = FALSE
    /\ \/ rc_state \in {"ON", "PRE_OFF", "MODESET"} /\ UNCHANGED <<rc_state, res>>
       \/ /\ vid /\ rc_state = "IDLE"
          /\ IrqOn
          /\ rc_state' = "ON"
          /\ UNCHANGED <<pm, clk, rsc>>
       \/ /\ rc_state = "OFF" \/ (rc_state = "IDLE" /\ ~vid)
          /\ \E o \in {"ok", "pm", "clk"} : HelperOn(o)

\* SDE_ENC_RC_EVENT_FRAME_DONE, in interrupt context and without rc_lock.
FrameDoneEvent ==
    IF idle_pc_enabled /\ attached /\ rc_state = "ON"
         /\ frame_pending <= 1 /\ ~autorefresh
      THEN off_work' = TRUE
      ELSE UNCHANGED off_work

\* SDE_ENC_RC_EVENT_PRE_STOP after its cancel.
PreStop ==
    \/ /\ rc_state = "OFF" \/ (rc_state = "IDLE" /\ ~vid)
       /\ UNCHANGED <<rc_state, res>>
    \/ /\ rc_state \in {"ON", "MODESET", "PRE_OFF"} \/ (rc_state = "IDLE" /\ vid)
       /\ IF rc_state = "IDLE" THEN IrqOn
                               ELSE UNCHANGED <<irq, vblank_refcount>>
       /\ rsc' = FALSE
       /\ rc_state' = "PRE_OFF"
       /\ UNCHANGED <<pm, clk>>

\* Mutant: an encoder stopped while idle gives its references back again.
StopFromIdle ==
    \/ rc_state \in {"OFF", "ON", "MODESET"} /\ UNCHANGED <<rc_state, res>>
    \/ /\ rc_state \in {"PRE_OFF", "IDLE"}
       /\ HelperOff
       /\ rc_state' = "OFF"
       /\ UNCHANGED rsc

\* SDE_ENC_RC_EVENT_STOP.
Stop ==
    \/ rc_state \in {"OFF", "ON", "MODESET"} /\ UNCHANGED <<rc_state, res>>
    \/ /\ rc_state \in {"PRE_OFF", "IDLE"}
       /\ IF rc_state = "PRE_OFF" THEN HelperOff
                                  ELSE UNCHANGED <<pm, clk, irq, vblank_refcount>>
       /\ rc_state' = "OFF"
       /\ UNCHANGED rsc

\* SDE_ENC_RC_EVENT_ENTER_IDLE.
EnterIdle ==
    IF idle_pc_enabled /\ rc_state = "ON" /\ busy = {}
      THEN /\ rc_state' = "IDLE"
           /\ IF vid THEN IrqOff /\ UNCHANGED <<pm, clk, rsc>>
                     ELSE HelperOff /\ rsc' = FALSE
      ELSE UNCHANGED <<rc_state, res>>

\* Mutant: waking up does not arm the off work.
EarlyWakeupNoTimer ==
    IF ~idle_pc_enabled \/ ~attached
      THEN UNCHANGED rcvars
      ELSE \/ rc_state # "IDLE" /\ UNCHANGED rcvars
           \/ /\ rc_state = "IDLE" /\ UNCHANGED off_work
              /\ \E o \in {"ok", "pm", "clk"} : HelperOn(o)

\* SDE_ENC_RC_EVENT_EARLY_WAKEUP.
EarlyWakeup ==
    IF ~idle_pc_enabled \/ ~attached
      THEN UNCHANGED rcvars
      ELSE \/ /\ rc_state = "ON"
              /\ off_work' = (off_work \/ (~autorefresh /\ frame_pending = 0))
              /\ UNCHANGED <<rc_state, res>>
           \/ /\ rc_state = "IDLE"
              /\ \E o \in {"ok", "pm", "clk"} : HelperOn(o)
              /\ off_work' = (off_work \/ rc_state' = "ON")
           \/ rc_state \notin {"ON", "IDLE"} /\ UNCHANGED rcvars

-----------------------------------------------------------------------------
(* Commits on the disp thread.                                             *)

Commit(place) ==
    /\ disp = "free" /\ commits < MaxCommits
    /\ commits' = commits + 1
    /\ disp' = place
    /\ UNCHANGED <<frames, others>>

RegisterVblank ==
    vblank_refcount' = vblank_refcount + 1 /\ vblank_enabled' = TRUE

UnregisterVblank ==
    vblank_refcount' = VblankDec(vblank_refcount) /\ vblank_enabled' = FALSE

\* Mode set of a display that was off, and sde_crtc_enable.
CommitEnable ==
    /\ ~attached
    /\ Commit("enable")
    /\ attached' = TRUE
    /\ IF vblank_requested
         THEN RegisterVblank
         ELSE UNCHANGED <<vblank_refcount, vblank_enabled>>
    /\ UNCHANGED <<rc_state, pm, clk, irq, rsc, off_work, idle_pc_enabled,
                   autorefresh, phys_on, vblank_requested>>

CommitFrame ==
    /\ attached
    /\ Commit("prepare")
    /\ UNCHANGED <<rcvars, conf, vblank>>

CommitDisable ==
    /\ attached
    /\ Commit("disable")
    /\ UNCHANGED <<rcvars, conf, vblank>>

\* sde_encoder_virt_mode_set of a seamless switch up to the wait of
\* SDE_ENC_RC_EVENT_PRE_MODESET, which holds rc_lock; without the resources
\* the mode set returns.
CommitSeamless ==
    /\ attached
    /\ CASE display = "cmd" -> "seamless" \in Actors
         [] display = "vid" -> "vidswitch" \in Actors
         [] display = "wb" -> FALSE
    /\ disp = "free" /\ commits < MaxCommits
    /\ commits' = commits + 1
    /\ off_work' = FALSE
    /\ \/ rc_state = "OFF" /\ disp' = "mode_set" /\ UNCHANGED <<rc_state, res>>
       \/ rc_state = "ON" /\ disp' = "pre_modeset" /\ UNCHANGED <<rc_state, res>>
       \/ /\ rc_state \notin {"OFF", "ON"}
          /\ \E o \in {"ok", "pm", "clk"} : HelperOn(o)
          /\ disp' = IF rc_state' = "ON" THEN "pre_modeset" ELSE "enable"
    /\ UNCHANGED <<frames, conf, vblank, others>>

\* Mutant: the vblank request of userspace is kept across PRE_MODESET.
PreModesetKeepsVblank ==
    /\ disp = "pre_modeset"
    /\ \/ /\ ~Transferring
          /\ IrqOff
          /\ rc_state' = "MODESET" /\ disp' = "mode_set"
       \/ /\ TxTimedOut /\ disp' = "enable"
          /\ UNCHANGED <<rc_state, irq, vblank_refcount>>
    /\ UNCHANGED <<pm, clk, rsc, off_work, frames, conf, vblank, others, commits>>

\* The rest of PRE_MODESET: interrupts off, and the vblank reference of
\* userspace dropped.
PreModeset ==
    /\ disp = "pre_modeset"
    /\ \/ /\ ~Transferring
          /\ irq' = FALSE
          /\ vblank_refcount' =
               LET n == VblankDec(vblank_refcount)
               IN IF vblank_enabled THEN VblankDec(n) ELSE n
          /\ rc_state' = "MODESET" /\ disp' = "mode_set"
       \/ /\ TxTimedOut /\ disp' = "enable"
          /\ UNCHANGED <<rc_state, irq, vblank_refcount>>
    /\ UNCHANGED <<pm, clk, rsc, off_work, frames, conf, vblank, others, commits>>

\* The hardware blocks are looked up; an error returns before POST_MODESET,
\* which does nothing unless the state is MODESET.
PostModeset ==
    /\ disp = "mode_set" /\ disp' = "enable"
    /\ \E found \in IF "rm" \in Fault THEN BOOLEAN ELSE {TRUE} :
         IF found /\ rc_state = "MODESET"
           THEN /\ irq' = TRUE
                /\ vblank_refcount' = vblank_refcount + B(vblank_enabled) + 1
                /\ rsc' = TRUE
                /\ rc_state' = "ON"
                /\ UNCHANGED <<pm, clk>>
           ELSE UNCHANGED <<rc_state, res>>
    /\ UNCHANGED <<off_work, frames, conf, vblank, others, commits>>

\* sde_encoder_virt_enable: the off work is initialised and KICKOFF.
VirtEnable ==
    /\ disp = "enable" /\ disp' = "prepare"
    /\ Kickoff
    /\ phys_on' = (phys_on \/ rc_state' = "ON")
    /\ UNCHANGED <<frames, idle_pc_enabled, autorefresh, attached, vblank,
                   others, commits>>

\* sde_encoder_prepare_for_kickoff waits for the previous frame; then the
\* idle_pc and autorefresh properties of the commit take effect.
PrepareForKickoff ==
    /\ disp = "prepare" /\ ~Transferring /\ disp' = "flush"
    /\ Kickoff
    /\ idle_pc_enabled' \in IF "idlepc" \in Actors THEN BOOLEAN ELSE {idle_pc_enabled}
    /\ autorefresh' \in IF "autorefresh" \in Actors THEN BOOLEAN ELSE {FALSE}
    /\ UNCHANGED <<frames, attached, phys_on, vblank, others, commits>>

\* sde_crtc_commit_kickoff after the encoders are prepared.
CommitKickoff ==
    /\ disp = "flush" /\ disp' = "kick"
    /\ frame_pending = 0 \/ fevents = 0
    /\ frame_pending' = frame_pending + 1
    /\ UNCHANGED <<rcvars, busy, done, fevents, conf, vblank, others, commits>>

\* _sde_encoder_kickoff_phys: physical encoders that are disabled are skipped.
EncoderKickoff ==
    /\ disp = "kick" /\ disp' = "wait"
    /\ busy' = IF phys_on THEN Phys ELSE busy
    /\ UNCHANGED <<rcvars, done, frame_pending, fevents, conf, vblank, others,
                   commits>>

\* A command mode commit ends when the transfer has started.
WaitForCommitDone ==
    /\ disp = "wait" /\ disp' = "free"
    /\ display = "cmd" \/ ~Transferring
    /\ UNCHANGED <<rcvars, frames, conf, vblank, others, commits>>

\* Mutant: the wait for idle is left out.
VirtDisableNoWait ==
    /\ disp = "disable" /\ disp' = "pre_stop"
    /\ \/ display = "wb" /\ Kickoff
       \/ off_work' = FALSE /\ UNCHANGED <<rc_state, res>>
    /\ UNCHANGED <<frames, conf, vblank, others, commits>>

\* sde_encoder_virt_disable: wait for idle and unregister the input handler;
\* a writeback display is turned on again if its mode changes.  PRE_STOP
\* cancels the off work.
VirtDisable ==
    /\ disp = "disable" /\ disp' = "pre_stop"
    /\ ~Transferring \/ TxTimedOut
    /\ \/ display = "wb" /\ Kickoff
       \/ off_work' = FALSE /\ UNCHANGED <<rc_state, res>>
    /\ UNCHANGED <<frames, conf, vblank, others, commits>>

VirtDisablePreStop ==
    /\ disp = "pre_stop" /\ disp' = "stop"
    /\ PreStop
    /\ UNCHANGED <<off_work, frames, conf, vblank, others, commits>>

VirtDisableStop ==
    /\ disp = "stop" /\ disp' = "crtc_disable"
    /\ Stop
    /\ attached' = FALSE /\ phys_on' = FALSE
    /\ UNCHANGED <<off_work, frames, idle_pc_enabled, autorefresh, vblank, others,
                   commits>>

\* Mutant: the event thread is not flushed.
CrtcDisableNoFlush ==
    /\ disp = "crtc_disable" /\ disp' = "free"
    /\ IF vblank_requested
         THEN UnregisterVblank
         ELSE UNCHANGED <<vblank_refcount, vblank_enabled>>
    /\ frame_pending' = 0
    /\ idle_pc_enabled' = (idle_pc_enabled \/ HasIdlePc)
    /\ UNCHANGED <<rc_state, pm, clk, irq, rsc, off_work, busy, done, fevents,
                   autorefresh, attached, phys_on, vblank_requested, others,
                   commits>>

\* sde_crtc_disable.
CrtcDisable ==
    /\ disp = "crtc_disable" /\ disp' = "free"
    /\ frame_pending = 0 \/ fevents = 0
    /\ IF vblank_requested
         THEN UnregisterVblank
         ELSE UNCHANGED <<vblank_refcount, vblank_enabled>>
    /\ frame_pending' = 0
    /\ idle_pc_enabled' = (idle_pc_enabled \/ HasIdlePc)
    /\ UNCHANGED <<rc_state, pm, clk, irq, rsc, off_work, busy, done, fevents,
                   autorefresh, attached, phys_on, vblank_requested, others,
                   commits>>

-----------------------------------------------------------------------------
(* Other work items of the disp thread.                                    *)

\* sde_encoder_off_work.
OffWork ==
    /\ disp = "free" /\ off_work
    /\ off_work' = FALSE
    /\ EnterIdle
    /\ UNCHANGED <<frames, conf, vblank, others, disp, commits>>

\* sde_encoder_input_event_handler, registered for command mode panels only.
InputEvent ==
    /\ "input" \in Actors /\ display = "cmd"
    /\ attached /\ disp \notin {"pre_stop", "stop", "crtc_disable"}
    /\ ~input_work /\ inputs < MaxInputs
    /\ input_work' = TRUE /\ inputs' = inputs + 1
    /\ UNCHANGED <<rcvars, frames, conf, vblank, suspending, disp, commits>>

InputEventWork ==
    /\ disp = "free" /\ input_work
    /\ input_work' = FALSE
    /\ EarlyWakeup
    /\ UNCHANGED <<frames, conf, vblank, suspending, inputs, disp, commits>>

\* sde_crtc_vblank, from the work that userspace's request queued.
CrtcVblank ==
    /\ "vblank" \in Actors
    /\ disp = "free"
    /\ vblank_requested' = ~vblank_requested
    /\ IF attached
         THEN IF vblank_requested THEN UnregisterVblank ELSE RegisterVblank
         ELSE UNCHANGED <<vblank_refcount, vblank_enabled>>
    /\ UNCHANGED <<rc_state, pm, clk, irq, rsc, off_work, frames, conf, others,
                   disp, commits>>

-----------------------------------------------------------------------------
(* Interrupts, event thread and suspend.                                   *)

\* sde_encoder_frame_done_callback for physical encoder p: the interrupt, or
\* the time-out of a commit that waits for the transfer.  Interrupts are
\* dispatched one after the other; a time-out can overlap one.
FrameDoneBegin(p) ==
    /\ p \in busy /\ attached
    /\ done = {} \/ "tx" \in Fault
    /\ irq \/ disp \in {"prepare", "pre_modeset", "disable", "wait"}
    /\ busy' = busy \ {p} /\ done' = done \cup {p}
    /\ UNCHANGED <<rcvars, frame_pending, fevents, conf, vblank, others, disp,
                   commits>>

FrameDoneEnd(p) ==
    /\ p \in done
    /\ done' = done \ {p}
    /\ IF busy = {}
         THEN /\ FrameDoneEvent
              /\ fevents' = fevents + B(attached \/ disp = "crtc_disable")
         ELSE UNCHANGED <<off_work, fevents>>
    /\ UNCHANGED <<rc_state, res, busy, frame_pending, conf, vblank, others, disp,
                   commits>>

\* sde_crtc_frame_event_work.
FrameEventWork ==
    /\ fevents > 0
    /\ fevents' = fevents - 1
    /\ frame_pending' = IF frame_pending < 1 THEN frame_pending ELSE frame_pending - 1
    /\ UNCHANGED <<rcvars, busy, done, conf, vblank, others, disp, commits>>

\* sde_encoder_display_failure_notification: the ESD thread is stopped before
\* the encoder is disabled.
EsdTrigger ==
    /\ "esd" \in Actors
    /\ attached /\ phys_on /\ RcUnlocked
    /\ disp \notin {"disable", "pre_stop", "stop", "crtc_disable"}
    /\ Kickoff
    /\ UNCHANGED <<frames, conf, vblank, others, disp, commits>>

\* _sde_kms_pm_suspend_idle_helper.
SuspendWait ==
    /\ "suspend" \in Actors
    /\ attached /\ phys_on /\ ~suspending /\ ~Transferring
    /\ suspending' = TRUE
    /\ UNCHANGED <<rcvars, frames, conf, vblank, input_work, inputs, disp, commits>>

SuspendIdle ==
    /\ suspending /\ RcUnlocked
    /\ suspending' = FALSE
    /\ EnterIdle
    /\ UNCHANGED <<off_work, frames, conf, vblank, input_work, inputs, disp, commits>>

-----------------------------------------------------------------------------
CommitStep ==
    \/ PreModeset \/ PostModeset \/ VirtEnable \/ PrepareForKickoff
    \/ CommitKickoff \/ EncoderKickoff \/ WaitForCommitDone
    \/ VirtDisable \/ VirtDisablePreStop \/ VirtDisableStop \/ CrtcDisable

\* All commits of a bounded run are done and nothing is left to do; a frame
\* started with interrupts off waits for a commit to time it out.
Quiet ==
    /\ disp = "free" /\ commits = MaxCommits
    /\ ~off_work /\ ~input_work /\ fevents = 0 /\ ~suspending
    /\ done = {} /\ (busy = {} \/ ~irq)
    /\ UNCHANGED <<rcvars, frames, conf, vblank, others, disp, commits>>

Steps ==
    \/ CommitEnable \/ CommitFrame \/ CommitDisable \/ CommitSeamless
    \/ CommitStep
    \/ OffWork \/ InputEvent \/ InputEventWork \/ CrtcVblank
    \/ \E p \in Phys : FrameDoneBegin(p) \/ FrameDoneEnd(p)
    \/ FrameEventWork \/ EsdTrigger \/ SuspendWait \/ SuspendIdle
    \/ Quiet

Next == Steps /\ UNCHANGED scenario

Spec == Init /\ [][Next]_vars

\* The worker threads run, a transfer ends or is timed out, the off timer
\* expires.
FairSpec ==
    /\ Spec
    /\ WF_vars(CommitStep /\ UNCHANGED scenario)
    /\ WF_vars(OffWork /\ UNCHANGED scenario)
    /\ WF_vars(InputEventWork /\ UNCHANGED scenario)
    /\ WF_vars(FrameEventWork /\ UNCHANGED scenario)
    /\ WF_vars((\E p \in Phys : FrameDoneBegin(p) \/ FrameDoneEnd(p))
               /\ UNCHANGED scenario)

-----------------------------------------------------------------------------
\* Nothing fails, no panel dies and the system is not suspended.
Undisturbed == Fault = {} /\ Actors \cap {"esd", "suspend"} = {}

\* A disabled display holds no reference: STOP is to "disable all the MDP/DSI
\* core clocks, and disable IRQs".
OffHoldsNothing ==
    disp = "free" /\ ~attached => pm = 0 /\ clk = 0 /\ ~irq

\* Everything the encoder counts follows its state, whatever order kickoff,
\* idle, wake-up, mode set, stop and a dead panel came in
\* (sde_encoder_resource_control):
\*   - it holds one runtime PM reference and one DSI clock reference exactly
\*     while its state says so: video mode keeps its clocks while idle, every
\*     other display gives them back, and OFF holds nothing.  Left out: a failed
\*     pm_runtime_get_sync, a mode set that fails half-way and is repeated, and
\*     the switch of an idle video panel, which all keep a reference for good;
\*   - the vblank interrupt is referenced once while its interrupts are on and
\*     once for userspace, except during a mode switch, where PRE_MODESET
\*     dropped both; userspace's request reaches the encoder;
\*   - interrupts are on while the encoder is on or about to be off; an encoder
\*     that is off, about to be off or (but for video mode) idle lets the RSC
\*     collapse, any other keeps it up.
Held == \/ rc_state \in {"ON", "PRE_OFF", "MODESET"}
        \/ rc_state = "IDLE" /\ vid

ClocksBalanced ==
    Fault \cap {"pm", "rm"} = {} /\ "vidswitch" \notin Actors =>
        pm = B(Held) /\ clk = B(Held)

VblankBalanced ==
    "rm" \notin Fault =>
        /\ irq <=> rc_state \in {"ON", "PRE_OFF"}
        /\ vblank_refcount = B(irq) + B(vblank_enabled /\ rc_state # "MODESET")
        /\ disp = "free" => (vblank_enabled <=> attached /\ vblank_requested)

RscVoteFollows ==
    rsc <=> rc_state \in {"ON", "MODESET"} \/ (vid /\ rc_state = "IDLE")

ReferencesBalanced == ClocksBalanced /\ VblankBalanced /\ RscVoteFollows

\* A frame is transferred only with the encoder on: neither an off work that
\* was armed before the frame nor a mode switch nor a stop takes the clocks
\* and interrupts away from it.
FrameHasResources ==
    Undisturbed /\ busy # {} => rc_state = "ON" /\ irq /\ rsc

\* The CRTC counts a frame as pending (and so keeps its bandwidth vote) from
\* before the frame starts until it is done, although the count goes down
\* later, in the event thread, which commits flush only while the count is
\* not zero: an event of a disabled display must not count down a frame that
\* the display sends after it is enabled again.
PendingWhileBusy == Undisturbed /\ busy # {} => frame_pending >= 1

\* Every wait for the hardware ends, PRE_MODESET's with rc_lock held
\* included, and an encoder that is on reaches idle or off, or is told to stay
\* on by the autorefresh or idle property of a commit.
ReturnsToIdle ==
    Undisturbed /\ rc_state = "ON" ~> \/ rc_state \in {"IDLE", "OFF"}
                       \/ autorefresh \/ ~idle_pc_enabled
=============================================================================
