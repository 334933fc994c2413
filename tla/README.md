# A TLA+ verification project for the display drivers

TLA+ models of the display driver techpack (`msm/`, `rotator/`, `msm-hyp/`, …),
the TLC configurations that check them on small instances, and theorems checked
by TLAPS. The parts chosen are those whose correctness rests on the order in
which several threads, interrupts and hardware blocks act: fences and frame
events, the command and video mode frame paths, atomic commits and the hardware
they share, the display RSC, the encoder's resource control, DSI clocks and
lanes, DisplayPort hot plug with HDCP, and the rotator.

Contents: 1. the system; 2. the modules; 3. how each corresponds to the code;
4. the runs; 5. bounds; 6. fairness and deadlock; 7. the proofs; 8. what the
models show that no run keeps; 9. what is not modelled; 10. the plan.

## 1. The system

The SDE driver is a DRM/KMS driver. A commit (ioctl thread, then one thread per
display) programs planes, CRTCs, encoders and connectors. Interrupts and one
event thread per CRTC report the frames that finished. Fence timelines tell user
space when a buffer is free again. Three layers decide when the hardware has
power: the encoder's resource control, the RSC with its power handle, and the
DSI clock manager. Work items, hot plug, suspend, recovery workers and debug
files feed all of them from the side. The rotator is a V4L2 device of its own.

    ioctl ──► msm_atomic ──► disp thread ──► CRTC ──► encoder ──► phys encoders ──► interrupts
                │    │ sde_rm                  │        │  resource control             │
                │ fences                       │        ├──► RSC ◄── power handle       │
                ▼                              ▼        │                               │
            sde_fence ◄──────────────── event thread ◄──┼───────────────────────────────┘
                                                        ├──► DSI bridge, display ──► clock manager ──► lanes
            USB-C port ──► DP hot plug works ◄──────────┴──► DP bridge ──► controller, HDCP

| Component | State it keeps | Operations | Who calls it, what is hard | What makes it correct | Module |
|---|---|---|---|---|---|
| Fence timeline (`sde/sde_fence.c`) | `commit_count`, `done_count`, list of fences, kref of the timeline; each fence a trigger value, a kref, a status | prepare, create, signal, reset, trigger, deinit; user space polls, waits, closes | ioctl thread creates while the event thread signals; the trigger takes the list private; the counters wrap | exact reference counts, no early and no forgotten signal | `SdeFence` |
| CRTC (`sde/sde_crtc.c`) | frame event pool, `frame_pending`, cached state | begin, flush, kickoff, frame event, enable, disable | events of all frames in flight share a pool and are late | every frame counted down and its fences signalled once | `SdeFrameEvents` |
| Physical encoders, command mode (`sde_encoder_phys_cmd.c`) | kickoff, retire fence, CTL start and read pointer counters | kickoff, four interrupts, waits | interrupts in any order, lost interrupts, time-outs | each fence signalled once, for its frame | `SdeCmdFrames` |
| Physical encoders, video mode (`sde_encoder_phys_vid.c`) | kickoff and retire fence counters, timing engine | kickoff, vsync, waits, disable | the interrupt runs long after its vsync, beside a flush | reports only what the hardware took; stopped before it is taken apart | `SdeVidFrames` |
| Core interrupts (`sde_core_irq.c`, `sde_hw_interrupts.c`) | enable count and callbacks, mask and saved status | enable, disable, register, dispatch | the handler runs beside register and unregister | no callback after unregister, no vsync reported twice | in `SdeVidFrames` |
| Atomic commit (`msm_atomic.c`) | `pending_crtcs/planes/rm` | check, commit, dispatch to threads | overlapping commits, interrupted waits | no two overlapping commits at work | `MsmAtomic`, `ExclusiveCommits` |
| Resource manager (`sde_rm.c`) | reservations of hardware blocks per encoder | check, reserve, release, "next" state of a commit | the search may fail half way; test commits reserve too | no block with two owners, reservations fit | `SdeRm` |
| Display RSC (`sde_rsc*.c`) | vote of each client, block state, `power_collapse`, clock and supply references, `rsc_vsync_wait` | state update, vsync wait, freeze | displays and power handle vote in any order; two revisions; a call sleeps with the lock held; hibernation | block follows the votes, never collapsed under an active client | `SdeRsc` |
| Encoder resource control (`sde/sde_encoder.c`) | `rc_state`, runtime PM, DSI clock, interrupt and RSC references, delayed off work, `frame_busy_mask` | KICKOFF, FRAME_DONE, PRE_STOP, STOP, PRE/POST_MODESET, ENTER_IDLE, EARLY_WAKEUP | commits, off work, touch, frame done interrupts and time-outs, dead panel, suspend | balanced references, no frame without resources, always a way back to idle | `SdeEncoderRc` |
| DSI clock manager (`dsi/dsi_clk_manager.c`) | reference count and state per client and clock group, state and enables of the manager | request on/off, forced rate update | two clients from five threads; failure half way through | clocks follow the votes, core before link, LP before HS | `DsiClkManager` |
| DSI display, bridge, panel (`dsi/dsi_display.c`, `dsi_drm.c`) | `ulps_enabled`, clamp, PHY idle, panel state, pending recovery and rate change | enable, disable, mode switch, idle, backlight, status check, recovery | callbacks run inside every clock change; ESD and error workers | lanes usable whenever clocked, parked when not, all released when off | `DsiDisplay` |
| DisplayPort (`dp/dp_display.c`) | connection, core and link state, streams | hot plug, attention, enable and disable of streams, suspend | USB callbacks, three works, commits of each stream and PM meet | no plug lost, an unplug leaves nothing on | `DpDisplay` |
| HDCP (`sde_hdcp_1x.c`) | `hdcp_state` without a lock | authenticate, cp_irq, off, reauthenticate | the work overwrites what the interrupt wrote | talks only to a host that is up; inactive after off | `SdeHdcp1x` |
| Rotator (`rotator/`) | requests, two work queues, hardware slots, fences, buffers | queue, submit, commit, done, stop, cancel, close | cancellation drops the lock; stopping times out | every frame finished or cancelled once, slots and votes balanced | `SdeRotator` |
| Power handle (`sde_power_handle.c`) | bus votes, supplies, RSC and clock switching in order | enable, disable, quota, events | error unwinding under one mutex | order kept, all undone on failure | – |
| Recovery manager (`sde_recovery_manager.c`) | clients, pool and lists of events | register, set event, work | fixed pool, static result flag | no event lost, right result reported | – |
| DSI controller (`dsi/dsi_ctrl.c`) | controller and interrupt states, command DMA | transfer, host and engine states, error handling | completion races the time-out | one answer per transfer | as called by `DsiDisplay` |
| Buffers (`msm_gem*.c`, `msm_smmu.c`) | mappings, active list of an address space, locks | get/put address, attach, detach | opposite lock orders | no mapping used after detach, no deadlock | – |
| Lease (`msm-lease/`), shared displays (`shd/`, `shp/`), `msm-hyp/` | masters, base display state, copies of the fence and overlap schemes | open, close, forward | who closes last | objects leased once | – |
| Core perf, VBIF, KMS, planes, connector, catalog, colour processing | votes, registers, cached state | checks and programming within a commit | mostly one thread | arithmetic and register order | – |

`PROJECT.json` lists every component with its status, and the hazards of the
code at their lines with the properties that cover them. Further places that are
hard to test:

| Where | What |
|---|---|
| `sde_fence.c:315` | an error signal sets the error of every listed fence, of later commits too |
| `sde_rm.c:1632` | the result of `_sde_rm_reserve_ctls` is ignored: a reservation succeeds without a CTL |
| `sde_encoder.c:2576` | the vblank interrupt is counted by resource control and by user space, and a mode switch drops and takes both (`ReferencesBalanced`) |
| `sde_encoder.c:2676`, `:2884`, `:3408`, `:6100` | partial failures and time-outs of the resource control, see section 8 |
| `dsi_drm.c:163` | every pre_enable clears `esd_recovery_pending`, also that of a seamless switch, which resets nothing (`LanesFollowClocks`) |
| `dsi_display.c:7299` | a new link rate waits for the next frame with both locks free, and is deferred while the link is off (`ClkPromise`, `LanesFollowClocks`) |
| `dp_display.c:854` | hot plug without a base connector fails with `is_connected` set (`refused` in `DpDisplay`) |
| `sde_core_irq.c:117`, `:184` | enable count and mask change in two steps; `vblank_ctl_lock` keeps those of a vsync in sequence, other interrupts have no such lock |
| `dsi_ctrl_hw_cmn.c:958` | the interrupt handler reads the status (`dsi_ctrl.c:2360`) and then writes back what it reads a second time: a DMA done that arrives in between is cleared unseen, and only the fallback of the wait finds it |
| `sde_recovery_manager.c:239` | the result flag is static and never set back: after one failure every recovery counts as failed |
| `sde_recovery_manager.c:353` | the event pool is fixed; an event in progress is not recognised as a duplicate |
| `sde_vbif.c:553` | the first client that does not acknowledge a halt ends the loop, those before it stay halted |
| `msm_gem.c:444` | a failing re-attach leaves an error pointer and returns 0 without an address |
| `msm_gem.c:555`, `:562` | detach puts addresses without the object lock; attach takes the object lock under `list_lock`, `msm_gem_get_iova` (line 484) in the opposite order |
| `msm_drv_hyp.c:1781`, `msm_hyp_fence.c:281` | copies of the overlap mask and of the fence trigger |
| `sde_rsc.c:189` | destroying the primary client leaves `rsc->primary_client` pointing at it |
| `msm_lease_drv.c:480` | when the first file of a lease closes, the next open leases the same objects again |

## 2. The modules

| Module | Models | Used by |
|---|---|---|
| `SdeFence` | one fence timeline and its threads | `MCSdeFence`, `SdeTimelineProofs` |
| `SdeFrameEvents` | the frame events of a CRTC and its event thread; of the two timelines only the counters | `SdeCmdFrames`, `SdeVidFrames` |
| `SdeCmdFrames` | EXTENDS `SdeFrameEvents`: frames of a command mode display with its physical encoders | `MCSdeCmdFrames`, `SdeCmdFramesProofs` |
| `SdeVidFrames` | EXTENDS `SdeFrameEvents`: frames of a video mode display, its vsync interrupt and the interrupt controller | `MCSdeVidFrames`, `SdeVidFramesProofs` |
| `SdeRm` | the resource manager: reservation, release and resource mask as operators on a state | `MsmAtomic` |
| `ExclusiveCommits` | **abstract specification**: a commit works on its resources alone | `MsmAtomic` |
| `MsmAtomic` | EXTENDS `SdeRm`: commits from check to hardware; implements `ExclusiveCommits` by the refinement mapping `EC` | `MCMsmAtomic`, `MsmAtomicProofs` |
| `SdeRsc` | the RSC block, its clients and their calls | `MCSdeRsc`, `SdePowerProofs` |
| `SdeEncoderRc` | resource control of one encoder with every caller | `MCSdeEncoderRc`, `SdePowerProofs` |
| `DsiClkManager` | the clock manager; `ClkSpec` is the manager with arbitrary clients, which its own theorem is about | `DsiDisplay` |
| `DsiDisplay` | EXTENDS `DsiClkManager`: a display, its bridge, panel users and workers, composed with the manager | `MCDsiDisplay`, `DsiDisplayProofs` |
| `SdeHdcp1x` | an HDCP 1.x session: steps that `DpDisplay` takes together with its own | `DpDisplay` |
| `DpDisplay` | EXTENDS `SdeHdcp1x`: a DisplayPort display on a USB-C port | `MCDpDisplay`, `DpDisplayProofs` |
| `SdeRotator` | contexts, workers and hardware of the rotator | `MCSdeRotator`, `SdeTimelineProofs` |
| `SdeTimelineProofs`, `SdeCmdFramesProofs`, `SdeVidFramesProofs`, `MsmAtomicProofs`, `SdePowerProofs`, `DsiDisplayProofs`, `DpDisplayProofs` | theorems. `SdeTimelineProofs`: the two components with a fence timeline of their own, `SdeFence` (with `MCSdeFence`'s serial behaviours) and `SdeRotator`; `SdePowerProofs`: `SdeRsc` and `SdeEncoderRc`; `DsiDisplayProofs`: also the clock manager | |
| `NatLemmas` | facts about numbers, counts, wrapped counters and `RemoveFirst` that several proofs share | proofs of fences, frames, commits, DisplayPort and the rotator |
| `MC*` | constant sets, symmetry for TLC | the `.cfg` files |

Models meet where components do. `SdeFence` shows what a timeline does with its
signals, `SdeCmdFrames` and `SdeVidFrames` that each frame sends them once and in
time. `SdeRsc` lets a display vote only while the power handle votes CLK, which
`SdeEncoderRc` justifies (runtime PM is taken before the vote, given back after
the idle vote). `SdeEncoderRc` and `DsiDisplay` meet at the `mdp` clock client:
`EncoderEnable`, `EncoderIdle`, `EncoderWake` and `EncoderDisable` in
`DsiDisplay` are the clock requests the resource control makes.

A definition whose comment begins with *Mutant* is the form a plausible bug
would give its neighbour (`TriggerSpliceCopy` before `TriggerSplice`). No
specification uses one; each shows that a property can be broken by the code.

## 3. Correspondence to the code

**`SdeFence`.** A step is a critical section under `ctx->lock` or
`ctx->list_lock`, so other threads run in each gap of `_sde_fence_trigger`:
`TriggerSplice` (take the list private), `TriggerCheck` (look at one fence
without the lock), `TriggerPut`/`TriggerMove` (drop it or move it back).
`CreateRead`, `CreateFd`, `CreateFail`, `CreateAdd` are `sde_fence_create`, with
its failing fd. The fd is published before the fence is listed, as the code
does, so `Poll`, `SyncGet`, `SyncPut` and `CloseFd` may come first. `Signal` is
`sde_fence_signal` with and without error, `ResetTimeline` the reset, `Deinit`
the last put of the owner. Counters are residues of the number of commits and
compared as the code compares them (signed difference). In `MCSdeFence` the
variable `serial` marks behaviours in which calls do not overlap.

**`SdeFrameEvents`.** `Post` is `sde_crtc_frame_event_cb` with its pool, an event
a set of `done`, `release`, `retire`; `FrameEventWork` and `SignalFences` are the
two halves of `sde_crtc_frame_event_work`, between which other threads run;
`Flushed` is the guard of a display thread in `_sde_crtc_flush_event_thread`.

**`SdeCmdFrames`.** `disp` is the place of the display thread in
`sde_crtc_commit_kickoff` and `sde_encoder_prepare_for_kickoff`: the new frame
waits for the previous one on each physical encoder (`WaitForIdle`), or times out
(`PpDoneTimeout`). Interrupts latch in the hardware (`latch`) and are handled one
at a time; `PpDoneBegin` and `PpDoneEnd` are separated where
`sde_encoder_frame_done_callback` tests `frame_busy_mask` after it has cleared
its bit. The counters keep their names (`pending_kickoff_cnt`,
`pending_retire_fence_cnt`, `pending_ctlstart_cnt`, `pending_rd_ptr_cnt`).
`fault` chooses what disturbs a behaviour.

**`SdeVidFrames`.** The timing engine makes vsyncs (`HwVsync`): it takes what was
flushed, sets the status bit, latches ENABLE=0. The handler reads and clears the
status (`IrqRead`), dispatches under `irq_lock` (`IrqDispatch`, with the whole of
`sde_encoder_phys_vid_vblank_irq` up to `enc_spinlock`'s release) and finishes
(`IrqEnd`: the event is posted, the status cleared once more). `disp` walks
through prepare, `KickoffFlush`, `KickoffCount`, `PostKickoff`, the wait with its
three ends (`WaitForIrq`, `IrqLate` running the callback in the waiting thread,
`WaitTimeout`), and through the disable sequence with its two waits for the
engine to stop, the mask under `irq_lock` and the callback removed under
`cb_lock`. `kicked` and `shown` number the frames, `stale` is history.

**`SdeRm`, `MsmAtomic`.** The reservation follows `_sde_rm_make_next_rsvp`:
mixers with their connected blocks by a search over the list (`LmPass`,
`FindLms`), CTLs, DSC encoders, chroma down; its result is a state or `None`.
`Check` runs the atomic check under the modeset locks (`Held`, `Locks`) that the
DRM core keeps until the commit returns; `StartAtomic`, `Interrupted`,
`SwapAndDispatch`, `Flushed` are `msm_atomic_commit`; `Dequeue` to `EndAtomic`
are `complete_commit` in a display thread, which reads the *committed* state when
its turn comes. `FirstGetHw`/`NextGetHw` separate two calls of `sde_rm_get_hw`
with one iterator; a commit of another display that replaces the list meanwhile
leads to `LoseList`.

**`SdeRsc`.** `ClientStateUpdate(c, s, config)` is `sde_rsc_client_state_update`
whole, choosing the block's new state with `Target`, which stands for
`sde_rsc_switch_to_idle/cmd/clk/vid` of both revisions. Where these sleep with
`client_lock` held the call stops at `Sleep` and `EndSleep` finishes it, woken
or timed out. `ReadVsyncRefcount` and `ResetVsyncRefcount` are the two steps of
the encoder's wait outside the lock; `PmFreezeLate` is hibernation.
`StateUpdateHw`, `FsUpdate` and `ResourceBefore/After` are the hardware switch,
the supply and the clock references with their failures (`FaultModes`).

**`SdeEncoderRc`.** Each event of `sde_encoder_resource_control` is an operator
(`Kickoff`, `FrameDoneEvent`, …) and each caller an action. `disp` is the place
of the display thread in a commit: that thread runs commits, off work, input
work and vblank work one at a time, which is what their shared kthread worker
does. `FrameDoneBegin`/`FrameDoneEnd` are the two steps of
`sde_encoder_frame_done_callback`, from an interrupt or from the wait that timed
out. `FrameEventWork` runs in the event thread, late; `EsdTrigger` too;
`SuspendWait`/`SuspendIdle` are the PM thread. `PreModeset` waits with
`rc_lock` held, so it is a place other users of the lock stop at. A `scenario`
names the kind of display, its failures, its actors and its bounds.

**`DsiClkManager`.** `ReqState` is `dsi_clk_req_state`: references and client
states first, then the clocks, in the code's order, failing where the fault says
(`core`, `lp`, `lp_cb`, `hs`, `hs_cb`). Every request runs under `clk_mutex` and
is one step. `ForceUpdate` is the forced link rate update.

**`DsiDisplay`.** `link` pairs what the driver remembers (`ulps_enabled`,
`clamp_enabled`) with what the controller drives and the panel sees. `LinkAfter`
runs the four callbacks in the order the manager calls them; each request
updates clocks and lanes in one step, as the callbacks run inside it. `disp` is
the place in the bridge's enable and disable sequence, error paths included:
`PanelRefuses` is every failing return of `dsi_display_enable`, after which
`panel_initialized` may be left set, and the bridge unwinds from `refused`.

**`DpDisplay`, `SdeHdcp1x`.** `at[t]` says what a thread executes next: the USB
thread (`usb`), the one worker of the queue `drm_dp` that runs the connect,
attention and HDCP callback works (`wq`), PM, and the commits of each stream. A
region under `session_lock` is one step; where the code waits with the lock held
(for an authentication) `session_lock` names the holder. The records keep the
fields of the driver: `hpd` (port), `conn` (connection), `host` (core, controller,
streams), `hdcp`. `SdeHdcp1x` has the authentication work in its steps: look at
the state, authenticate, verify, write the outcome without another look, notify.
Training may fail, which still takes the AUX channel out of its off state
(`Attempted`); a stream whose clocks fail is given back by the bridge (`Unwind`)
before it goes on to `post_enable`, as the code does.

**`SdeRotator`.** `ctx[c]` is the record of a context under `rot_dev->lock`:
pending and retired requests, queued buffers, the timeline, the works of its
thread. `Schedule` is what V4L2 does after every call (`job_ready`, then
`device_run` while there is something to do). Entries in the core pass
`commitq`, the wait for a slot, the hardware, `doneq`; `slots` counts
`num_active` and `pending_count`. A client walks through stopping (wait with
time-out, cancel) and closing one place at a time; `locked` is the one wait with
`rot_dev->lock` held.

## 4. The runs

| Run | Asks | Distinct states |
|---|---|---|
| `fence` | An ioctl thread creates while an event thread signals, across the wrap of the counters: `References`, `NeverEarly`, and `SerialSignaled` when calls do not overlap | 586048 |
| `fence_lost_signal` | **violation** of `QuiescentSignaled` when they do | |
| `cmd_frames` | Interrupts, event thread and next commit in every order, with lost CTL start interrupts, a display that goes off, and hung transfers: `FencesNotEarly`, `QuietSignaled`, `FramesReported` (liveness) | 59266 |
| `vid_frames` | Single and split panels, undisturbed, with late interrupts, with vsyncs that do not come: `ReportsNotEarly`, `OffIsLatched`, `FramesReported` (liveness) | 128105 |
| `atomic` | Two callers, two display threads, mode sets and plane moves: `HwFollowsState` (with `NoSharing`), `RsvpFits`, `CommitReturns` (liveness), and `Exclusive`: commits implement `ExclusiveCommits` | 207952 |
| `rsc_votes` | Both revisions, four clients, with failing collapse entry and exit, clocks that fail to come on, vsync time-outs and a hibernation: `BlockFollowsVotes`, `VsyncWaitDrained`, `LockReleased` (liveness) | 24978 |
| `rc` | Command, video and writeback encoders with all ordinary actors, and with failing clocks, transfer time-outs, a dead panel and suspend: `ReferencesBalanced`, `FrameHasResources`, `PendingWhileBusy`, `ReturnsToIdle` (liveness) | 74014 |
| `rc_vid_switch` | **violation** of `OffHoldsNothing` | |
| `dsi_display` | All 16 kinds of panel, one failure anywhere, panels that refuse to be enabled or to switch: `ClkPromise`, `LanesFollowClocks`, `OffReleasesAll`, `IdleReleasesAll` | 103609 |
| `dp` | Plugs, attentions, suspends, one and two streams, with and without HDCP, trainings and enables that fail: `ConnectionSettled`, `AuthNeedsHost`, `LinkOutlivesStreams`, `UnplugCompletes` (liveness) | 264552 |
| `dp_hdcp_off` | **violation** of `OffIsInactive` | |
| `rotator` | Two contexts that share the slots, or wait for each other's OT limit, queue, start, stop with and without time-out, close: `SlotsBalanced`, `FramesHonest`, `FramesReturn` (liveness) | 66897 |

Each passing run also checks the type invariant of its module. Distinct questions
of one component are parts of one property where the code that answers them is
the same: `References`, `BlockFollowsVotes`, `ReferencesBalanced`, `ClkPromise`
and `LanesFollowClocks` are conjunctions of named parts.

The findings, each with its trace from TLC:

- *Lost fence signal* (`sde_fence.c:302`). While a create holds the list private
  and has just found a fence not due, a signal advances the timeline, finds the
  list empty and returns. The fence goes back on the list due and unsignalled,
  until the next create or signal; for the last frame before a static screen
  nobody calls again. `msm-hyp/msm_hyp_fence.c:281` has the same scheme.
- *References of an idle video panel* (`sde_encoder.c:3027`). PRE_MODESET enables
  resources a video panel already holds while idle.
- *HDCP off is overwritten* (`sde_hdcp_1x.c:1096`). The authentication work writes
  AUTHENTICATED after `off()` has set INACTIVE and waited for it; the next
  authentication is refused.

## 5. Bounds

| Bound | Value | Why it is enough |
|---|---|---|
| `Fence`, `MaxOutstanding` | 2, 2 | A freed fence's storage is reused, so two give a fence on each of two lists. |
| `Modulus`, `Start`, `MaxCommits` of the fence | 16, 14, 17 | 2^32 in the code. Only differences are compared; three commits let a signal fall before, within and after a create, and both counters wrap on the way. |
| `PoolSize` | 4 | 8 in the code. 4 and 8 give the same states: the pool never runs empty. With 3 in video mode, and 2 in command mode, a frame done is dropped and a run fails; the proofs about command mode assume 3 at least, those about video mode nothing. |
| Frames of `SdeCmdFrames` | 3, 2 with time-outs | A frame, the one that waits for it and the one after: counters left over reach no further than the next frame. |
| `Panels` of `SdeVidFrames` | 3 frames, 2 offs | Two frames in flight around an off and an on, and the off that ends it. |
| `MaxCommits`, `MaxObjects` of `MsmAtomic` | 3, 2 | Two commits at work and one that waits for both; a commit changes both displays, or a display and the plane. |
| Blocks of `MCMsmAtomic` | three mixers (two are peers), two CTLs | A display may take one or two mixers, so both displays contend for the third. |
| `External` | 2 | Two external displays decide every "another display is active" test; a third repeats the second. |
| `MaxFreeze` | 1 | The code keeps one flag; one hibernation sets it in every state. |
| `Phys` | 2 | The largest split display. |
| `commits`, `inputs` of the encoder's scenarios | 7, 2 ordinary; 4, 1 disturbed | Enable, frames, a switch, disable and a second enable fit; the state after a disable is that of the start. |
| `MaxRef`, `MaxFaults` of DSI | 4, 1 | `MaxRef` is never reached: 6 finds the same states. One failure anywhere; the proofs hold for any number. |
| `vid_switched` | once | A video panel switches modes once between two enables: it keeps references, and would collect them without end. |
| `Scenario` of `MCDpDisplay` | 2 plugs, 2 attentions, 1 commit, and smaller with HDCP, two streams or suspend | A connection that comes, goes and comes again, with the works of the first still queued. Larger scenarios were checked by hand and show nothing new. |
| `AllScenarios` of `MCSdeRotator` | two contexts, two requests, two slots, at most 3 frames | Both requests of a context at work with a third frame waiting. Two contexts with equal OT limits have entries active side by side, also while one is cancelled; with different limits an entry waits until the hardware is idle. Scenarios of 255,000 states were checked by hand. |

`Healthy` in `DsiDisplay` speaks of behaviours before the first failure,
`Undisturbed` in `SdeEncoderRc` of those without failure, dead panel and suspend;
`StateIsVote` and `PowerOrder` hold with failures too, as does `ReferencesBalanced` but
for the failures section 8 names (`ClocksBalanced` and `VblankBalanced` leave
`"pm"`, `"rm"` and a mode switch of an idle video panel out).
`disturbed` marks a display that was torn down under a running encoder (a failed
ESD check, or a panel that refuses to be enabled or to switch), where the code
leaves the clocks on over a PHY that is off.

The RSC actors vote as the encoder does: the vote table `Votes` and `CallerMay`
leave out calls no caller makes. The client of the rotator queues before its
stream is on or when all its frames are back (`MayQueue`), see section 8. A port
reports an IRQ only after a reported HPD high.

## 6. Fairness and deadlock

All fairness is weak: of a thread that is able to run, a worker with something in
its queue, hardware that was started, a wait with a time-out. No action of user
space is fair (committing, plugging, queueing, voting, switching off), with the
one exception named below, and no fault.

- `SdeRsc!Fairness`: what follows a vote goes on. The wait for the vblank is
  bounded by `MAX_RSC_WAIT` rounds and the sleep by its time-out.
- `SdeEncoderRc!FairSpec`: the display and event threads run, a transfer ends or
  its wait times out, the off timer expires. `ReturnsToIdle` is meant with the
  bounded inputs of the run: an encoder that gets a new frame for ever stays on,
  as it should.
- `SdeCmdFrames`: the display and event threads, the interrupts of each encoder,
  CTL start and read pointer, the transfer. CTL start may be lost
  in `{"noctl"}`, a transfer may hang in `{"timeout"}`; the waits then time out.
- `SdeVidFrames`: the display and event threads, the interrupt handler, and
  vsyncs unless the scenario hangs. With a hang the wait times out.
- `MsmAtomic`: each caller after its check, each display thread. Signals that
  interrupt a wait are not fair.
- `DpDisplay!FairSpec`: the USB thread, the work queue, the authentication, PM
  once it has begun, the commits of each stream once begun; and user space
  switches a stream off *when it was told that the display is gone*
  (`TurnOff(s) /\ ~Sees`), without which an unplugged host keeps its streams and
  stays up, as it must.
- `SdeRotator!Fairness`: each client inside stop or close, each worker, the
  commit and done workers, the hardware.

`SdeFence` and `DsiDisplay` claim no liveness and assume no fairness. Deadlock is
checked except in `fence`, `vid_frames`, `atomic`, `dp` and `rotator` (and the
violations of the first and of `dp`), where a system rests because commits,
frames and plugs are bounded and nobody has to go on.

## 7. The proofs

TLC checks the instances of section 4; the theorems hold for every value of the
constants that satisfies the named assumptions of the modules. Each proof has
the same shape. A conjunction of named parts (`IInv`, `DsiInv`, `ClkInv`) was
checked by TLC on the run's instance, then proved inductive, part by part, with
one case per action; the property follows from it. `PROJECT.json` lists the
theorems.

| Module | Theorems | For every |
|---|---|---|
| `SdeTimelineProofs` | `FenceTypes`, `FenceSafety`, `FenceRefs`, `FenceNoDangling`, `FenceNeverEarly`, `FenceSerialSignaled` | set of fences, threads and offsets, counter width, number of commits |
| | `RotTypes`, `RotSlotsBalanced`, `RotFramesHonest` | set of contexts, list of requests, number of slots, set of faults, number of frames |
| `SdeCmdFramesProofs` | `CmdTypes`, `CmdFencesNotEarly`, `CmdQuietSignaled` | set of physical encoders, number of frames, pool of three events or more |
| `SdeVidFramesProofs` | `VidTypes`, `VidReportsNotEarly`, `VidOffIsLatched` | number of frames and offs, pool |
| `MsmAtomicProofs` | `AtomicTypes`, `AtomicHwFollowsState`, `AtomicRsvpFits`, `AtomicExclusive` (refinement) | set of displays, planes and blocks, catalog, set of callers, number of commits |
| `SdePowerProofs` | `RscTypes`, `RscFollowsVotes`, `VsyncCountDrained` | set of external displays, revision, mix of failures |
| | `RcTypes`, `RcReferences`, `RcFrameResources`, `RcFramePending` | set of physical encoders, scenario, number of commits and touches |
| `DsiDisplayProofs` | `ClkSafety`, `DisplayClockSafety`, `DsiTypes`, `DsiLanesFollowClocks`, `DsiOffReleasesAll`, `DsiIdleReleasesAll` | panel, set of faults, bound (the first also: set of clients) |
| `DpDisplayProofs` | `DpTypes`, `DpConnectionSettled`, `DpAuthNeedsHost`, `DpLinkOutlivesStreams` | set of streams, MST or not, with and without HDCP and suspend, number of plugs, attentions and commits |

### Fences

`References` is `OneListPerFence ∧ FenceRefsExact ∧ NoDangling ∧ CtxRefsExact`.
None of the parts is inductive alone: that a put drops the last reference only
when nobody holds the fence needs the exact count, the exact count needs that the
fence is on one list only, and that needs to know where each thread stands:

    IInv = TypeOK ∧ LocalsOK ∧ OneListPerFence ∧ FenceRefsExact ∧ NoDangling ∧ CtxRefsExact

with `LocalsOK` relating each thread's place to its private list and current
fence. The steps that only move a fence between lists share `MoveStep`, those that
leave references alone `QuietStep`, those that drop one `PutKeepsCounts`.

`NeverEarly` is about numbers, the code compares residues. `EarlyInv` bounds how
far ahead of `commits` a fence may be due; `ReachedIsDue` then turns the wrapped
comparison into that of the numbers (`WrappedDifference`). This needs
`WindowAssumption`: outstanding commits and offset stay below half the counter's
range (2^31 in the code, against at most a handful of frames in flight).

`SerialSignaled` is proved of `MCSpec`, where calls may be marked as not
overlapping. `SerialInv` adds what holds then: while a trigger looks at its
fences the timeline stands still, so those it has put back are not due; and no
unsignalled fence is so old that the comparison takes it for a future one. That
calls do not overlap is necessary: `fence_lost_signal` shows what happens when
they do.

### Frames

In both display modes the argument is an account. Every frame that was kicked
off is signalled, with the event thread, in the queue, in a handler, or still
counted by an encoder, and each is in exactly one of these.

    command mode: TypeOK ∧ Counters ∧ ("timeout" ∉ fault ⇒ Flight ∧ Queue ∧ Balance)
    video mode:   TypeOK ∧ Counters ∧ (no hang ⇒ Flushes ∧ Stopping ∧ Reports)

`Flight` says which encoders are still at work on the frame, by what the hardware,
the latch and the handlers show. `Queue` says that a retire event lies before the
frame done of its frame, so the CRTC still counts that frame and
`_sde_crtc_flush_event_thread` waits for it, and that at most three events are
under way, which is why the pool never runs out (`CmdAssumption` asks for three,
`sde_crtc.h:37` has eight). `Balance` is the account. `Flushes` relates the flush bit
to the vsync that takes it, `Stopping` says why the second wait for the timing
engine cannot end by an interrupt left over from before the stop, and `Reports`
is an account with an inequality, as an event dropped from the pool only makes a
fence later.

### Commits

    IInv = TypeOK ∧ Records ∧ Threads ∧ Control ∧ NoSharing ∧ Hardware

`Control` says that commits have numbers of their own (`Numbered`), that the masks
of those at work are disjoint and part of `pending` (`Apart`), that callers hold
different modeset locks (`Locked`), and how the new state of a commit belongs to
the committed one before and after it is swapped in (`Commits`). Its core is that
a check leaves the blocks of other displays alone: `RmCheckChecked`, over the
reservation of `SdeRm` display by display, from lemmas on the search itself
(`FindLmsFree`, `FindDscsFree`, `MakeNextRsvpGiven`). `Hardware` says how far each
thread has taken its displays to the committed state, and `HwFollowsState` is its
case without a commit.

`AtomicExclusive` maps the commits at work to the abstract `holds`: `UsesApart`
derives that what two commits *use* is disjoint from the fact that what they
*marked* is, although a commit also uses blocks it does not mark. That a
reservation fits its topology (`AtomicRsvpFits`) is `MakeNextRsvpFits` carried over
the displays of a commit (`Turned`) on top of `IInv`. `RmAssumption` says that the
catalog gives each block one type and that a mixer's connected blocks contain no
other mixer; `AtomicAssumption` that displays, planes and blocks are different
things.

### RSC

    IInv = TypeOK ∧ VotesOK ∧ LockOK ∧ UpWhileWaiting ∧ CountOK ∧
           CollapsedIsIdle ∧ ClocksOK ∧ SupplyOK ∧ DecideOK

`Target` chooses the new state from the present one, `Desired` from the votes
alone; `TargetIsDesired` shows that they agree, whatever order the displays and
the power handle vote in. While a call sleeps with `client_lock` held,
the block is between two states: `DecideOK` speaks of the state it is about to
record, and `UpWhileWaiting` and `LockOK` keep everybody else from changing it.
`CountOK` bounds the vsync count by the number of calls that are going to drop it,
which is what `VsyncWaitDrained` says. It is not an equality: a client may drop
another's count early (section 8), so the theorem says that the count never
leaks, not that every waiter finds it.

### Resource control

    IInv = TypeOK ∧ StateAtPlace ∧ InputsOfPanels ∧ ClocksHeld ∧ ClocksBalanced ∧
           VblankCounted ∧ RscVoteFollows ∧ FramesUndisturbed

What the properties say is not inductive: STOP does not give back what a video
panel keeps while idle, EARLY_WAKEUP and PRE_MODESET take references in every
state but those they test. `StateAtPlace` says which states the display thread can
meet at each place of a commit, and `FramesUndisturbed` what the CRTC's count is
made of: the frame about to start, the one transferred, and events not yet
handled. There is one lemma per part, with the actions as its cases.

### DSI

`ClkInv = ClkTypeOK ∧ StateIsVote ∧ ClocksFollowVotes ∧ PowerOrder` is inductive for
the manager alone: the clocks can follow the votes after a request only because
they did before, and a client's state may be compared with the request only
because it agrees with its count. The lemma `DisplayUsesManager` only notes that the
display's steps are requests of `ClkSpec`, so that `DisplayClockSafety` carries the
promise to the display.

The lanes need to know which clocks are on, hence who holds which reference:

    DsiInv = TypeOK ∧ ClkInv ∧ (faults = 0 ⇒ Accounts ∧ Places ∧ Lanes)

`Accounts` splits the references of the DSI client into those of the bridge, at
each of its places, and those borrowed by the panel's users and workers; `Places`
says who may be active where. `MovedLanes` states what the four callbacks make of
the lanes for *every* change of the clocks, so each request needs only to know
which change it is (`MovedBy`). `Lanes` is stronger than `LanesFollowClocks`: it also
says who entered ULPS or set the clamp and can undo it, and that a PHY that is off
will be turned on by the next link-on. `OffReleasesAll` and `IdleReleasesAll` are
cases of `Accounts`: where the bridge, the encoder, the users and the workers each
hold nothing, the sums are zero, and so are the clocks (`Held`). The clamp of a
display that is off comes from `Lanes`.

### DisplayPort

    IInv = TypeOK ∧ Places ∧ PortInOrder ∧ Disconnected ∧ PlugKept ∧ Told ∧
           StreamsUp ∧ GoesDown ∧ AuthInOrder

The properties speak of a port at rest, so the invariant says what each place on
the way there has achieved. `PortInOrder` is about the disconnect: after its first
wait the connect work neither runs nor can it start, since it looks at `aborted`,
after its last one the queue is empty, and only the end of the disconnect lets works
back in. `Disconnected` and `Told` then hold from the place that establishes them,
and `PlugKept` says who is still going to see to a sink that is not connected yet: the
queue, or the one work between taking it and connecting. `GoesDown` is the account
of the last thread to leave: an unplugged host is off, or a stream is on its way
down and will power it off. `AuthInOrder` couples `abort` with the core: whoever
takes the host down sets it first, so an authentication that runs has the host.
`DpLinkOutlivesStreams` is an action property and follows from `StreamsUp` and the
places: the only step that drops the controller under a stream is `dp_pm_prepare`
after its look at `power_on`, which the property names. `StreamsAssumption` asks
that streams are not named like threads and that the bounds are numbers.

### Rotator

    RotInv = ContextsOK ∧ EntriesOK ∧ QueuesOK ∧ SlotsOK ∧ TargetsOK ∧
             PlacesOK ∧ SessionsOK ∧ CountsOK

`SlotsBalanced` compares counters with cardinalities of sets of entries, and an
entry leaves these sets from the hardware's workers, from a failing submission
and from a cancelling client, which drops the lock in between. `QueuesOK` says that
an entry is in the one place its stage names (commit queue, commit worker, done
queue, done worker, or `lost` when its `done_work` was cancelled in the queue), and
`TargetsOK` that the entry a client cancels stays, with the works it has cancelled
gone for good; so the second of two that finish an entry finds it done and gives
nothing back. `SlotsOK` states the balance.
`CountsOK` adds the fences: signals given and to come are not more than frames and
entries, which bounds the timeline (`RotTypeOK`).

Actions fall into few kinds, each with its lemma: those that leave the core alone but
for finished entries (`Drops`, `OutsideKeeps`), the one that makes an entry (`Adds`),
those that release one (`Leaves`) and the one that starts it (`Starts`). The whole of
`job_ready` and `device_run` is `ScheduleFollows`, about the record of a context only.
These two theorems hold for every fault, overlapping submissions and time-outs with
them, whose effects section 8 describes: what these break are frames and fences, not
slots.

What clients are told, `RotFramesHonest`, is `[](Orderly => FramesHonest)`: `Orderly`
leaves out a client that queues into frames in flight (`overlap`) and the faults
`fence`, `off` and `timeout` together, the two ways in which section 8 shows the code
to break it. `scenario` never changes, and every scenario of the run is orderly, so the
run checks the same claim. The invariant is

    FramesInv = HardwareOK ∧ ∀ c : JobOK(c) ∧ StopOK(c) ∧ TimelineOK(c) ∧ DoneOK(c)

on top of `RotInv`. Frames are given back in their order, so the number of those given
back (`Returned`) says which frame is at the head of the queue. `JobOK` says that a
context has one request at work, for that frame, in one place: a submit or a retire
work, the wait for the fence, or an entry of the core; a retire work of a stream that
runs finds an entry that is done with the frame at the head (`Through`), which is what
an overlapping submission breaks. `TimelineOK` says that while nothing fails the
timeline stands at `Returned`, or one further between the end of an entry and the
retire work that gives its frame back. `StopOK` follows a client through the time-out of
stopping, after which no submission may be waiting for its fence, hence `Orderly`;
`HardwareOK` says that an entry is active only while the hardware has it or after it
rotated the frame. TLC checked `FramesInv` with every orderly subset of the faults, for
one context with three frames and for two with one each, before it was proved.

`RotAssumption` says that `Requests` is a finite non-empty list, that there is
a slot at least (`max_active` is 1 in `sde_rotator_r1.c:209`, and in
`sde_rotator_r3.c:2723` unless register DMA has contexts for more),
and that `None` is none of the other values.

### What the theorems do not say

Every safety property of a passing run is a theorem, `FramesHonest` for orderly
scenarios. The three violations are TLC's. Out of the prover's reach, and so TLC's
alone, are liveness under fairness
(`LockReleased`, `ReturnsToIdle`, `FramesReported`, `CommitReturns`,
`UnplugCompletes`, `FramesReturn`) and ENABLED.

The library's induction theorems take an operator, which the installed provers
cannot instantiate. `NatLemmas` states induction over a *set* of numbers instead
(`SetInduction`, derived from the well-foundedness of strict inclusion of finite
sets), and what the proofs need of counts (`CountStep`, `CountAppend`,
`CountTail`), of removing an element from a list (`RemoveFirstIs`), of recursive
functions over a list (`Iterated`, `Carried`, `ReachesLast`) and of wrapped
counters (`Division`, `Remainder`, `WrappedDifference`) follows from it.
No module that is proved about declares a
RECURSIVE operator.

A theorem says no more than its property: where a property excludes failures
(`Undisturbed`, `faults = 0`, time-outs), section 8 names what goes wrong with
them.


## 8. What the models show that no run keeps

Places where the code does not do what one would ask of it, met while modelling.
Where the model can show one, the constant that does so and the property that
fails are named; the passing runs leave it out.

Fences and frames

- `sde_fence.c:315`: an error signal sets the error of every listed fence, of
  later commits too.
- `sde_encoder_phys_cmd.c:265–268`: a read pointer count left over from one frame
  lets the next tear effect signal the retire fence of the next frame before its
  CTL start, against the comment there. `FencesNotEarly` therefore asks for
  "not before the kickoff" of the retire fence.
- `sde_encoder.c:4183`: a frame done from a time-out that overlaps one from the
  interrupt of the other encoder finds the mask empty a second time and reports
  the frame twice (`{"timeout"}` in `FaultModes`; `ReleaseNotEarly` and
  `QuietSignaled` leave time-outs out).
- `sde_crtc.c:4067`, called from `sde_crtc_disable` (line 4939): the event thread
  is not flushed when `frame_pending` is zero, although the comment at 4074–4077
  wants all frame events of the encoder to reach the CRTC. A release and retire
  event queued behind the last frame done survives the reset of the fences and
  signals those of the first frame after the next enable (`stale` in
  `SdeVidFrames`; `ReleaseNotEarly` leaves `{"off"}` out of its release half).
- `sde_encoder.c:6104` with `sde_encoder_phys_vid.c:1033–1051`: when a split video
  panel times out, the error clears only the master's bit of `frame_busy_mask`
  and `sde_encoder_wait_for_event` returns before the slave is reported: the frame
  done and both signals are lost, and the timelines stay one frame behind until
  the CRTC is disabled (`Lossy`, which `FramesReported` leaves out).
- A vsync between flush and count of a video kickoff makes the commit wait for one
  more vsync; harmless.
- The interrupt controller clears the status once more after the callback
  (`sde_core_irq.c:24–77`), dropping a vsync that comes meanwhile; a wait for
  ENABLE=0 may then time out, harmlessly.
- `sde_encoder_phys_vid_prepare_for_kickoff` (1064) unregisters and registers the
  vsync interrupt on a CTL error without `vblank_ctl_lock` and without looking at
  `vblank_refcount`. The slave's `pending_kickoff_cnt` only grows, read by nobody.
- A video panel on two CTLs signals the release fence from the master's vblank,
  perhaps before the slave's CTL took its flush. Such panels are not modelled.

Resource control and RSC

- `sde_encoder.c:2486`: the encoder reads `rsc_vsync_wait` after `client_lock` is
  free and may take another display's count for its own and give it back;
  `VsyncWaitDrained` bounds the count by those who still owe a decrement; that it
  is dropped early is not excluded.
- `sde_crtc.c:5009`: disabling a CRTC turns idle power collapse on for writeback
  encoders that never had it, against the comments at `sde_crtc.c:5005` and
  `sde_encoder.c:2796–2797`.
- `sde_rsc.c:1219`: a failing `sde_rsc_resource_enable` is ignored, and the client
  is told that its state was reached with the clocks off. The run `rsc_votes`
  includes it (`"enable"` in `FaultModes`), and `ClocksFollowState` leaves it out.
- `sde_rsc.c:1127`: a hibernation before the first collapse makes
  `sde_rsc_hw_init` vote for the supply a second time, a vote nobody gives back
  (`GdscReleased`, a part of `BlockFollowsVotes`, leaves hibernation and the other
  faults out).
- `sde_encoder.c:2676`: a failing `pm_runtime_get_sync` keeps its usage count
  (`"pm"` in a scenario's faults, which `ClocksBalanced` leaves out).
- `sde_encoder.c:3408`: a mode set that fails between PRE_MODESET and
  POST_MODESET leaves the state MODESET, in which KICKOFF returns `-EINVAL`
  (line 2831), while the description of the events (lines 106–107) says a
  kickoff brings the state to ON (`"rm"` in a scenario's faults, which
  `ClocksBalanced` and `VblankBalanced` leave out).
- `sde_encoder.c:2884`: after a transfer time-out a late FRAME_DONE arms the off
  work PRE_STOP has just cancelled, against the comment at 3908–3909.
- `sde_encoder.c:3123`: suspend's idle request between KICKOFF and the start of
  the frame takes the resources from it, against the comment at 3120–3121
  (`"suspend"` in a scenario's actors, `FrameHasResources` without `Undisturbed`).

Atomic commits and reservation

- `sde_rm.c:426`: `sde_rm_get_hw` reads the committed state without a lock, while
  `sde_rm.h:259–265` describes the iterator as walking one list; a commit to another
  display between two calls leaves it in the old list, which never meets the head
  of the new one: the display thread is lost (`LoseList`; `CommitReturns` has to
  allow it).
- `sde_rm.c:1632`: with one CTL that can do split display and one that cannot, a
  second display passes the check without a CTL, against the comments at
  1627–1631 and `sde_rm.h:210–214`.
- `sde_connector.c:1892`: the release of old reservations runs before the modes are
  fixed up and reads the seamless flags of the previous mode set; a mode set after
  a seamless one reserves without releasing. Seamless switches are not modelled.

DSI

- `dsi_clk_manager.c:1150`: a failed request leaves the client ON with its
  reference; the next one of the same client (`sde_encoder.c:2685`,
  `dsi_display.c:7086`) finds the state unchanged, skips the clocks and returns 0,
  against the comment at 1065. `ClocksFollowVotes` speaks of behaviours before the
  first failure.
- `dsi_display.c:6652`: a video panel keeps the references of a mode switch after
  it is disabled: one of the clocks of each kind, which `OffReleasesAll` names as
  the only thing that `vid_switched` may leave.
- `dsi_display.c:7454`: a panel whose PPS update fails after `dsi_panel_enable`
  keeps `panel_initialized` set while the bridge unprepares it. A video panel without
  ULPS over suspend then has its pads clamped as its last clock goes, and stays
  clamped while it is off (`OffReleasesAll` says that only such a panel does).
- `dsi_display.c:7441`: a panel that refuses a mode switch is unprepared under the
  running encoder (`LanesReady` without `disturbed`).
- `dsi_display.c:3291`: `dsi_display_set_ulps(false)` for a panel that is not
  initialized never acts, so the branch cannot do what it is for.

DisplayPort and HDCP

- `dp_display.c:1911`: enabling a stream looks at `core_initialized` only, so it goes
  on after a link that failed to train.
- `dp_display.c:2055`: `hdcp_abort` stays set when a `connect_work` cleans up between
  `pre_disable` and `disable`.
- `dp_display.c:3245–3276`: PM looks at `power_on` and takes the host down without
  `session_lock`: `ctrl_on` may stay set with the core off during a training, and
  the link is taken from a stream enabled meanwhile (`at["pm"] = "off"` in
  `LinkOutlivesStreams`).
- The HDCP status may still say authenticating or authenticated after an off, and
  the callback work queued between `disable` and `unprepare` can start an
  authentication on a link that goes down; it ends before the host does
  (`AuthNeedsHost`).

Rotator

- `sde_rotator_dev.c:3499`: `job_ready` takes a pending request without a core
  request for a failed one (comment at 3500), but a request is pending with `req`
  NULL from line 3524 until its submit work has run. A frame queued, or a stream
  started, in that window makes `device_run` give the frame at the head back with
  `VB2_BUF_STATE_ERROR` and resynchronise the timeline though nothing failed; the
  submit work then hands the core a frame that was given back, or the next one.
  The instance `Overlapping` of `MCSdeRotator` breaks `FailuresReal`; fences are
  early then, and a request retired with its old `req` completes a later frame
  that was never rotated. The run `rotator` lets a client queue only before its
  stream is on or when all its frames are back (`MayQueue`).
- A submission may wait 1000 ms for its input fence, stopping waits 500 ms: a
  submission that resumes after `cancel_all_requests` does not look at `abort`,
  and the core rotates into buffers that were returned (scenario
  `{"fence", "off", "timeout"}`, `FramesHonest`). A close that follows flushes the
  worker under `rot_dev->lock`, which a queued retire work needs: a deadlock.
- A time-out of stopping leaves `request->req` dangling; cancelling a queued
  `done_work` keeps its slot and smmu vote for good (`lost`).
- Any failed frame resynchronises the timeline and so signals the fences of frames
  still queued; a failing `qbuf` leaves it one behind, as the fence is made first.
- System suspend frees requests under V4L2, `sde_rotator_abort_inline_request`
  takes a slot and never returns it, and `sde_rotator_validate_item` returns with
  the manager's lock held when it fails to allocate; these paths are not modelled.

Elsewhere

- `dsi_ctrl.c:2360` with `dsi_ctrl_hw_cmn.c:958`: the interrupt handler writes the
  status bits back as it reads them a second time, so a DMA done between the two
  reads is cleared unseen. `dsi_ctrl.c:1281`: a DMA done that comes after its wait
  gave up completes the wait of the next command.
- `sde_power_handle.c:748`, `:751`: the error path of `sde_power_resource_enable`
  releases `phandle_lock` twice.

## 9. What is not modelled

In the modelled parts: formatting, logging, debug dumps and register values.

- `SdeRsc` leaves out creating and destroying clients, event listeners, bandwidth
  votes and the timer arithmetic of the solver.
- `SdeEncoderRc` leaves out topology, DSC and MISR; a physical encoder is the
  source of one frame done per frame.
- `SdeCmdFrames` leaves out autorefresh, posted start and the recovery after
  repeated time-outs; `SdeVidFrames` variable refresh, the wait for the active
  region, CTL resets, panels with two CTLs and the hand-over of a boot splash;
  writeback frames are in neither.
- `MsmAtomic` leaves out seamless switches, the fallback that completes a commit in
  the caller, the boot splash, shared displays and the clean-up of a failed
  prepare; `SdeRm` ROI MISR, QDSS, ping-pong split, concurrent writeback and blocks
  reserved for the boot splash.
- `DsiDisplay` leaves out continuous splash, MISR debugfs, split link and failures
  on the way down, which the code only logs; a panel command takes and returns a
  reference of the thread that sends it and is not a step. `ReqState` leaves out
  EARLY_GATE, which no caller requests.
- `DpDisplay` leaves out link training below its outcome, AUX, audio, the
  allocation of MST slots and of DSC blocks, and test patterns. `SdeHdcp1x` stands
  for HDCP 1.x only; 2.x is a sequential exchange with a trusted application.
- `SdeRotator` leaves out inline rotation, the mode without `early_submit`, system
  suspend, bandwidth and clock votes, and the hardware below its five calls.

Other parts: register access, device tree parsing, tables and arithmetic in one
thread (catalog, hardware blocks, planes, colour processing, PHY timing, PLLs,
the bridge chip) have no interleavings to check. The kernel's DRM core and MST
topology manager are outside the repository.

## 10. The plan

Done, in this order: `SdeFence`, `SdeRsc`, `SdeEncoderRc`, `DsiClkManager`,
`DsiDisplay`; `SdeCmdFrames`, `SdeRm` with `MsmAtomic` and its refinement of
`ExclusiveCommits`, `SdeHdcp1x` with `DpDisplay`, `SdeRotator`; `SdeFrameEvents` shared by
command and video mode, and `SdeVidFrames`. Theorems: every safety property that a
passing run checks, `FramesHonest` for orderly scenarios, and the refinement.

Next, models, as they find room beside the runs there are: `DsiCtrl` (a transfer
with interrupt, time-out and the next transfer, the two reads of its status),
`SdePowerHandle`, `SdeRecoveryManager`, `MsmGem` (lock order of two threads),
`MsmLease`, frames of a writeback encoder on `SdeFrameEvents`.
