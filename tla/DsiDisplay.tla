----------------------------- MODULE DsiDisplay -----------------------------
(***************************************************************************)
(* A DSI display on top of the clock manager (msm/dsi/dsi_display.c and    *)
(* dsi_drm.c): the callbacks that park and revive the lanes around every   *)
(* change of the clocks, and the threads that ask for clocks.              *)
(*                                                                         *)
(*   bridge     the enable and disable sequence of a commit and seamless   *)
(*              mode switches; `disp' is its place.                        *)
(*   encoder    the MDP client: on from enable to disable, and for command *)
(*              mode off whenever the screen is static.                    *)
(*   panel      backlight updates and the ESD status check, under          *)
(*              panel_lock.                                                *)
(*   recovery   the DSI error workers, under display_lock.                 *)
(*                                                                         *)
(* `link' holds what the driver remembers of the lanes next to what the    *)
(* controller and PHY drive (ctrl) and what the panel sees (pads).  A      *)
(* panel command sent by a thread that holds the clocks takes and returns  *)
(* one more reference of the same client and changes nothing else.         *)
(* Continuous splash, MISR debugfs and split link are left out, and so are *)
(* failures on the way down: the code only logs them.                      *)
(***************************************************************************)
EXTENDS DsiClkManager

CONSTANT Configs     \* panels to look at, see Config

Config == [cmd: BOOLEAN,       \* command mode, otherwise video mode
           ulps: BOOLEAN,      \* ulps_feature_enabled
           suspend: BOOLEAN,   \* ulps_suspend_enabled
           phy_off: BOOLEAN]   \* allow_phy_power_off of the PHYs

ASSUME DsiAssumption == Configs \subseteq Config /\ Client = {"mdp", "dsi"}

VARIABLES
    config,                \* the panel, fixed
    link,                  \* the lanes, see Link
    panel_initialized,
    esd_recovery_pending,
    clkrate_change_pending,
    disp,                  \* place of the bridge, see Place
    backlight, status,     \* clocks held by the two users of panel_lock
    recovery,              \* clocks held by an error worker
    host_ready,            \* the controllers' host engines are on
    mdp_on,                \* the encoder's resources are on
    disturbed,             \* a panel failure since the panel's last reset
    vid_switched           \* a video panel switched modes without a disable

panelvars == <<config, panel_initialized, esd_recovery_pending,
               clkrate_change_pending, host_ready, disturbed, vid_switched>>
uservars == <<backlight, status, recovery, mdp_on>>
vars == <<clkvars, link, disp, panelvars, uservars>>

Link == [ulps_enabled: BOOLEAN, clamp_enabled: BOOLEAN,
         phy_idle_power_off: BOOLEAN, phy_on: BOOLEAN,
         ctrl: {"stop", "ulps"}, pads: {"stop", "ulps", "glitch"}]

Place == {"off", "core", "prepared", "refused", "unwind", "pre_enabled", "encoder_on",
          "on", "switch", "switched", "switch_unlinked", "pre_disabled",
          "encoder_off", "disabled", "unlinked"}

Init ==
    /\ ClkInit
    /\ config \in Configs
    /\ link = [ulps_enabled |-> FALSE, clamp_enabled |-> FALSE,
               phy_idle_power_off |-> FALSE, phy_on |-> FALSE,
               ctrl |-> "stop", pads |-> "stop"]
    /\ panel_initialized = FALSE
    /\ esd_recovery_pending = FALSE
    /\ clkrate_change_pending = FALSE
    /\ disp = "off"
    /\ backlight = FALSE /\ status = FALSE /\ recovery = FALSE
    /\ host_ready = FALSE /\ mdp_on = FALSE
    /\ disturbed = FALSE /\ vid_switched = FALSE

-----------------------------------------------------------------------------
(* What the driver does to the lanes. *)

\* dsi_display_is_ulps_req_valid()
UlpsReqValid(l, enable) ==
    /\ ~esd_recovery_pending
    /\ config.ulps \/ config.suspend
    /\ panel_initialized \/ config.suspend
    /\ l.ulps_enabled # enable

Driven(l, c) == [l EXCEPT !.ctrl = c,
                          !.pads = IF l.clamp_enabled THEN l.pads ELSE c]

\* dsi_display_set_ulps(): a clamp hides the controller from the panel.
SetUlps(l, enable) ==
    IF UlpsReqValid(l, enable)
    THEN [Driven(l, IF enable THEN "ulps" ELSE "stop")
            EXCEPT !.ulps_enabled = enable]
    ELSE l

\* The panel sees the lanes change with no ULPS entry or exit between.
Seen(l, level) == IF l.pads = level THEN level ELSE "glitch"

\* dsi_display_set_clamp(): the clamp drives what ulps_enabled says, and the
\* controller shows through once it is gone.
Clamp(l) ==
    [l EXCEPT !.clamp_enabled = TRUE,
              !.pads = Seen(l, IF l.ulps_enabled THEN "ulps" ELSE "stop")]

Unclamp(l) ==
    [l EXCEPT !.clamp_enabled = FALSE,
              !.pads = IF l.clamp_enabled THEN Seen(l, l.ctrl) ELSE l.pads]

\* dsi_display_phy_idle_off() and dsi_display_phy_idle_on().
PhyIdleOff(l) ==
    IF config.phy_off
    THEN [l EXCEPT !.phy_on = FALSE, !.phy_idle_power_off = TRUE] ELSE l

PhyIdleOn(l) ==
    IF l.clamp_enabled \/ l.phy_idle_power_off
    THEN [l EXCEPT !.phy_on = TRUE, !.phy_idle_power_off = FALSE] ELSE l

\* dsi_display_phy_sw_reset() and dsi_display_phy_enable().
PhyReset(l) == [Driven(l, "stop") EXCEPT !.phy_on = TRUE]

-----------------------------------------------------------------------------
(* The callbacks of the clock manager. *)

\* Mutant: the ULPS flag is not reset before the controller re-enters.
LpOnReenterFlagged(l) == LET on == PhyIdleOn(l) IN SetUlps(on, TRUE)

\* dsi_post_clkon_cb() for the LP clocks: the controller lost its state with
\* the core clocks and is put back into ULPS before the clamp goes.
LpOnReenter(l) ==
    LET on == PhyIdleOn(l)
    IN  IF l.ulps_enabled /\ l.clamp_enabled
        THEN SetUlps([on EXCEPT !.ulps_enabled = FALSE], TRUE) ELSE on

PostLpOn(l) == Unclamp(LpOnReenter(l))

\* It fails at the ULPS entry or at the clamp.
PostLpOnFailed(l) ==
    {LpOnReenter(l),
     [PhyIdleOn(l) EXCEPT !.ulps_enabled = @ /\ ~l.clamp_enabled]}

\* dsi_post_clkon_cb() for the HS clocks; it fails at the ULPS exit or after.
PostHsOn(l) == SetUlps(l, FALSE)

PostHsOnFailed(l) == {l, PostHsOn(l)}

\* dsi_pre_clkoff_cb() for the LP clocks.
PreLpOff(l) ==
    IF IF panel_initialized THEN config.ulps ELSE config.suspend
    THEN SetUlps(l, TRUE) ELSE l

\* dsi_pre_clkoff_cb() for the core clocks.
PreCoreOff(l) ==
    IF panel_initialized \/ config.suspend
    THEN Clamp(PhyIdleOff(l))
    ELSE SetUlps(l, FALSE)

\* dsi_post_clkoff_cb() for the core clocks: controller and PHY lose power.
PostCoreOff(l) == Driven(l, "stop")

\* The lanes after a request that failed at f, by what it did to the clocks:
\* the callbacks ran in the order in which the clocks changed.
LinkAfter(f) ==
    LET lp == IF f = "lp_cb" THEN PostLpOnFailed(link)
              ELSE IF lp_clks' > lp_clks THEN {PostLpOn(link)} ELSE {link}
        hs == UNION {IF f = "hs_cb" THEN PostHsOnFailed(l)
                     ELSE IF hs_clks' > hs_clks THEN {PostHsOn(l)} ELSE {l}
                        : l \in lp}
        off == IF lp_clks' < lp_clks THEN {PreLpOff(l) : l \in hs} ELSE hs
    IN  IF core_clks' < core_clks
        THEN {PostCoreOff(PreCoreOff(l)) : l \in off} ELSE off

\* dsi_display_clk_ctrl()
Req(c, kinds, s, f) == Bounded(c, kinds, s) /\ ReqState(c, kinds, s, f)

All == Kind

\* dsi_display_clk_ctrl() with the callbacks it runs, and how far it got.
ClkCtrl(c, kinds, s) ==
    \E f \in Fault \cup {"none"} :
        /\ Req(c, kinds, s, f)
        /\ link' \in LinkAfter(f)

Granted == rc' = "ok"

-----------------------------------------------------------------------------
(* The bridge: dsi_bridge_pre_enable() to dsi_bridge_post_disable(). *)

PanelLockFree == ~backlight /\ ~status
DisplayLockFree == ~recovery

Go(from, to) == disp = from /\ disp' = to

\* dsi_display_prepare() up to the link clocks.  The PHY is reset unless the
\* lanes were kept in ULPS over suspend.
PrepareCore ==
    /\ disp = "off" /\ DisplayLockFree
    /\ esd_recovery_pending' = FALSE
    /\ \E f \in Fault \cup {"none"} :
        /\ Req("dsi", {"core"}, "ON", f)
        /\ link' \in {IF f # "none" \/ (config.suspend /\ l.ulps_enabled)
                      THEN l ELSE PhyReset(l) : l \in LinkAfter(f)}
    /\ disp' = IF Granted THEN "core" ELSE "pre_enabled"
    /\ UNCHANGED <<config, panel_initialized, clkrate_change_pending,
                   host_ready, disturbed, vid_switched, uservars>>

\* dsi_display_prepare() from the link clocks on.  dsi_panel_prepare() resets
\* the panel, which forgets what it saw of the lanes.
PrepareLink ==
    /\ disp = "core"
    /\ \E f \in Fault \cup {"none"} :
        /\ Req("dsi", {"link"}, "ON", f)
        /\ link' \in {IF f # "none" THEN [l EXCEPT !.phy_on = FALSE]
                      ELSE [l EXCEPT !.pads = IF l.clamp_enabled THEN @
                                              ELSE l.ctrl]
                        : l \in LinkAfter(f)}
    /\ disp' = IF Granted THEN "prepared" ELSE "unwind"
    /\ host_ready' = Granted
    /\ disturbed' = (disturbed /\ ~Granted)
    /\ UNCHANGED <<config, panel_initialized, esd_recovery_pending,
                   clkrate_change_pending, vid_switched, uservars>>

\* dsi_display_enable()
PanelEnable ==
    /\ Go("prepared", "pre_enabled") /\ DisplayLockFree /\ PanelLockFree
    /\ panel_initialized' = TRUE
    /\ UNCHANGED <<clkvars, link, config, esd_recovery_pending, host_ready,
                   clkrate_change_pending, disturbed, vid_switched, uservars>>

\* dsi_display_enable() fails.  If the ON commands or the engine are refused the
\* panel is not initialized at the end; a panel with DSC that refuses its PPS
\* after the ON commands stays initialized until dsi_display_disable().
PanelRefuses ==
    /\ Go("prepared", "refused") /\ DisplayLockFree /\ PanelLockFree
    /\ panel_initialized' \in BOOLEAN
    /\ disturbed' = TRUE
    /\ UNCHANGED <<clkvars, link, config, esd_recovery_pending, host_ready,
                   clkrate_change_pending, vid_switched, uservars>>

\* dsi_display_unprepare() up to the core clocks: of a panel that was
\* disabled, that refused to be enabled, or that refused to switch modes.
\* With ULPS over suspend the PHY stays on.
UnprepareLink ==
    /\ DisplayLockFree /\ PanelLockFree
    /\ \/ Go("disabled", "unlinked") \/ Go("refused", "unwind")
       \/ Go("switched", "switch_unlinked")
    /\ \E f \in Fault \cup {"none"} :
        /\ Req("dsi", {"link"}, "OFF", f)
        /\ link' \in {IF config.suspend THEN l ELSE [l EXCEPT !.phy_on = FALSE]
                        : l \in LinkAfter(f)}
    /\ host_ready' = FALSE
    /\ disturbed' = (disturbed \/ disp # "disabled")
    /\ UNCHANGED <<config, panel_initialized, esd_recovery_pending,
                   clkrate_change_pending, vid_switched, uservars>>

\* The end of dsi_display_unprepare(), and of dsi_display_prepare() and
\* dsi_display_pre_switch() when they fail.
UnprepareCore ==
    /\ \/ Go("unlinked", "off") \/ Go("unwind", "pre_enabled")
       \/ Go("switch_unlinked", "encoder_on")
    /\ ClkCtrl("dsi", {"core"}, "OFF")
    /\ UNCHANGED <<panelvars, uservars>>

\* sde_encoder_virt_enable(): KICKOFF turns the encoder's resources on.
EncoderEnable ==
    /\ Go("pre_enabled", "encoder_on")
    /\ ClkCtrl("mdp", All, "ON")
    /\ mdp_on' = Granted
    /\ UNCHANGED <<panelvars, backlight, status, recovery>>

\* Mutant: the DSI client keeps its vote after the panel is on.
PostEnableKeeps ==
    /\ Go("encoder_on", "on") \/ Go("switched", "on")
    /\ DisplayLockFree /\ PanelLockFree
    /\ UNCHANGED <<clkvars, link, panelvars, uservars>>

\* dsi_display_post_enable() and dsi_display_pre_disable(): in command mode
\* the DSI client votes only while the panel is switched on or off.  The
\* latter runs after the ESD check was cancelled.
PostEnable ==
    /\ Go("encoder_on", "on") \/ Go("switched", "on")
    /\ DisplayLockFree /\ PanelLockFree
    /\ IF config.cmd THEN ClkCtrl("dsi", All, "OFF")
       ELSE UNCHANGED <<clkvars, link>>
    /\ UNCHANGED <<panelvars, uservars>>

PreDisable ==
    /\ Go("on", "pre_disabled") /\ DisplayLockFree /\ PanelLockFree
    /\ IF config.cmd THEN ClkCtrl("dsi", All, "ON")
       ELSE UNCHANGED <<clkvars, link>>
    /\ UNCHANGED <<panelvars, uservars>>

\* sde_encoder_virt_disable(): STOP lets go of what the encoder holds.
EncoderDisable ==
    /\ Go("pre_disabled", "encoder_off")
    /\ IF mdp_on THEN ClkCtrl("mdp", All, "OFF")
       ELSE UNCHANGED <<clkvars, link>>
    /\ mdp_on' = FALSE
    /\ UNCHANGED <<panelvars, backlight, status, recovery>>

\* dsi_display_disable()
PanelDisable ==
    /\ Go("encoder_off", "disabled") /\ DisplayLockFree /\ PanelLockFree
    /\ panel_initialized' = FALSE
    /\ UNCHANGED <<clkvars, link, config, esd_recovery_pending, host_ready,
                   clkrate_change_pending, disturbed, vid_switched, uservars>>

-----------------------------------------------------------------------------
(* Mode changes with the display on. *)

\* A refresh rate or dynamic clock change returns before any request.
SeamlessPreEnable ==
    /\ disp = "on" /\ DisplayLockFree
    /\ esd_recovery_pending' = FALSE
    /\ clkrate_change_pending' \in {clkrate_change_pending,
                                    clkrate_change_pending \/ config.cmd}
    /\ UNCHANGED <<clkvars, link, disp, config, panel_initialized, host_ready,
                   disturbed, vid_switched, uservars>>

\* dsi_display_pre_switch(), of a video panel once (a bound).
SwitchCore ==
    /\ disp = "on" /\ DisplayLockFree /\ mdp_on /\ ~vid_switched
    /\ esd_recovery_pending' = FALSE
    /\ clkrate_change_pending' = (clkrate_change_pending \/ config.cmd)
    /\ ClkCtrl("dsi", {"core"}, "ON")
    /\ disp' = IF Granted THEN "switch" ELSE "switched"
    /\ vid_switched' = ~config.cmd
    /\ UNCHANGED <<config, panel_initialized, host_ready, disturbed, uservars>>

\* A failure gives the core clocks back and not the link's reference.
SwitchLink ==
    /\ disp = "switch"
    /\ ClkCtrl("dsi", {"link"}, "ON")
    /\ disp' = IF Granted THEN "switched" ELSE "switch_unlinked"
    /\ host_ready' = (host_ready /\ Granted)
    /\ UNCHANGED <<config, panel_initialized, esd_recovery_pending, disturbed,
                   clkrate_change_pending, vid_switched, uservars>>

\* dsi_display_pre_kickoff(): the link restarts at a new rate.  It dips into
\* ULPS on the way when the panel can.
UpdateClkRate ==
    /\ disp = "on" /\ mdp_on /\ clkrate_change_pending
    /\ DisplayLockFree /\ PanelLockFree
    /\ \E f \in Fault \cup {"none"} :
        /\ ForceUpdate(f)
        /\ LET down == PreLpOff(link)
               up == PostLpOn(down)
           IN  link' \in
                CASE clk_state["link"] = "OFF" -> {link}
                  [] f \in {"lp", "hs"} -> {down}
                  [] f = "hs_cb" -> PostLpOnFailed(down) \cup PostHsOnFailed(up)
                  [] OTHER -> {PostHsOn(up)}
    /\ clkrate_change_pending' = ~Granted
    /\ UNCHANGED <<disp, config, panel_initialized, esd_recovery_pending,
                   host_ready, disturbed, vid_switched, uservars>>

-----------------------------------------------------------------------------
(* The encoder while the display is on, the panel and the error workers. *)

\* Idle power collapse in command mode, and the wake-up from it.  A wake-up
\* that fails leaves the encoder idle and the next frame tries again.
EncoderIdle ==
    /\ disp = "on" /\ config.cmd /\ mdp_on
    /\ ClkCtrl("mdp", All, "OFF")
    /\ mdp_on' = FALSE
    /\ UNCHANGED <<disp, panelvars, backlight, status, recovery>>

EncoderWake ==
    /\ disp = "on" /\ config.cmd /\ ~mdp_on
    /\ ClkCtrl("mdp", All, "ON")
    /\ mdp_on' = Granted
    /\ UNCHANGED <<disp, panelvars, backlight, status, recovery>>

\* dsi_display_set_backlight() holds the core clocks.
BacklightBegin ==
    /\ PanelLockFree /\ panel_initialized
    /\ ClkCtrl("dsi", {"core"}, "ON")
    /\ backlight' = Granted
    /\ UNCHANGED <<disp, panelvars, status, recovery, mdp_on>>

BacklightEnd ==
    /\ backlight
    /\ ClkCtrl("dsi", {"core"}, "OFF")
    /\ backlight' = FALSE
    /\ UNCHANGED <<disp, panelvars, status, recovery, mdp_on>>

Up == disp \in {"on", "switch", "switched", "switch_unlinked"}

\* dsi_display_check_status() holds all clocks, granted or not, and notes a
\* panel that does not answer once it gave them back.
StatusBegin ==
    /\ Up /\ PanelLockFree /\ panel_initialized /\ ~esd_recovery_pending
    /\ ClkCtrl("dsi", All, "ON")
    /\ status' = TRUE
    /\ UNCHANGED <<disp, panelvars, backlight, recovery, mdp_on>>

\* Mutant: a panel that does not answer makes the check return early.
StatusEndEarly(dead) ==
    /\ status
    /\ IF dead THEN UNCHANGED <<clkvars, link>> ELSE ClkCtrl("dsi", All, "OFF")
    /\ status' = FALSE
    /\ esd_recovery_pending' = (esd_recovery_pending \/ dead)
    /\ disturbed' = (disturbed \/ dead)
    /\ UNCHANGED <<disp, config, panel_initialized, clkrate_change_pending,
                   host_ready, vid_switched, backlight, recovery, mdp_on>>

StatusEnd(dead) ==
    /\ status
    /\ ClkCtrl("dsi", All, "OFF")
    /\ status' = FALSE
    /\ esd_recovery_pending' = (esd_recovery_pending \/ dead)
    /\ disturbed' = (disturbed \/ dead)
    /\ UNCHANGED <<disp, config, panel_initialized, clkrate_change_pending,
                   host_ready, vid_switched, backlight, recovery, mdp_on>>

\* The TE variant of the check takes no clocks.
StatusTeFails ==
    /\ Up /\ PanelLockFree /\ panel_initialized /\ ~esd_recovery_pending
    /\ esd_recovery_pending' = TRUE
    /\ disturbed' = TRUE
    /\ UNCHANGED <<clkvars, link, disp, config, panel_initialized, host_ready,
                   clkrate_change_pending, vid_switched, uservars>>

\* dsi_display_handle_fifo_underflow() and the other error workers.
RecoveryBegin ==
    /\ DisplayLockFree /\ disp \notin {"core", "unwind", "unlinked", "switch"}
    /\ host_ready /\ ~esd_recovery_pending
    /\ ClkCtrl("dsi", All, "ON")
    /\ recovery' = TRUE
    /\ UNCHANGED <<disp, panelvars, backlight, status, mdp_on>>

RecoveryEnd ==
    /\ recovery
    /\ ClkCtrl("dsi", All, "OFF")
    /\ recovery' = FALSE
    /\ UNCHANGED <<disp, panelvars, backlight, status, mdp_on>>

Bridge ==
    \/ PrepareCore \/ PrepareLink \/ PanelEnable \/ PanelRefuses
    \/ EncoderEnable \/ PostEnable \/ PreDisable \/ EncoderDisable \/ PanelDisable
    \/ UnprepareLink \/ UnprepareCore

ModeChange == SeamlessPreEnable \/ SwitchCore \/ SwitchLink \/ UpdateClkRate

Users ==
    \/ EncoderIdle \/ EncoderWake
    \/ BacklightBegin \/ BacklightEnd
    \/ StatusBegin \/ (\E dead \in BOOLEAN : StatusEnd(dead)) \/ StatusTeFails
    \/ RecoveryBegin \/ RecoveryEnd

Next == Bridge \/ ModeChange \/ Users

Spec == Init /\ [][Next]_vars

-----------------------------------------------------------------------------
(* Properties. *)

\* Every variable stays in its domain (struct dsi_display and the two clock
\* clients of dsi_display_bind()).
TypeOK ==
    /\ ClkTypeOK
    /\ config \in Configs /\ link \in Link /\ disp \in Place
    /\ {panel_initialized, esd_recovery_pending, clkrate_change_pending,
        host_ready, mdp_on, backlight, status, recovery, disturbed,
        vid_switched} \subseteq BOOLEAN

Healthy == faults = 0 /\ ~disturbed

\* The lanes follow the clocks, whatever client asked and whatever the lanes
\* went through before.  While the link clocks are granted they can carry a
\* command: out of ULPS, not clamped, with the PHY on (dsi_post_clkon_cb()).
\* The driver's ulps_enabled is what the panel sees: the lanes never enter or
\* leave ULPS unasked when a clamp is set or released over a power collapse
\* (dsi_display_set_clamp()).  A panel that is on and whose core clocks are off
\* is parked: clamped, its lanes in ULPS if it supports that, its PHY off if
\* that is allowed (dsi_pre_clkoff_cb()).
LanesReady ==
    clk_state["link"] = "ON" /\ (vid_switched => host_ready) =>
        /\ link.pads = "stop" /\ link.ctrl = "stop"
        /\ ~link.ulps_enabled /\ ~link.clamp_enabled /\ link.phy_on

UlpsFlagTruthful == link.pads = IF link.ulps_enabled THEN "ulps" ELSE "stop"

IdleLinkParked ==
    panel_initialized /\ clk_state["core"] = "OFF" =>
        /\ link.clamp_enabled
        /\ config.ulps => link.pads = "ulps"
        /\ config.phy_off => ~link.phy_on

LanesFollowClocks == Healthy => LanesReady /\ UlpsFlagTruthful /\ IdleLinkParked

\* What the clients hold of both groups, each clock on exactly while it is held.
Holds(mdp, dsi) ==
    /\ refcount["mdp"] = [k \in Kind |-> mdp]
    /\ refcount["dsi"] = [k \in Kind |-> dsi]
    /\ LET on == One(mdp + dsi > 0)
       IN  core_clks = on /\ lp_clks = on /\ hs_clks = on

\* A display that was disabled holds no vote and no clock, whatever enabling
\* steps failed and were unwound on the way (dsi_bridge_post_disable()), except
\* the one pair of references that a mode switch of a video panel leaves.  Its
\* lanes are free unless they are to stay in ULPS or a video panel refused to be
\* enabled: one that refused its PPS is clamped while it is initialized, and
\* nothing before the next enable takes the clamp away.
OffReleasesAll ==
    faults = 0 /\ disp = "off" =>
        /\ Holds(0, 0) \/ (vid_switched /\ Holds(0, 1))
        /\ link.clamp_enabled => config.suspend \/ (~config.cmd /\ disturbed)

\* The encoder, the panel's users and the error workers give back what they took,
\* whatever the check of the panel finds and whether a mode switch or an enable
\* was refused: a command panel that is on and that nobody uses has no clocks
\* (dsi_display_post_enable(), dsi_display_check_status()).
IdleReleasesAll ==
    /\ faults = 0 /\ config.cmd /\ disp = "on"
    /\ ~mdp_on /\ ~backlight /\ ~status /\ ~recovery
    => Holds(0, 0)

=============================================================================
