------------------------------- MODULE SdeRsc -------------------------------
(***************************************************************************)
(* The display RSC (msm/sde_rsc.c): displays and the power handle vote for *)
(* a state, and the driver programs the hardware with the state that the   *)
(* votes add up to: IDLE collapses the display core's power, CLK keeps it  *)
(* up, CMD and VID hand it to the solver.  The rules differ between        *)
(* revision 2 and revision 3 of the block.                                 *)
(*                                                                         *)
(* sde_rsc_client_state_update runs under client_lock and is one step,     *)
(* except where switch_to_clk/switch_to_vid sleep, with the lock held,     *)
(* until an earlier switch has seen its vsync (rsc_vsync_wait).  After the *)
(* call a display may have to wait for a vblank without the lock and then  *)
(* drop that count (sde_encoder.c, _sde_encoder_update_rsc_client).        *)
(*                                                                         *)
(* The callers are modelled by what they do: a display votes only while    *)
(* the power handle votes CLK, because the encoder takes pm_runtime before *)
(* it votes and gives it back after its idle vote                          *)
(* (_sde_encoder_resource_control_helper).                                 *)
(***************************************************************************)
EXTENDS Naturals, FiniteSets

CONSTANTS
  Primary,     \* SDE_RSC_PRIMARY_DISP_CLIENT
  External,    \* SDE_RSC_EXTERNAL_DISP_CLIENT clients
  PowerHandle, \* SDE_RSC_CLK_CLIENT
  Versions,    \* revisions of the block to look at: 2, 3
  FaultModes,  \* what may go wrong together in one behaviour: see Outcomes
  MaxFreeze,   \* bound: hibernations in one behaviour
  NoClient

Display == {Primary} \cup External
Client == Display \cup {PowerHandle}
State == {"IDLE", "CLK", "CMD", "VID"}

ASSUME RscAssumption ==
  /\ Primary \notin External /\ PowerHandle \notin Display
  /\ NoClient \notin Client
  /\ IsFiniteSet(External)
  /\ Versions \subseteq {2, 3}
  /\ \A f \in FaultModes : f \subseteq {"enable", "entry", "exit", "timeout", "freeze"}
  /\ MaxFreeze \in Nat

VARIABLES
  version,       \* rsc->version
  fault,         \* what may go wrong in this behaviour
  vote,          \* client->current_state
  current_state, \* rsc->current_state
  hw,            \* the state the wrapper registers were last written for
  power_collapse,
  resource_refcount,
  rsc_vsync_wait,
  need_hwinit,
  sw_fs_enabled,
  fs_votes,      \* regulator_enable minus regulator_disable on rsc->fs
  freezes,       \* hibernations so far
  client_lock,   \* the client whose call holds the mutex
  pc,            \* where each client's call is
  target,        \* the state a sleeping call will record
  wait_refcount  \* what _sde_encoder_update_rsc_client read

power == <<hw, power_collapse, resource_refcount, need_hwinit,
           sw_fs_enabled, fs_votes, freezes>>
calls == <<client_lock, pc, target, wait_refcount>>
rscvars == <<version, fault, vote, current_state, power, rsc_vsync_wait, calls>>

\* A call succeeds, or fails where the run lets it.
Outcomes(f) == IF f \in fault THEN BOOLEAN ELSE {TRUE}

-----------------------------------------------------------------------------
\* What the clients vote: the flags of the client_list loops.
Multi(v) == \E c \in External : v[c] = "CLK"
VidActive(v) == \E c \in Client : v[c] = "VID"
CmdActive(v) == \E c \in Client : v[c] = "CMD"
ClkClient(v) == v[PowerHandle] = "CLK"

\* Mutant: a display in cmd mode does not hold the block up.
IdleV3ForgetsCmd(v) ==
  IF VidActive(v) /\ ~Multi(v) THEN "VID" ELSE IF ClkClient(v) THEN "CLK" ELSE "IDLE"

\* sde_rsc_switch_to_idle_v3 and the switch it delegates to.
IdleV3(v) ==
  CASE VidActive(v) /\ ~Multi(v) -> "VID"
    [] ~VidActive(v) /\ CmdActive(v) /\ ~Multi(v) -> "CMD"
    [] Multi(v) \/ (~VidActive(v) /\ ~CmdActive(v)) ->
         IF ClkClient(v) THEN "CLK" ELSE "IDLE"

\* sde_rsc_switch_to_idle_v2.
IdleV2(v) ==
  CASE VidActive(v) -> "none"
    [] ~VidActive(v) /\ CmdActive(v) -> "CMD"
    [] ~VidActive(v) /\ ~CmdActive(v) -> IF ClkClient(v) THEN "CLK" ELSE "IDLE"

\* sde_rsc_switch_to_cmd_v3, called for the primary.
CmdV3(v) == IF current_state # "CMD" /\ Multi(v) THEN "none" ELSE "CMD"

\* sde_rsc_switch_to_vid_v3, called for the primary.
VidV3(v) == IF current_state # "VID" /\ Multi(v) THEN "none" ELSE "VID"

\* sde_rsc_switch_to_clk_v3.
ClkV3(v) == IF ~Multi(v) /\ (VidActive(v) \/ CmdActive(v)) THEN "none" ELSE "CLK"

\* sde_rsc_switch_to_cmd_v2.
CmdV2(v) == IF current_state # "CMD" /\ VidActive(v) THEN "none" ELSE "CMD"

\* sde_rsc_switch_to_vid_v2: "video state switch should be done immediately".
VidV2(v) == "VID"

\* sde_rsc_switch_to_clk_v2.
ClkV2(v) == IF VidActive(v) \/ CmdActive(v) THEN "none" ELSE "CLK"

\* The state a vote for s leads to; "none" is STATE_UPDATE_NOT_ALLOWED.
Target(s, v) ==
  CASE version = 3 /\ s = "IDLE" -> IdleV3(v)
    [] version = 3 /\ s = "CMD" -> CmdV3(v)
    [] version = 3 /\ s = "VID" -> VidV3(v)
    [] version = 3 /\ s = "CLK" -> ClkV3(v)
    [] version = 2 /\ s = "IDLE" -> IdleV2(v)
    [] version = 2 /\ s = "CMD" -> CmdV2(v)
    [] version = 2 /\ s = "VID" -> VidV2(v)
    [] version = 2 /\ s = "CLK" -> ClkV2(v)

\* A switch to the cmd or vid state the block is in writes no register.
Programs(t) == t # "none" /\ ~(t \in {"CMD", "VID"} /\ current_state = t)

\* The switches that wait for the vsync of an earlier one.
Counted(t) == t = "CLK" \/ (version = 2 /\ t = "VID" /\ current_state # "VID")

\* The state changes that take effect with the primary's next vsync.
NeedsVblank(t, config) ==
  CASE Counted(t) ->
         current_state \in (IF version = 3 THEN {"CMD", "VID"} ELSE {"CMD"})
    [] ~Counted(t) /\ t \in {"CMD", "VID"} /\ (version = 3 \/ t = "CMD") ->
         /\ current_state \in {"CMD", "VID"}
         /\ current_state = t => config
    [] OTHER -> FALSE

-----------------------------------------------------------------------------
\* What the encoders and the power handle vote.
Votes(c) ==
  CASE c = PowerHandle -> {"CLK", "IDLE"}
    [] c \in External -> {"IDLE", IF version = 3 THEN "CLK" ELSE "VID"}
    [] c = Primary -> State

(***************************************************************************)
(* The order of calls in the callers: pm_runtime brackets a display's vote.*)
(***************************************************************************)
CallerMay(c, s) ==
  /\ s \in Votes(c)
  /\ IF c = PowerHandle
     THEN s = "IDLE" => \A d \in Display : vote[d] = "IDLE" /\ pc[d] = "idle"
     ELSE s # "IDLE" => vote[PowerHandle] = "CLK" /\ pc[PowerHandle] = "idle"

RscInit ==
  /\ version \in Versions /\ fault \in FaultModes
  /\ vote = [c \in Client |-> "IDLE"]
  /\ current_state = "IDLE" /\ hw = "IDLE" /\ power_collapse = FALSE
  /\ resource_refcount = 0 /\ rsc_vsync_wait = 0
  /\ need_hwinit = FALSE /\ sw_fs_enabled = TRUE /\ fs_votes = 1 /\ freezes = 0
  /\ client_lock = NoClient
  /\ pc = [c \in Client |-> "idle"]
  /\ target = [c \in Client |-> "none"]
  /\ wait_refcount = [c \in Client |-> 0]

\* sde_rsc_hw_init after hibernation, on the first vote that is not idle.
HwInit(s) == need_hwinit /\ s # "IDLE"

(***************************************************************************)
(* hw_ops.state_update to t.  Leaving power collapse may fail, and the     *)
(* registers are written all the same; entering it may fail.               *)
(***************************************************************************)
StateUpdateHw(t, exitOK, entryOK) ==
  /\ power_collapse' = IF t = "IDLE" THEN entryOK \/ (power_collapse /\ ~exitOK)
                                     ELSE power_collapse /\ ~exitOK
  /\ hw' = IF t # "IDLE" \/ entryOK THEN t ELSE hw

HwSucceeds(t, exitOK, entryOK) ==
  IF t = "IDLE" THEN entryOK ELSE ~power_collapse \/ exitOK

\* The software vote on the supply: taken by hw_init, dropped in mode-2 entry.
FsUpdate(s, t, entryOK) ==
  LET released == t = "IDLE" /\ entryOK /\ sw_fs_enabled IN
  /\ need_hwinit' = (need_hwinit /\ ~HwInit(s))
  /\ fs_votes' = IF HwInit(s) THEN fs_votes + 1
                 ELSE IF released THEN fs_votes - 1 ELSE fs_votes
  /\ sw_fs_enabled' = ((sw_fs_enabled \/ HwInit(s)) /\ ~released)

\* Mutant: the clocks stay on when the block goes idle.
ResourceKept(refs, st) == refs

\* clk_disable: the clocks go when the block ends up idle.
ResourceAfter(refs, st) == IF st = "IDLE" /\ refs > 0 THEN refs - 1 ELSE refs

\* sde_rsc_resource_enable at the start of a call that finds the block idle.
ResourceBefore(enableOK) ==
  IF current_state = "IDLE" /\ enableOK THEN resource_refcount + 1 ELSE resource_refcount

\* The call ends without sleeping and records t if the switch succeeded.
Finish(c, t, ok, refs, vblank) ==
  /\ current_state' = IF ok THEN t ELSE current_state
  /\ resource_refcount' = ResourceAfter(refs, current_state')
  /\ IF ok /\ vblank /\ c # PowerHandle
     THEN /\ pc' = [pc EXCEPT ![c] = "vblank"]
          /\ rsc_vsync_wait' = IF Counted(t) THEN rsc_vsync_wait + 1 ELSE rsc_vsync_wait
     ELSE UNCHANGED <<pc, rsc_vsync_wait>>
  /\ UNCHANGED <<client_lock, target>>

\* The call sleeps on rsc_vsync_waitq with client_lock held.
Sleep(c, t, refs) ==
  /\ client_lock' = c
  /\ pc' = [pc EXCEPT ![c] = "sleep"]
  /\ target' = [target EXCEPT ![c] = t]
  /\ resource_refcount' = refs
  /\ UNCHANGED <<current_state, rsc_vsync_wait>>

(***************************************************************************)
(* sde_rsc_client_state_update, from the lock to its end or its sleep.     *)
(***************************************************************************)
ClientStateUpdate(c, s, config) ==
  LET v == [vote EXCEPT ![c] = s]
      t == Target(s, v)
  IN
  /\ client_lock = NoClient /\ pc[c] = "idle"
  /\ CallerMay(c, s)
  /\ config => c = Primary /\ s # "IDLE"
  /\ vote' = v
  /\ UNCHANGED <<version, fault, wait_refcount, freezes>>
  /\ IF current_state = s /\ ~config
     THEN UNCHANGED <<current_state, hw, power_collapse, resource_refcount, need_hwinit,
                      sw_fs_enabled, fs_votes, rsc_vsync_wait, client_lock, pc, target>>
     ELSE
     \E enableOK \in Outcomes("enable"), exitOK \in Outcomes("exit"),
        entryOK \in Outcomes("entry") :
       LET ok == t # "none" /\ (Programs(t) => HwSucceeds(t, exitOK, entryOK))
           vblank == ok /\ NeedsVblank(t, config)
       IN
       /\ FsUpdate(s, t, entryOK)
       /\ IF Programs(t) THEN StateUpdateHw(t, exitOK, entryOK)
                         ELSE UNCHANGED <<hw, power_collapse>>
       /\ \/ /\ ~(t # "none" /\ Counted(t) /\ ~vblank /\ rsc_vsync_wait > 0)
             /\ Finish(c, t, ok, ResourceBefore(enableOK), vblank)
          \/ /\ t # "none" /\ Counted(t) /\ ~vblank /\ rsc_vsync_wait > 0
             /\ Sleep(c, t, ResourceBefore(enableOK))

\* The sleeper is woken, or gives up; a timeout is an error to the caller.
EndSleep(c, woken) ==
  /\ pc[c] = "sleep"
  /\ woken => rsc_vsync_wait = 0
  /\ ~woken => "timeout" \in fault
  /\ current_state' = IF woken THEN target[c] ELSE current_state
  /\ resource_refcount' = ResourceAfter(resource_refcount, current_state')
  /\ client_lock' = NoClient
  /\ pc' = [pc EXCEPT ![c] = "idle"]
  /\ target' = [target EXCEPT ![c] = "none"]
  /\ UNCHANGED <<version, fault, vote, hw, power_collapse, need_hwinit, sw_fs_enabled, fs_votes, freezes,
                 rsc_vsync_wait, wait_refcount>>

\* _sde_encoder_update_rsc_client reads the count without client_lock.
ReadVsyncRefcount(c) ==
  /\ pc[c] = "vblank"
  /\ wait_refcount' = [wait_refcount EXCEPT ![c] = rsc_vsync_wait]
  /\ pc' = [pc EXCEPT ![c] = "wait"]
  /\ UNCHANGED <<version, fault, vote, current_state, power, rsc_vsync_wait, client_lock, target>>

\* Mutant: the count is dropped under client_lock.
ResetVsyncRefcountLocked(c) ==
  /\ pc[c] = "wait" /\ client_lock = NoClient
  /\ rsc_vsync_wait' = IF wait_refcount[c] > 0 /\ rsc_vsync_wait > 0
                       THEN rsc_vsync_wait - 1 ELSE rsc_vsync_wait
  /\ wait_refcount' = [wait_refcount EXCEPT ![c] = 0]
  /\ pc' = [pc EXCEPT ![c] = "idle"]
  /\ UNCHANGED <<version, fault, vote, current_state, power, client_lock, target>>

\* Mutant: atomic_dec for atomic_add_unless.
ResetVsyncRefcountDec(c) ==
  /\ pc[c] = "wait"
  /\ rsc_vsync_wait' = IF wait_refcount[c] > 0 THEN rsc_vsync_wait - 1 ELSE rsc_vsync_wait
  /\ wait_refcount' = [wait_refcount EXCEPT ![c] = 0]
  /\ pc' = [pc EXCEPT ![c] = "idle"]
  /\ UNCHANGED <<version, fault, vote, current_state, power, client_lock, target>>

(***************************************************************************)
(* The vblank came, or MAX_RSC_WAIT rounds passed; then                    *)
(* sde_rsc_client_reset_vsync_refcount, without client_lock.               *)
(***************************************************************************)
ResetVsyncRefcount(c) ==
  /\ pc[c] = "wait"
  /\ rsc_vsync_wait' = IF wait_refcount[c] > 0 /\ rsc_vsync_wait > 0
                       THEN rsc_vsync_wait - 1 ELSE rsc_vsync_wait
  /\ wait_refcount' = [wait_refcount EXCEPT ![c] = 0]
  /\ pc' = [pc EXCEPT ![c] = "idle"]
  /\ UNCHANGED <<version, fault, vote, current_state, power, client_lock, target>>

\* sde_rsc_pm_freeze_late: hibernation, with every display suspended.
PmFreezeLate ==
  /\ "freeze" \in fault /\ freezes < MaxFreeze
  /\ \A c \in Client : vote[c] = "IDLE" /\ pc[c] = "idle"
  /\ need_hwinit' = TRUE
  /\ freezes' = freezes + 1
  /\ UNCHANGED <<version, fault, vote, current_state, hw, power_collapse, resource_refcount, sw_fs_enabled,
                 fs_votes, rsc_vsync_wait, calls>>

RscNext ==
  \/ \E c \in Client, s \in State, config \in BOOLEAN : ClientStateUpdate(c, s, config)
  \/ \E c \in Client, woken \in BOOLEAN : EndSleep(c, woken)
  \/ \E c \in Client : ReadVsyncRefcount(c)
  \/ \E c \in Client : ResetVsyncRefcount(c)
  \/ PmFreezeLate

(***************************************************************************)
(* The encoder's wait for the vblank is bounded by MAX_RSC_WAIT rounds, so *)
(* a call that has begun goes on: weak fairness of what follows the vote.  *)
(***************************************************************************)
Fairness ==
  \A c \in Client :
    WF_rscvars(EndSleep(c, TRUE)) /\ WF_rscvars(ReadVsyncRefcount(c)) /\ WF_rscvars(ResetVsyncRefcount(c))

RscSpec == RscInit /\ [][RscNext]_rscvars /\ Fairness

-----------------------------------------------------------------------------
\* The values the RSC's state can have.
RscTypeOK ==
  /\ version \in Versions /\ fault \in FaultModes
  /\ vote \in [Client -> State]
  /\ current_state \in State /\ hw \in State
  /\ power_collapse \in BOOLEAN /\ need_hwinit \in BOOLEAN /\ sw_fs_enabled \in BOOLEAN
  /\ resource_refcount \in {0, 1} /\ rsc_vsync_wait \in Nat /\ fs_votes \in Nat
  /\ freezes \in 0..MaxFreeze
  /\ client_lock \in Client \cup {NoClient}
  /\ pc \in [Client -> {"idle", "sleep", "vblank", "wait"}]
  /\ target \in [Client -> State \cup {"none"}]
  /\ wait_refcount \in [Client -> Nat]

\* The state the votes add up to, by the comments on the switches: a clk
\* display wins on revision 3, a vid display on revision 2; then the
\* primary's own vote; then whatever keeps the clocks on.
Desired(v) ==
  CASE version = 3 /\ Multi(v) -> "CLK"
    [] VidActive(v) /\ ~(version = 3 /\ Multi(v)) -> "VID"
    [] CmdActive(v) /\ ~VidActive(v) /\ ~(version = 3 /\ Multi(v)) -> "CMD"
    [] OTHER -> IF \E c \in Client : v[c] = "CLK" THEN "CLK" ELSE "IDLE"

(***************************************************************************)
(* Whatever the order of the votes, while nothing fails and no call is in  *)
(* progress the block is in the state the votes add up to, and the         *)
(* hardware was programmed for it: a vote that was refused is made good by *)
(* the vote that removes the reason (switch_to_idle looks for the best     *)
(* remaining state).  Clocks, collapse and supply agree with that state,   *)
(* also when something was refused or failed: the clocks are on exactly    *)
(* when it is not idle, unless enabling them failed, which the driver does *)
(* not look at (sde_rsc.h: a clk client requests "rsc clocks enabled and   *)
(* mode_2 exit state"); no client is told that its state was               *)
(* reached while the block is collapsed ("An idle vote from all clients    *)
(* lead to power collapse state"), even if leaving the collapse failed;    *)
(* and a collapsed block holds no vote on the gdsc ("mdss gdsc is off      *)
(* now").                                                                  *)
(***************************************************************************)
VotesDecide == fault = {} => current_state = Desired(vote) /\ hw = current_state
ClocksFollowState ==
  "enable" \notin fault => (resource_refcount = 1 <=> current_state # "IDLE")
CollapsedIsIdle == power_collapse => current_state = "IDLE"
GdscReleased == fault = {} /\ power_collapse => fs_votes = 0

BlockFollowsVotes ==
  /\ client_lock = NoClient => VotesDecide /\ ClocksFollowState /\ CollapsedIsIdle
  /\ GdscReleased

\* The calls that are going to drop a count.
Dropper(c) == pc[c] = "vblank" \/ (pc[c] = "wait" /\ wait_refcount[c] > 0)
Droppers == {c \in Client : Dropper(c)}

(***************************************************************************)
(* However the calls that count a vsync wait, read the count outside the   *)
(* lock and drop it interleave, the count never exceeds the number of      *)
(* calls that are still going to drop one, nor falls below zero: once      *)
(* nobody waits for a vblank it is zero, or every later switch to clk      *)
(* would wait until it times out (sde_rsc_client_reset_vsync_refcount).    *)
(***************************************************************************)
VsyncWaitDrained == rsc_vsync_wait \in 0..Cardinality(Droppers)

(***************************************************************************)
(* A call that sleeps with client_lock held is released by the display it  *)
(* waits for: nobody needs the lock to drop the count.                     *)
(***************************************************************************)
LockReleased == client_lock # NoClient ~> client_lock = NoClient
=============================================================================
