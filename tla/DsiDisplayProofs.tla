-------------------------- MODULE DsiDisplayProofs --------------------------
(***************************************************************************)
(* Proofs about the clock manager and the display on top of it, for every  *)
(* panel, every set of faults and every bound.                             *)
(*                                                                         *)
(* First the manager alone (DsiClkManager): the references and states of   *)
(* the clients agree, the clocks follow the votes until something fails,   *)
(* and the order of the power-up survives failures.                        *)
(*                                                                         *)
(* Then the display, whose actions each make at most one request of the    *)
(* manager, so that what is proved of the manager holds of it.             *)
(*                                                                         *)
(* Last the lanes, until something fails.  Accounts and Places say who     *)
(* holds which reference at each place of the bridge; with the manager's   *)
(* invariant they decide which clocks are on.  MovedLanes says what the    *)
(* callbacks make of the lanes for every change of the clocks, and Lanes   *)
(* is the invariant it preserves.                                          *)
(***************************************************************************)
EXTENDS DsiDisplay, TLAPS

KindsOf == (SUBSET Kind) \ {{}}
Outcomes == Faults \cup {"none"}

-----------------------------------------------------------------------------

\* The references and states a request computes for a client have the right
\* types (dsi_clk_req_state()).
LEMMA NewClient ==
    ASSUME ClkTypeOK, NEW c \in Client, NEW kinds \in KindsOf, NEW s \in State
    PROVE  /\ NewRefs(c, kinds, s) \in [Kind -> Nat]
           /\ NewStates(c, kinds, s) \in [Client -> [Kind -> State]]
           /\ \A d \in Client \ {c} :
                NewStates(c, kinds, s)[d] = client_state[d]
           /\ \A k \in Kind : NewStates(c, kinds, s)[c][k] =
                IF k \in kinds /\ Moves(c, k, s) THEN s ELSE client_state[c][k]
BY DEF ClkTypeOK, NewRefs, NewStates, State, KindsOf

\* A group is wanted in one of the two states (dsi_recheck_clk_state()).
LEMMA WantedType ==
    ASSUME NEW states, NEW k PROVE Wanted(states, k) \in State
BY DEF Wanted, State

LEMMA OneType == ASSUME NEW b \in BOOLEAN PROVE One(b) \in {0, 1}
BY DEF One

-----------------------------------------------------------------------------

\* Type correctness of one update of the clocks (dsi_update_clk_state()).
LEMMA UpdateType ==
    ASSUME ClkTypeOK, NEW core \in State, NEW lnk \in State,
           NEW f \in Outcomes, UpdateClkState(core, lnk, f)
    PROVE  /\ clk_state' \in [Kind -> State]
           /\ core_clks' \in Int /\ lp_clks' \in Int /\ hs_clks' \in Int
BY DEF ClkTypeOK, UpdateClkState, One, Kind, State

LEMMA ReqType ==
    ASSUME ClkTypeOK, NEW c \in Client, NEW kinds \in KindsOf, NEW s \in State,
           NEW f \in Outcomes, ReqState(c, kinds, s, f)
    PROVE  ClkTypeOK'
<1> DEFINE states == NewStates(c, kinds, s)
<1>1. /\ refcount' = [refcount EXCEPT ![c] = NewRefs(c, kinds, s)]
      /\ client_state' = states
      /\ Return(f)
  BY DEF ReqState
<1>2. refcount' \in [Client -> [Kind -> Nat]]
      /\ client_state' \in [Client -> [Kind -> State]]
  BY <1>1, NewClient DEF ClkTypeOK
<1>3. rc' \in {"ok", "fail"} /\ faults' \in Nat
  BY <1>1 DEF ClkTypeOK, Return, One
<1>4. /\ clk_state' \in [Kind -> State]
      /\ core_clks' \in Int /\ lp_clks' \in Int /\ hs_clks' \in Int
  <2>1. CASE Changed(c, kinds, s)
    <3>1. UpdateClkState(Wanted(states, "core"), Wanted(states, "link"), f)
      BY <2>1 DEF ReqState
    <3> QED BY <3>1, WantedType, UpdateType
  <2>2. CASE ~Changed(c, kinds, s)
    BY <2>2 DEF ReqState, ClkTypeOK
  <2> QED BY <2>1, <2>2
<1> QED BY <1>2, <1>3, <1>4 DEF ClkTypeOK

LEMMA ForceType ==
    ASSUME ClkTypeOK, NEW f \in Outcomes, ForceUpdate(f)
    PROVE  ClkTypeOK'
BY DEF ClkTypeOK, ForceUpdate, Return, One

-----------------------------------------------------------------------------
(* The three facts about a request. *)

\* A client's state stays on exactly while it has references: the state moves
\* with the first reference and the last one.
LEMMA ReqVote ==
    ASSUME ClkTypeOK, StateIsVote, NEW c \in Client, NEW kinds \in KindsOf,
           NEW s \in State, NEW f \in Outcomes, ReqState(c, kinds, s, f)
    PROVE  StateIsVote'
<1> SUFFICES ASSUME NEW d \in Client, NEW k \in Kind
             PROVE  client_state'[d][k] = "ON" <=> refcount'[d][k] > 0
  BY DEF StateIsVote
<1>1. /\ refcount' = [refcount EXCEPT ![c] = NewRefs(c, kinds, s)]
      /\ client_state' = NewStates(c, kinds, s)
  BY DEF ReqState
<1>2. CASE d # c
  BY <1>1, <1>2, NewClient DEF StateIsVote, ClkTypeOK
<1>3. CASE d = c
  <2>1. refcount'[c][k] = NewRefs(c, kinds, s)[k]
    BY <1>1 DEF ClkTypeOK
  <2>2. client_state'[c][k] = IF k \in kinds /\ Moves(c, k, s)
                              THEN s ELSE client_state[c][k]
    BY <1>1, NewClient
  <2>3. refcount[c][k] \in Nat /\ client_state[c][k] \in State
        /\ (client_state[c][k] = "ON" <=> refcount[c][k] > 0)
    BY DEF ClkTypeOK, StateIsVote
  <2> QED BY <1>3, <2>1, <2>2, <2>3 DEF NewRefs, Moves, State
<1> QED BY <1>2, <1>3

\* The core count and the manager's core state move together, and the HS
\* clocks start after and stop with the LP clocks.
LEMMA UpdateOrder ==
    ASSUME ClkTypeOK, PowerOrder, NEW core \in State, NEW lnk \in State,
           NEW f \in Outcomes, UpdateClkState(core, lnk, f)
    PROVE  PowerOrder'
BY DEF ClkTypeOK, PowerOrder, UpdateClkState, One, Kind, State

\* Without a failure an update brings every clock to what is wanted.
LEMMA UpdateFollows ==
    ASSUME ClkTypeOK, NEW core \in State, NEW lnk \in State,
           UpdateClkState(core, lnk, "none"),
           lp_clks = One(clk_state["link"] = "ON"),
           hs_clks = One(clk_state["link"] = "ON")
    PROVE  /\ clk_state'["core"] = core /\ clk_state'["link"] = lnk
           /\ lp_clks' = One(clk_state'["link"] = "ON")
           /\ hs_clks' = One(clk_state'["link"] = "ON")
BY DEF ClkTypeOK, UpdateClkState, One, Kind, State

\* A request that changes nothing leaves the clients as they were.
LEMMA Unchanged ==
    ASSUME ClkTypeOK, NEW c \in Client, NEW kinds \in KindsOf, NEW s \in State,
           ~Changed(c, kinds, s)
    PROVE  NewStates(c, kinds, s) = client_state
BY DEF ClkTypeOK, NewStates, Changed

LEMMA ReqFollows ==
    ASSUME ClkTypeOK, ClocksFollowVotes, NEW c \in Client,
           NEW kinds \in KindsOf, NEW s \in State, NEW f \in Outcomes,
           ReqState(c, kinds, s, f)
    PROVE  ClocksFollowVotes'
<1> SUFFICES ASSUME faults' = 0
             PROVE  /\ \A k \in Kind : clk_state'[k] = Wanted(client_state', k)
                    /\ lp_clks' = One(clk_state'["link"] = "ON")
                    /\ hs_clks' = One(clk_state'["link"] = "ON")
  BY DEF ClocksFollowVotes, Wanted, One
<1> DEFINE states == NewStates(c, kinds, s)
<1>1. f = "none" /\ faults = 0
  BY DEF ReqState, Return, One, ClkTypeOK
<1>2. client_state' = states
  BY DEF ReqState
<1>3. CASE Changed(c, kinds, s)
  <2>1. UpdateClkState(Wanted(states, "core"), Wanted(states, "link"), "none")
    BY <1>1, <1>3 DEF ReqState
  <2>2. lp_clks = One(clk_state["link"] = "ON")
        /\ hs_clks = One(clk_state["link"] = "ON")
    BY <1>1 DEF ClocksFollowVotes
  <2>3. /\ clk_state'["core"] = Wanted(states, "core")
        /\ clk_state'["link"] = Wanted(states, "link")
        /\ lp_clks' = One(clk_state'["link"] = "ON")
        /\ hs_clks' = One(clk_state'["link"] = "ON")
    BY <2>1, <2>2, WantedType, UpdateFollows
  <2> QED BY <1>2, <2>3 DEF Kind
<1>4. CASE ~Changed(c, kinds, s)
  <2>1. UNCHANGED <<clk_state, lp_clks, hs_clks>>
    BY <1>4 DEF ReqState
  <2>2. client_state' = client_state
    BY <1>2, <1>4, Unchanged
  <2> QED BY <1>1, <2>1, <2>2 DEF ClocksFollowVotes
<1> QED BY <1>3, <1>4

LEMMA ReqOrder ==
    ASSUME ClkTypeOK, PowerOrder, NEW c \in Client, NEW kinds \in KindsOf,
           NEW s \in State, NEW f \in Outcomes, ReqState(c, kinds, s, f)
    PROVE  PowerOrder'
<1> DEFINE states == NewStates(c, kinds, s)
<1>1. CASE Changed(c, kinds, s)
  <2>1. UpdateClkState(Wanted(states, "core"), Wanted(states, "link"), f)
    BY <1>1 DEF ReqState
  <2> QED BY <2>1, WantedType, UpdateOrder
<1>2. CASE ~Changed(c, kinds, s)
  BY <1>2 DEF ReqState, PowerOrder
<1> QED BY <1>1, <1>2

-----------------------------------------------------------------------------

\* What all requests preserve together.
ClkInv == ClkTypeOK /\ StateIsVote /\ ClocksFollowVotes /\ PowerOrder

LEMMA InitClkInv == ClkInit => ClkInv
<1> SUFFICES ASSUME ClkInit PROVE ClkInv OBVIOUS
<1> USE DEF ClkInit, Kind, State
<1>1. ClkTypeOK BY DEF ClkTypeOK
<1>2. StateIsVote BY DEF StateIsVote
<1>3. ClocksFollowVotes BY DEF ClocksFollowVotes, Wanted, One
<1>4. PowerOrder BY DEF PowerOrder, One
<1> QED BY <1>1, <1>2, <1>3, <1>4 DEF ClkInv

\* A forced rate update keeps votes and states; the link's clocks come back
\* unless it fails, and then the failure counts.
LEMMA ForceInv ==
    ASSUME ClkInv, NEW f \in Outcomes, ForceUpdate(f)
    PROVE  ClkInv'
<1>1. ClkTypeOK' BY ForceType DEF ClkInv
<1>2. StateIsVote' BY DEF ClkInv, StateIsVote, ForceUpdate
<1>3. PowerOrder'
  BY DEF ClkInv, ClkTypeOK, PowerOrder, ForceUpdate, One
<1>4. ClocksFollowVotes'
  <2> SUFFICES ASSUME faults' = 0
               PROVE  /\ faults = 0
                      /\ UNCHANGED <<client_state, clk_state, lp_clks, hs_clks>>
    BY DEF ClkInv, ClocksFollowVotes
  <2> QED BY DEF ClkInv, ClkTypeOK, ForceUpdate, Return, One
<1> QED BY <1>1, <1>2, <1>3, <1>4 DEF ClkInv

LEMMA NextClkInv == ClkInv /\ [ClkNext]_clkvars => ClkInv'
<1> SUFFICES ASSUME ClkInv, [ClkNext]_clkvars PROVE ClkInv' OBVIOUS
<1>1. ASSUME NEW c \in Client, NEW kinds \in KindsOf, NEW s \in State,
             NEW f \in Outcomes, ReqState(c, kinds, s, f)
      PROVE  ClkInv'
  BY <1>1, ReqType, ReqVote, ReqFollows, ReqOrder DEF ClkInv
<1>2. ASSUME NEW f \in Outcomes, ForceUpdate(f) PROVE ClkInv'
  BY <1>2, ForceInv
<1>3. CASE UNCHANGED clkvars
  BY <1>3 DEF clkvars, ClkInv, ClkTypeOK, StateIsVote, ClocksFollowVotes,
              Wanted, PowerOrder
<1> QED BY <1>1, <1>2, <1>3 DEF ClkNext, KindsOf, Outcomes

\* Whatever fails, a client is recorded as on exactly while it holds a
\* reference, the core clocks are enabled exactly once while the manager says
\* so, and the HS clocks never run without the LP clocks; and as long as
\* nothing failed the clocks are those the clients vote for.
THEOREM ClkSafety ==
    ClkSpec => [](ClkTypeOK /\ ClkPromise)
<1>1. ClkInv => ClkTypeOK /\ ClkPromise
  BY DEF ClkInv, ClkPromise
<1> QED BY <1>1, InitClkInv, NextClkInv, PTL DEF ClkSpec

-----------------------------------------------------------------------------
(* The display is a client of the manager.                                 *)

\* A request of one of the two clients is a step of the manager.
LEMMA ReqIsClkStep ==
    ASSUME NEW c \in {"mdp", "dsi"},
           NEW kinds \in {{"core"}, {"link"}, All}, NEW s \in State,
           NEW f \in Fault \cup {"none"}, Req(c, kinds, s, f)
    PROVE  ClkNext
<1>1. c \in Client /\ kinds \in (SUBSET Kind) \ {{}}
  BY DsiAssumption DEF All, Kind
<1>2. f \in Faults \cup {"none"}
  BY ClkAssumption
<1> QED BY <1>1, <1>2 DEF ClkNext, Req

LEMMA ClkCtrlIsClkStep ==
    ASSUME NEW c \in {"mdp", "dsi"},
           NEW kinds \in {{"core"}, {"link"}, All}, NEW s \in State,
           ClkCtrl(c, kinds, s)
    PROVE  ClkNext
BY ReqIsClkStep DEF ClkCtrl

\* Each step of the bridge asks the manager at most once.
LEMMA BridgeStep == Bridge => [ClkNext]_clkvars
<1> USE DEF State
<1>1. PrepareCore => ClkNext BY ReqIsClkStep DEF PrepareCore
<1>2. PrepareLink => ClkNext BY ReqIsClkStep DEF PrepareLink
<1>3. UnprepareLink => ClkNext BY ReqIsClkStep DEF UnprepareLink
<1>4. UnprepareCore => ClkNext BY ClkCtrlIsClkStep DEF UnprepareCore
<1>5. EncoderEnable => ClkNext BY ClkCtrlIsClkStep DEF EncoderEnable
<1>6. EncoderDisable => ClkNext \/ UNCHANGED clkvars
  BY ClkCtrlIsClkStep DEF EncoderDisable
<1>7. PostEnable => ClkNext \/ UNCHANGED clkvars
  BY ClkCtrlIsClkStep DEF PostEnable
<1>8. PreDisable => ClkNext \/ UNCHANGED clkvars
  BY ClkCtrlIsClkStep DEF PreDisable
<1>9. PanelEnable \/ PanelRefuses \/ PanelDisable => UNCHANGED clkvars
  BY DEF PanelEnable, PanelRefuses, PanelDisable
<1> QED BY <1>1, <1>2, <1>3, <1>4, <1>5, <1>6, <1>7, <1>8, <1>9 DEF Bridge

\* So does each step of a mode change; the rate change forces the link.
LEMMA ModeChangeStep == ModeChange => [ClkNext]_clkvars
<1> USE DEF State
<1>1. SwitchCore => ClkNext BY ClkCtrlIsClkStep DEF SwitchCore
<1>2. SwitchLink => ClkNext BY ClkCtrlIsClkStep DEF SwitchLink
<1>3. UpdateClkRate => ClkNext BY ClkAssumption DEF UpdateClkRate, ClkNext
<1>4. SeamlessPreEnable => UNCHANGED clkvars BY DEF SeamlessPreEnable
<1> QED BY <1>1, <1>2, <1>3, <1>4 DEF ModeChange

\* So do the encoder, the panel's users and the error workers.
LEMMA UsersStep == Users => [ClkNext]_clkvars
<1> USE DEF State
<1>1. EncoderIdle => ClkNext BY ClkCtrlIsClkStep DEF EncoderIdle
<1>2. EncoderWake => ClkNext BY ClkCtrlIsClkStep DEF EncoderWake
<1>3. BacklightBegin => ClkNext BY ClkCtrlIsClkStep DEF BacklightBegin
<1>4. BacklightEnd => ClkNext BY ClkCtrlIsClkStep DEF BacklightEnd
<1>5. StatusBegin => ClkNext BY ClkCtrlIsClkStep DEF StatusBegin
<1>6. ASSUME NEW dead \in BOOLEAN PROVE StatusEnd(dead) => ClkNext
  BY ClkCtrlIsClkStep DEF StatusEnd
<1>7. StatusTeFails => UNCHANGED clkvars BY DEF StatusTeFails
<1>8. RecoveryBegin => ClkNext BY ClkCtrlIsClkStep DEF RecoveryBegin
<1>9. RecoveryEnd => ClkNext BY ClkCtrlIsClkStep DEF RecoveryEnd
<1> QED BY <1>1, <1>2, <1>3, <1>4, <1>5, <1>6, <1>7, <1>8, <1>9 DEF Users

\* Every behaviour of the display is one of the clock manager, by the shape of
\* its actions: the counts are internal to the manager's file.
LEMMA DisplayUsesManager == Spec => ClkSpec
<1>1. Init => ClkInit
  BY DEF Init
<1>2. [Next]_vars => [ClkNext]_clkvars
  <2>1. UNCHANGED vars => UNCHANGED clkvars
    BY DEF vars
  <2> QED BY <2>1, BridgeStep, ModeChangeStep, UsersStep DEF Next
<1> QED BY <1>1, <1>2, PTL DEF Spec, ClkSpec

\* In every behaviour of the display the clocks follow the votes until
\* something fails, and votes and power order stay consistent beyond that.
THEOREM DisplayClockSafety == Spec => []ClkPromise
<1> QED BY DisplayUsesManager, ClkSafety, PTL

-----------------------------------------------------------------------------
(* Types of the display.                                                   *)

\* What is done to the lanes leaves a state of the lanes.
LEMMA LaneTypes ==
    ASSUME TypeOK, NEW l \in Link
    PROVE  /\ \A e \in BOOLEAN : SetUlps(l, e) \in Link
           /\ Clamp(l) \in Link /\ Unclamp(l) \in Link
           /\ PhyIdleOff(l) \in Link /\ PhyIdleOn(l) \in Link
           /\ PhyReset(l) \in Link /\ PostCoreOff(l) \in Link
           /\ [l EXCEPT !.ulps_enabled = FALSE] \in Link
           /\ [l EXCEPT !.phy_on = FALSE] \in Link
           /\ [l EXCEPT !.pads = IF l.clamp_enabled THEN @ ELSE l.ctrl] \in Link
           /\ [l EXCEPT !.ulps_enabled = @ /\ ~l.clamp_enabled] \in Link
<1>1. ASSUME NEW c \in {"stop", "ulps"} PROVE Driven(l, c) \in Link
  BY <1>1 DEF Driven, Link
<1>2. ASSUME NEW e \in BOOLEAN PROVE SetUlps(l, e) \in Link
  <2>1. ASSUME NEW m \in Link PROVE [m EXCEPT !.ulps_enabled = e] \in Link
    BY DEF Link
  <2> QED BY <1>1, <2>1 DEF SetUlps
<1>3. Clamp(l) \in Link /\ Unclamp(l) \in Link
  BY DEF Clamp, Unclamp, Seen, Link
<1>4. PhyIdleOff(l) \in Link /\ PhyIdleOn(l) \in Link
  BY DEF PhyIdleOff, PhyIdleOn, Link
<1>5. PhyReset(l) \in Link /\ PostCoreOff(l) \in Link
  <2>1. ASSUME NEW m \in Link PROVE [m EXCEPT !.phy_on = TRUE] \in Link
    BY DEF Link
  <2> QED BY <1>1, <2>1 DEF PhyReset, PostCoreOff
<1>6. /\ [l EXCEPT !.ulps_enabled = FALSE] \in Link
      /\ [l EXCEPT !.phy_on = FALSE] \in Link
      /\ [l EXCEPT !.pads = IF l.clamp_enabled THEN @ ELSE l.ctrl] \in Link
      /\ [l EXCEPT !.ulps_enabled = @ /\ ~l.clamp_enabled] \in Link
  BY DEF Link
<1> QED BY <1>2, <1>3, <1>4, <1>5, <1>6

LEMMA CallbackTypes ==
    ASSUME TypeOK, NEW l \in Link
    PROVE  /\ PostLpOn(l) \in Link /\ PostLpOnFailed(l) \subseteq Link
           /\ PostHsOn(l) \in Link /\ PostHsOnFailed(l) \subseteq Link
           /\ PreLpOff(l) \in Link /\ PostCoreOff(PreCoreOff(l)) \in Link
<1>1. PhyIdleOn(l) \in Link /\ PhyIdleOff(l) \in Link
  BY LaneTypes
<1>2. LpOnReenter(l) \in Link
  BY <1>1, LaneTypes DEF LpOnReenter
<1>3. PostLpOn(l) \in Link
  BY <1>2, LaneTypes DEF PostLpOn
<1>4. PostLpOnFailed(l) \subseteq Link
  <2>1. [PhyIdleOn(l) EXCEPT !.ulps_enabled = @ /\ ~l.clamp_enabled] \in Link
    BY <1>1 DEF Link
  <2> QED BY <1>2, <2>1 DEF PostLpOnFailed
<1>5. PostHsOn(l) \in Link
  BY LaneTypes DEF PostHsOn
<1>6. PostHsOnFailed(l) \subseteq Link
  BY <1>5 DEF PostHsOnFailed
<1>7. PreLpOff(l) \in Link
  BY LaneTypes DEF PreLpOff
<1>8. PreCoreOff(l) \in Link
  BY <1>1, LaneTypes DEF PreCoreOff
<1> QED BY <1>3, <1>4, <1>5, <1>6, <1>7, <1>8, LaneTypes

LEMMA LinkAfterType ==
    ASSUME TypeOK, NEW f PROVE LinkAfter(f) \subseteq Link
<1> DEFINE lp == IF f = "lp_cb" THEN PostLpOnFailed(link)
                 ELSE IF lp_clks' > lp_clks THEN {PostLpOn(link)} ELSE {link}
           hs == UNION {IF f = "hs_cb" THEN PostHsOnFailed(l)
                        ELSE IF hs_clks' > hs_clks THEN {PostHsOn(l)} ELSE {l}
                           : l \in lp}
           off == IF lp_clks' < lp_clks THEN {PreLpOff(l) : l \in hs} ELSE hs
<1>1. link \in Link
  BY DEF TypeOK
<1>2. lp \subseteq Link
  BY <1>1, CallbackTypes
<1> HIDE DEF lp
<1>3. hs \subseteq Link
  BY <1>2, CallbackTypes
<1> HIDE DEF hs
<1>4. off \subseteq Link
  BY <1>3, CallbackTypes
<1> HIDE DEF off
<1>5. LinkAfter(f) = IF core_clks' < core_clks
                     THEN {PostCoreOff(PreCoreOff(l)) : l \in off} ELSE off
  BY DEF LinkAfter, off, hs, lp
<1> QED BY <1>4, <1>5, CallbackTypes

LEMMA ClkStep == ClkInv /\ [Next]_vars => ClkInv'
<1>1. [Next]_vars => [ClkNext]_clkvars
  BY BridgeStep, ModeChangeStep, UsersStep DEF Next, vars
<1> QED BY <1>1, NextClkInv

LEMMA TypeStep == TypeOK /\ ClkInv /\ [Next]_vars => TypeOK'
<1> SUFFICES ASSUME TypeOK, ClkInv, [Next]_vars PROVE TypeOK'
  OBVIOUS
<1>1. ClkTypeOK'
  BY ClkStep DEF ClkInv
<1>2. config' = config
  BY DEF Next, Bridge, ModeChange, Users, vars, panelvars, PrepareCore, PrepareLink,
     PanelEnable, PanelRefuses,
         UnprepareLink, UnprepareCore, EncoderEnable, PostEnable, PreDisable, EncoderDisable,
         PanelDisable, SeamlessPreEnable, SwitchCore, SwitchLink, UpdateClkRate, EncoderIdle,
         EncoderWake, BacklightBegin, BacklightEnd, StatusBegin, StatusEnd, StatusTeFails,
         RecoveryBegin, RecoveryEnd
<1>3. link' \in Link
  <2>1. link \in Link /\ (\A f : LinkAfter(f) \subseteq Link)
    BY LinkAfterType DEF TypeOK
  <2>2. CASE UNCHANGED link
    BY <2>1, <2>2
  <2>3. CASE \E f : link' \in LinkAfter(f)
    BY <2>1, <2>3
  <2>4. CASE PrepareCore
    BY <2>1, <2>4, LaneTypes DEF PrepareCore
  <2>5. CASE PrepareLink
    BY <2>1, <2>5, LaneTypes DEF PrepareLink
  <2>6. CASE UnprepareLink
    BY <2>1, <2>6, LaneTypes DEF UnprepareLink
  <2>7. CASE UpdateClkRate
    <3>1. PreLpOff(link) \in Link
      BY <2>1, CallbackTypes
    <3>2. PostLpOn(PreLpOff(link)) \in Link
      BY <3>1, CallbackTypes
    <3>3. \A l \in {link, PreLpOff(link), PostLpOn(PreLpOff(link))} :
            PostLpOnFailed(l) \subseteq Link /\ PostHsOnFailed(l) \subseteq Link /\ PostHsOn(l) \in Link
      BY <2>1, <3>1, <3>2, CallbackTypes
    <3> QED BY <2>1, <2>7, <3>1, <3>2, <3>3 DEF UpdateClkRate
  <2> QED
    BY <2>2, <2>3, <2>4, <2>5, <2>6, <2>7
    DEF Next, Bridge, ModeChange, Users, vars, ClkCtrl, PanelEnable, PanelRefuses, UnprepareCore,
        EncoderEnable,
        PostEnable, PreDisable, EncoderDisable, PanelDisable, SeamlessPreEnable, SwitchCore,
        SwitchLink, EncoderIdle, EncoderWake, BacklightBegin, BacklightEnd, StatusBegin, StatusEnd,
        StatusTeFails, RecoveryBegin, RecoveryEnd
<1>4. disp' \in Place
  BY DEF TypeOK, Next, Bridge, ModeChange, Users, vars, Place, Go, PrepareCore,
     PrepareLink,
         PanelEnable, PanelRefuses, UnprepareLink, UnprepareCore, EncoderEnable, PostEnable, PreDisable,
         EncoderDisable, PanelDisable, SeamlessPreEnable, SwitchCore, SwitchLink, UpdateClkRate,
         EncoderIdle, EncoderWake, BacklightBegin, BacklightEnd, StatusBegin, StatusEnd,
         StatusTeFails, RecoveryBegin, RecoveryEnd
<1>5. {panel_initialized, esd_recovery_pending, clkrate_change_pending,
       host_ready, mdp_on, backlight, status, recovery, disturbed, vid_switched}' \subseteq BOOLEAN
  BY DsiAssumption
  DEF TypeOK, Next, Bridge, ModeChange, Users, vars, panelvars, uservars, Granted,
      Config, PrepareCore,
      PrepareLink, PanelEnable, PanelRefuses, UnprepareLink, UnprepareCore, EncoderEnable, PostEnable, PreDisable,
      EncoderDisable, PanelDisable, SeamlessPreEnable, SwitchCore, SwitchLink, UpdateClkRate,
      EncoderIdle, EncoderWake, BacklightBegin, BacklightEnd, StatusBegin, StatusEnd,
      StatusTeFails, RecoveryBegin, RecoveryEnd
<1> QED BY <1>1, <1>2, <1>3, <1>4, <1>5 DEF TypeOK

-----------------------------------------------------------------------------
(* The references of the display, until something fails.                   *)

Dsi(k) == refcount["dsi"][k]
Mdp(k) == refcount["mdp"][k]

\* References of the DSI client that the panel's users and the workers hold, and
\* those of the bridge.
Borrowed(k) == One(status) + One(recovery) + One(backlight /\ k = "core")
Own(k) == Dsi(k) - Borrowed(k)

\* Places at which the bridge holds as many references of both kinds, and those
\* at which it holds one more of the core.
Whole == {"off", "prepared", "refused", "pre_enabled", "encoder_on", "on",
          "switched", "pre_disabled", "encoder_off", "disabled"}
Half == {"core", "unwind", "switch", "switch_unlinked"}

\* The encoder holds one reference of each kind or none.  The bridge never gives
\* back a reference of a user; what it holds depends on its place and the panel:
\* a command panel that is on needs none, a video panel keeps them until it is
\* unprepared and has one pair more once it switched modes.
Accounts ==
    /\ \A k \in Kind : Mdp(k) = One(mdp_on) /\ Own(k) >= 0
    /\ disp \in Whole => Own("core") = Own("link")
    /\ disp \in Half => Own("core") = Own("link") + 1
    /\ disp = "unlinked" => \/ Own("core") = Own("link") + 1
                            \/ Own("core") = 0 /\ Own("link") = 0
    /\ disp \in {"prepared", "refused", "switched"} => Own("link") >= 1
    /\ Own("link") <= 1 + One(vid_switched)
    /\ disp \in {"off", "core", "unwind", "unlinked"} =>
         Own("link") <= One(vid_switched)
    /\ disp \in {"switch", "switch_unlinked"} => Own("link") <= 1
    /\ IF config.cmd THEN ~vid_switched
       ELSE disp \in {"switch", "switched", "switch_unlinked"} => vid_switched
    /\ ~vid_switched =>
         /\ disp \in {"pre_enabled", "encoder_on"} => Own("link") = One(host_ready)
         /\ ~config.cmd
            /\ disp \in {"on", "pre_disabled", "encoder_off", "disabled"} =>
              Own("link") = One(host_ready)
    /\ config.cmd =>
         /\ disp \in {"on", "switch", "switch_unlinked"} => Own("link") = 0
         /\ disp \in {"switched", "pre_disabled", "encoder_off", "disabled"} =>
              Own("link") = 1
    /\ ~config.cmd => Own("link") >= One(host_ready)
                                     + One(host_ready /\ disp = "switched")

\* Who may be active at each place of the bridge.
Places ==
    /\ disp \in {"off", "core", "prepared", "refused", "unwind", "pre_enabled",
                 "encoder_off", "disabled", "unlinked"} => ~mdp_on
    /\ disp \in {"switch", "switched", "switch_unlinked"} => mdp_on
    /\ disp \in {"off", "core", "prepared", "disabled", "unlinked"} =>
         ~panel_initialized
    /\ panel_initialized /\ ~host_ready => disturbed
    /\ backlight \/ status => panel_initialized
    /\ disp \in {"off", "core", "unwind", "unlinked", "switch_unlinked"} =>
         ~host_ready
    /\ disp \in {"core", "unwind", "unlinked", "switch"} => ~recovery
    /\ recovery => host_ready
    /\ disp \in {"prepared", "refused"} => host_ready
    /\ disp \in {"refused", "unwind"} => disturbed
    /\ status => Up \/ disp = "encoder_on"
    /\ disp = "core" => ~esd_recovery_pending
    /\ ~(backlight /\ status)

\* What a request that succeeds does to the references.
Given(c, kinds, s) ==
    \A d \in {"mdp", "dsi"}, k \in Kind :
        refcount'[d][k] = IF d = c /\ k \in kinds
                          THEN IF s = "ON" THEN refcount[d][k] + 1
                               ELSE IF refcount[d][k] = 0 THEN 0 ELSE refcount[d][k] - 1
                          ELSE refcount[d][k]

LEMMA Granting ==
    ASSUME TypeOK, NEW c \in {"mdp", "dsi"}, NEW kinds, NEW s \in State,
           NEW f \in Fault \cup {"none"}, Req(c, kinds, s, f), faults' = 0
    PROVE  f = "none" /\ faults = 0 /\ Granted /\ Given(c, kinds, s)
<1>1. /\ faults' = faults + One(f # "none") /\ faults \in Nat
      /\ rc' = IF f = "none" THEN "ok" ELSE "fail"
  BY DEF Req, ReqState, Return, TypeOK, ClkTypeOK
<1>2. f = "none" /\ faults = 0
  BY <1>1 DEF One
<1>3. refcount' = [refcount EXCEPT ![c] = NewRefs(c, kinds, s)]
  BY DEF Req, ReqState
<1>4. c \in Client /\ refcount \in [Client -> [Kind -> Nat]]
  BY DsiAssumption DEF TypeOK, ClkTypeOK
<1>5. \A k \in Kind : refcount'[c][k] = NewRefs(c, kinds, s)[k]
  BY <1>3, <1>4
<1>6. \A d \in {"mdp", "dsi"} \ {c} : refcount'[d] = refcount[d]
  BY <1>3, <1>4, DsiAssumption
<1> QED BY <1>1, <1>2, <1>5, <1>6 DEF Granted, Given, NewRefs, State

LEMMA RefTypes ==
    TypeOK => /\ Dsi("core") \in Nat /\ Dsi("link") \in Nat
              /\ Mdp("core") \in Nat /\ Mdp("link") \in Nat
              /\ faults \in Nat
BY DsiAssumption DEF TypeOK, ClkTypeOK, Dsi, Mdp, Kind

\* No failure is taken back.
LEMMA FaultsStay == TypeOK /\ [Next]_vars /\ faults' = 0 => faults = 0
<1> SUFFICES ASSUME TypeOK, [Next]_vars, faults' = 0 PROVE faults = 0
  OBVIOUS
<1>1. faults \in Nat /\ [ClkNext]_clkvars
  BY RefTypes, BridgeStep, ModeChangeStep, UsersStep DEF Next, vars
<1>2. ASSUME NEW b \in BOOLEAN, faults' = faults + One(b) PROVE faults = 0
  BY <1>1, <1>2 DEF One
<1> QED BY <1>1, <1>2, ZenonT(30) DEF ClkNext, ReqState, ForceUpdate, Return,
           clkvars

\* Where the display is, its users and its host engines go together.
LEMMA PlacesStep ==
    TypeOK /\ Places /\ [Next]_vars /\ faults' = 0 => Places'
<1> SUFFICES ASSUME TypeOK, Places, [Next]_vars, faults' = 0 PROVE Places'
  OBVIOUS
<1> USE DEF State, Places, Up, Go, PanelLockFree, DisplayLockFree, clkvars,
        panelvars, uservars,
           TypeOK
<1>1. CASE PrepareCore
  <2>1. Given("dsi", {"core"}, "ON") /\ Granted
    BY <1>1, Granting DEF PrepareCore, ClkCtrl
  <2> QED BY <1>1, <2>1 DEF PrepareCore
<1>2. CASE PrepareLink
  <2>1. Given("dsi", {"link"}, "ON") /\ Granted
    BY <1>2, Granting DEF PrepareLink, ClkCtrl
  <2> QED BY <1>2, <2>1 DEF PrepareLink
<1>3. CASE PanelEnable \/ PanelRefuses
  BY <1>3 DEF PanelEnable, PanelRefuses
<1>4. CASE UnprepareLink
  <2>1. Given("dsi", {"link"}, "OFF") /\ Granted
    BY <1>4, Granting DEF UnprepareLink, ClkCtrl
  <2> QED BY <1>4, <2>1 DEF UnprepareLink
<1>5. CASE UnprepareCore
  <2>1. Given("dsi", {"core"}, "OFF") /\ Granted
    BY <1>5, Granting DEF UnprepareCore, ClkCtrl
  <2> QED BY <1>5, <2>1 DEF UnprepareCore
<1>6. CASE EncoderEnable
  <2>1. Given("mdp", All, "ON") /\ Granted
    BY <1>6, Granting DEF EncoderEnable, ClkCtrl
  <2> QED BY <1>6, <2>1 DEF EncoderEnable
<1>7. CASE PostEnable
  <2>1. IF config.cmd THEN Given("dsi", All, "OFF") /\ Granted ELSE UNCHANGED refcount
    BY <1>7, Granting DEF PostEnable, ClkCtrl, clkvars
  <2> QED BY <1>7, <2>1 DEF PostEnable
<1>8. CASE PreDisable
  <2>1. IF config.cmd THEN Given("dsi", All, "ON") /\ Granted ELSE UNCHANGED refcount
    BY <1>8, Granting DEF PreDisable, ClkCtrl, clkvars
  <2> QED BY <1>8, <2>1 DEF PreDisable
<1>9. CASE EncoderDisable
  <2>1. IF mdp_on THEN Given("mdp", All, "OFF") /\ Granted ELSE UNCHANGED refcount
    BY <1>9, Granting DEF EncoderDisable, ClkCtrl, clkvars
  <2> QED BY <1>9, <2>1 DEF EncoderDisable
<1>10. CASE PanelDisable
  BY <1>10 DEF PanelDisable
<1>11. CASE SeamlessPreEnable
  BY <1>11 DEF SeamlessPreEnable
<1>12. CASE SwitchCore
  <2>1. Given("dsi", {"core"}, "ON") /\ Granted
    BY <1>12, Granting DEF SwitchCore, ClkCtrl
  <2> QED BY <1>12, <2>1 DEF SwitchCore
<1>13. CASE SwitchLink
  <2>1. Given("dsi", {"link"}, "ON") /\ Granted
    BY <1>13, Granting DEF SwitchLink, ClkCtrl
  <2> QED BY <1>13, <2>1 DEF SwitchLink
<1>14. CASE UpdateClkRate
  BY <1>14 DEF UpdateClkRate
<1>15. CASE EncoderIdle
  <2>1. Given("mdp", All, "OFF") /\ Granted
    BY <1>15, Granting DEF EncoderIdle, ClkCtrl
  <2> QED BY <1>15, <2>1 DEF EncoderIdle
<1>16. CASE EncoderWake
  <2>1. Given("mdp", All, "ON") /\ Granted
    BY <1>16, Granting DEF EncoderWake, ClkCtrl
  <2> QED BY <1>16, <2>1 DEF EncoderWake
<1>17. CASE BacklightBegin
  <2>1. Given("dsi", {"core"}, "ON") /\ Granted
    BY <1>17, Granting DEF BacklightBegin, ClkCtrl
  <2> QED BY <1>17, <2>1 DEF BacklightBegin
<1>18. CASE BacklightEnd
  <2>1. Given("dsi", {"core"}, "OFF") /\ Granted
    BY <1>18, Granting DEF BacklightEnd, ClkCtrl
  <2> QED BY <1>18, <2>1 DEF BacklightEnd
<1>19. CASE StatusBegin
  <2>1. Given("dsi", All, "ON") /\ Granted
    BY <1>19, Granting DEF StatusBegin, ClkCtrl
  <2> QED BY <1>19, <2>1 DEF StatusBegin
<1>20. CASE \E dead \in BOOLEAN : StatusEnd(dead)
  <2>1. Given("dsi", All, "OFF") /\ Granted
    BY <1>20, Granting DEF StatusEnd, ClkCtrl
  <2> QED BY <1>20, <2>1 DEF StatusEnd
<1>21. CASE StatusTeFails
  BY <1>21 DEF StatusTeFails
<1>22. CASE RecoveryBegin
  <2>1. Given("dsi", All, "ON") /\ Granted
    BY <1>22, Granting DEF RecoveryBegin, ClkCtrl
  <2> QED BY <1>22, <2>1 DEF RecoveryBegin
<1>23. CASE RecoveryEnd
  <2>1. Given("dsi", All, "OFF") /\ Granted
    BY <1>23, Granting DEF RecoveryEnd, ClkCtrl
  <2> QED BY <1>23, <2>1 DEF RecoveryEnd
<1>24. CASE UNCHANGED vars
  BY <1>24 DEF vars
<1> QED
  BY <1>1, <1>2, <1>3, <1>4, <1>5, <1>6, <1>7, <1>8, <1>9, <1>10, <1>11, <1>12,
     <1>13, <1>14, <1>15, <1>16, <1>17, <1>18, <1>19, <1>20, <1>21, <1>22, <1>23,
     <1>24
  DEF Next, Bridge, ModeChange, Users

\* A reference returned, if there is one.
Less(n) == IF n = 0 THEN 0 ELSE n - 1

LEMMA AccountsStep ==
    TypeOK /\ Accounts /\ Places /\ [Next]_vars /\ faults' = 0 => Accounts'
<1> SUFFICES ASSUME TypeOK, Accounts, Places, [Next]_vars, faults' = 0 PROVE Accounts'
  OBVIOUS
<1>0. /\ refcount["dsi"]["core"] \in Nat /\ refcount["dsi"]["link"] \in Nat
      /\ refcount["mdp"]["core"] \in Nat /\ refcount["mdp"]["link"] \in Nat
      /\ Own("core") \in Int /\ Own("link") \in Int
  BY RefTypes DEF Dsi, Mdp, Own, Borrowed, One
<1> USE <1>0 DEF State, Places, Up, Go, PanelLockFree, DisplayLockFree, clkvars,
        panelvars,
               uservars, TypeOK, Accounts, One, Less, Whole, Half, Kind
<1>1. CASE PrepareCore
  <2>1. Given("dsi", {"core"}, "ON") /\ Granted
    BY <1>1, Granting DEF PrepareCore, ClkCtrl
  <2>2. Own("core")' = Own("core") + 1 /\ Own("link")' = Own("link")
    BY <1>1, <2>1 DEF PrepareCore, Own, Borrowed, Given, Dsi, Mdp, All, ForceUpdate,
       Kind
  <2>3. \A k \in Kind : Mdp(k)' = One(mdp_on)'
    BY <1>1, <2>1 DEF PrepareCore, Own, Borrowed, Given, Dsi, Mdp, All, ForceUpdate,
       Kind
  <2> QED BY <1>1, <2>1, <2>2, <2>3 DEF PrepareCore
<1>2. CASE PrepareLink
  <2>1. Given("dsi", {"link"}, "ON") /\ Granted
    BY <1>2, Granting DEF PrepareLink, ClkCtrl
  <2>2. Own("core")' = Own("core") /\ Own("link")' = Own("link") + 1
    BY <1>2, <2>1 DEF PrepareLink, Own, Borrowed, Given, Dsi, Mdp, All, ForceUpdate,
       Kind
  <2>3. \A k \in Kind : Mdp(k)' = One(mdp_on)'
    BY <1>2, <2>1 DEF PrepareLink, Own, Borrowed, Given, Dsi, Mdp, All, ForceUpdate,
       Kind
  <2> QED BY <1>2, <2>1, <2>2, <2>3 DEF PrepareLink
<1>3. CASE PanelEnable \/ PanelRefuses
  BY <1>3 DEF PanelEnable, PanelRefuses, Own, Borrowed, Given, Dsi, Mdp, All, ForceUpdate, Kind
<1>4. CASE UnprepareLink
  <2>1. Given("dsi", {"link"}, "OFF") /\ Granted
    BY <1>4, Granting DEF UnprepareLink, ClkCtrl
  <2>2. Own("core")' = Own("core") /\ Own("link")' = Less(Own("link"))
    BY <1>4, <2>1 DEF UnprepareLink, Own, Borrowed, Given, Dsi, Mdp, All,
       ForceUpdate, Kind
  <2>3. \A k \in Kind : Mdp(k)' = One(mdp_on)'
    BY <1>4, <2>1 DEF UnprepareLink, Own, Borrowed, Given, Dsi, Mdp, All,
       ForceUpdate, Kind
  <2> QED BY <1>4, <2>1, <2>2, <2>3 DEF UnprepareLink
<1>5. CASE UnprepareCore
  <2>1. Given("dsi", {"core"}, "OFF") /\ Granted
    BY <1>5, Granting DEF UnprepareCore, ClkCtrl
  <2>2. Own("core")' = Less(Own("core")) /\ Own("link")' = Own("link")
    <3>1. refcount'["dsi"]["core"] = Less(refcount["dsi"]["core"])
          /\ refcount'["dsi"]["link"] = refcount["dsi"]["link"]
      BY <2>1 DEF Given, Kind
    <3>2. CASE disp = "unlinked"
      <4>1. Borrowed("core") = 0 /\ Borrowed("link") = 0
            /\ Borrowed("core")' = 0 /\ Borrowed("link")' = 0
        BY <1>5, <3>2 DEF UnprepareCore, Borrowed
      <4> QED BY <3>1, <4>1 DEF Own, Dsi
    <3>3. CASE disp # "unlinked"
      <4>1. Own("core") >= 1 /\ UNCHANGED <<Borrowed("core"), Borrowed("link")>>
            /\ Borrowed("core") \in Nat
        BY <1>5, <3>3 DEF UnprepareCore, Borrowed
      <4> QED BY <3>1, <4>1 DEF Own, Dsi
    <3> QED BY <3>2, <3>3
  <2>3. \A k \in Kind : Mdp(k)' = One(mdp_on)'
    BY <1>5, <2>1 DEF UnprepareCore, Own, Borrowed, Given, Dsi, Mdp, All,
       ForceUpdate, Kind
  <2> QED BY <1>5, <2>1, <2>2, <2>3 DEF UnprepareCore
<1>6. CASE EncoderEnable
  <2>1. Given("mdp", All, "ON") /\ Granted
    BY <1>6, Granting DEF EncoderEnable, ClkCtrl
  <2>2. Own("core")' = Own("core") /\ Own("link")' = Own("link")
    BY <1>6, <2>1 DEF EncoderEnable, Own, Borrowed, Given, Dsi, Mdp, All,
       ForceUpdate, Kind
  <2>3. \A k \in Kind : Mdp(k)' = One(mdp_on)'
    BY <1>6, <2>1 DEF EncoderEnable, Own, Borrowed, Given, Dsi, Mdp, All,
       ForceUpdate, Kind
  <2> QED BY <1>6, <2>1, <2>2, <2>3 DEF EncoderEnable
<1>7. CASE PostEnable
  <2>1. IF config.cmd THEN Given("dsi", All, "OFF") /\ Granted ELSE UNCHANGED refcount
    BY <1>7, Granting DEF PostEnable, ClkCtrl, clkvars
  <2>2. IF config.cmd
        THEN Own("core")' = Less(Own("core")) /\ Own("link")' = Less(Own("link"))
        ELSE UNCHANGED <<Own("core"), Own("link")>>
    <3>1. /\ Borrowed("core") = 0 /\ Borrowed("link") = 0
          /\ Borrowed("core")' = 0 /\ Borrowed("link")' = 0
      BY <1>7 DEF PostEnable, Borrowed
    <3>2. IF config.cmd
          THEN /\ refcount'["dsi"]["core"] = Less(refcount["dsi"]["core"])
               /\ refcount'["dsi"]["link"] = Less(refcount["dsi"]["link"])
          ELSE UNCHANGED refcount
      BY <2>1 DEF Given, All, Kind
    <3> QED BY <3>1, <3>2 DEF Own, Dsi
  <2>3. \A k \in Kind : Mdp(k)' = One(mdp_on)'
    BY <1>7, <2>1 DEF PostEnable, Own, Borrowed, Given, Dsi, Mdp, All, ForceUpdate,
       Kind
  <2> QED BY <1>7, <2>1, <2>2, <2>3 DEF PostEnable
<1>8. CASE PreDisable
  <2>1. IF config.cmd THEN Given("dsi", All, "ON") /\ Granted ELSE UNCHANGED refcount
    BY <1>8, Granting DEF PreDisable, ClkCtrl, clkvars
  <2>2. IF config.cmd
        THEN Own("core")' = Own("core") + 1 /\ Own("link")' = Own("link") + 1
        ELSE UNCHANGED <<Own("core"), Own("link")>>
    BY <1>8, <2>1 DEF PreDisable, Own, Borrowed, Given, Dsi, Mdp, All, ForceUpdate,
       Kind
  <2>3. \A k \in Kind : Mdp(k)' = One(mdp_on)'
    BY <1>8, <2>1 DEF PreDisable, Own, Borrowed, Given, Dsi, Mdp, All, ForceUpdate,
       Kind
  <2> QED BY <1>8, <2>1, <2>2, <2>3 DEF PreDisable
<1>9. CASE EncoderDisable
  <2>1. IF mdp_on THEN Given("mdp", All, "OFF") /\ Granted ELSE UNCHANGED refcount
    BY <1>9, Granting DEF EncoderDisable, ClkCtrl, clkvars
  <2>2. Own("core")' = Own("core") /\ Own("link")' = Own("link")
    BY <1>9, <2>1 DEF EncoderDisable, Own, Borrowed, Given, Dsi, Mdp, All,
       ForceUpdate, Kind
  <2>3. \A k \in Kind : Mdp(k)' = One(mdp_on)'
    BY <1>9, <2>1 DEF EncoderDisable, Own, Borrowed, Given, Dsi, Mdp, All,
       ForceUpdate, Kind
  <2> QED BY <1>9, <2>1, <2>2, <2>3 DEF EncoderDisable
<1>10. CASE PanelDisable
  BY <1>10 DEF PanelDisable, Own, Borrowed, Given, Dsi, Mdp, All, ForceUpdate, Kind
<1>11. CASE SeamlessPreEnable
  BY <1>11 DEF SeamlessPreEnable, Own, Borrowed, Given, Dsi, Mdp, All, ForceUpdate,
     Kind
<1>12. CASE SwitchCore
  <2>1. Given("dsi", {"core"}, "ON") /\ Granted
    BY <1>12, Granting DEF SwitchCore, ClkCtrl
  <2>2. Own("core")' = Own("core") + 1 /\ Own("link")' = Own("link")
    BY <1>12, <2>1 DEF SwitchCore, Own, Borrowed, Given, Dsi, Mdp, All, ForceUpdate,
       Kind
  <2>3. \A k \in Kind : Mdp(k)' = One(mdp_on)'
    BY <1>12, <2>1 DEF SwitchCore, Own, Borrowed, Given, Dsi, Mdp, All, ForceUpdate,
       Kind
  <2>4. config.cmd \in BOOLEAN
    BY DsiAssumption DEF Config
  <2>5. ~vid_switched' <=> config.cmd
    BY <1>12, <2>4 DEF SwitchCore
  <2> QED BY <1>12, <2>1, <2>2, <2>3, <2>4, <2>5 DEF SwitchCore
<1>13. CASE SwitchLink
  <2>1. Given("dsi", {"link"}, "ON") /\ Granted
    BY <1>13, Granting DEF SwitchLink, ClkCtrl
  <2>2. Own("core")' = Own("core") /\ Own("link")' = Own("link") + 1
    BY <1>13, <2>1 DEF SwitchLink, Own, Borrowed, Given, Dsi, Mdp, All, ForceUpdate,
       Kind
  <2>3. \A k \in Kind : Mdp(k)' = One(mdp_on)'
    BY <1>13, <2>1 DEF SwitchLink, Own, Borrowed, Given, Dsi, Mdp, All, ForceUpdate,
       Kind
  <2> QED BY <1>13, <2>1, <2>2, <2>3 DEF SwitchLink
<1>14. CASE UpdateClkRate
  BY <1>14 DEF UpdateClkRate, Own, Borrowed, Given, Dsi, Mdp, All, ForceUpdate, Kind
<1>15. CASE EncoderIdle
  <2>1. Given("mdp", All, "OFF") /\ Granted
    BY <1>15, Granting DEF EncoderIdle, ClkCtrl
  <2>2. Own("core")' = Own("core") /\ Own("link")' = Own("link")
    BY <1>15, <2>1 DEF EncoderIdle, Own, Borrowed, Given, Dsi, Mdp, All,
       ForceUpdate, Kind
  <2>3. \A k \in Kind : Mdp(k)' = One(mdp_on)'
    BY <1>15, <2>1 DEF EncoderIdle, Own, Borrowed, Given, Dsi, Mdp, All,
       ForceUpdate, Kind
  <2> QED BY <1>15, <2>1, <2>2, <2>3 DEF EncoderIdle
<1>16. CASE EncoderWake
  <2>1. Given("mdp", All, "ON") /\ Granted
    BY <1>16, Granting DEF EncoderWake, ClkCtrl
  <2>2. Own("core")' = Own("core") /\ Own("link")' = Own("link")
    BY <1>16, <2>1 DEF EncoderWake, Own, Borrowed, Given, Dsi, Mdp, All,
       ForceUpdate, Kind
  <2>3. \A k \in Kind : Mdp(k)' = One(mdp_on)'
    BY <1>16, <2>1 DEF EncoderWake, Own, Borrowed, Given, Dsi, Mdp, All,
       ForceUpdate, Kind
  <2> QED BY <1>16, <2>1, <2>2, <2>3 DEF EncoderWake
<1>17. CASE BacklightBegin
  <2>1. Given("dsi", {"core"}, "ON") /\ Granted
    BY <1>17, Granting DEF BacklightBegin, ClkCtrl
  <2>2. Own("core")' = Own("core") /\ Own("link")' = Own("link")
    BY <1>17, <2>1 DEF BacklightBegin, Own, Borrowed, Given, Dsi, Mdp, All,
       ForceUpdate, Kind
  <2>3. \A k \in Kind : Mdp(k)' = One(mdp_on)'
    BY <1>17, <2>1 DEF BacklightBegin, Own, Borrowed, Given, Dsi, Mdp, All,
       ForceUpdate, Kind
  <2> QED BY <1>17, <2>1, <2>2, <2>3 DEF BacklightBegin
<1>18. CASE BacklightEnd
  <2>1. Given("dsi", {"core"}, "OFF") /\ Granted
    BY <1>18, Granting DEF BacklightEnd, ClkCtrl
  <2>2. Own("core")' = Own("core") /\ Own("link")' = Own("link")
    BY <1>18, <2>1 DEF BacklightEnd, Own, Borrowed, Given, Dsi, Mdp, All,
       ForceUpdate, Kind
  <2>3. \A k \in Kind : Mdp(k)' = One(mdp_on)'
    BY <1>18, <2>1 DEF BacklightEnd, Own, Borrowed, Given, Dsi, Mdp, All,
       ForceUpdate, Kind
  <2> QED BY <1>18, <2>1, <2>2, <2>3 DEF BacklightEnd
<1>19. CASE StatusBegin
  <2>1. Given("dsi", All, "ON") /\ Granted
    BY <1>19, Granting DEF StatusBegin, ClkCtrl
  <2>2. Own("core")' = Own("core") /\ Own("link")' = Own("link")
    BY <1>19, <2>1 DEF StatusBegin, Own, Borrowed, Given, Dsi, Mdp, All,
       ForceUpdate, Kind
  <2>3. \A k \in Kind : Mdp(k)' = One(mdp_on)'
    BY <1>19, <2>1 DEF StatusBegin, Own, Borrowed, Given, Dsi, Mdp, All,
       ForceUpdate, Kind
  <2> QED BY <1>19, <2>1, <2>2, <2>3 DEF StatusBegin
<1>20. CASE \E dead \in BOOLEAN : StatusEnd(dead)
  <2>1. Given("dsi", All, "OFF") /\ Granted
    BY <1>20, Granting DEF StatusEnd, ClkCtrl
  <2>2. Own("core")' = Own("core") /\ Own("link")' = Own("link")
    BY <1>20, <2>1 DEF StatusEnd, Own, Borrowed, Given, Dsi, Mdp, All, ForceUpdate,
       Kind
  <2>3. \A k \in Kind : Mdp(k)' = One(mdp_on)'
    BY <1>20, <2>1 DEF StatusEnd, Own, Borrowed, Given, Dsi, Mdp, All, ForceUpdate,
       Kind
  <2> QED BY <1>20, <2>1, <2>2, <2>3 DEF StatusEnd
<1>21. CASE StatusTeFails
  BY <1>21 DEF StatusTeFails, Own, Borrowed, Given, Dsi, Mdp, All, ForceUpdate, Kind
<1>22. CASE RecoveryBegin
  <2>1. Given("dsi", All, "ON") /\ Granted
    BY <1>22, Granting DEF RecoveryBegin, ClkCtrl
  <2>2. Own("core")' = Own("core") /\ Own("link")' = Own("link")
    BY <1>22, <2>1 DEF RecoveryBegin, Own, Borrowed, Given, Dsi, Mdp, All,
       ForceUpdate, Kind
  <2>3. \A k \in Kind : Mdp(k)' = One(mdp_on)'
    BY <1>22, <2>1 DEF RecoveryBegin, Own, Borrowed, Given, Dsi, Mdp, All,
       ForceUpdate, Kind
  <2> QED BY <1>22, <2>1, <2>2, <2>3 DEF RecoveryBegin
<1>23. CASE RecoveryEnd
  <2>1. Given("dsi", All, "OFF") /\ Granted
    BY <1>23, Granting DEF RecoveryEnd, ClkCtrl
  <2>2. Own("core")' = Own("core") /\ Own("link")' = Own("link")
    BY <1>23, <2>1 DEF RecoveryEnd, Own, Borrowed, Given, Dsi, Mdp, All,
       ForceUpdate, Kind
  <2>3. \A k \in Kind : Mdp(k)' = One(mdp_on)'
    BY <1>23, <2>1 DEF RecoveryEnd, Own, Borrowed, Given, Dsi, Mdp, All,
       ForceUpdate, Kind
  <2> QED BY <1>23, <2>1, <2>2, <2>3 DEF RecoveryEnd
<1>24. CASE UNCHANGED vars
  BY <1>24 DEF vars, Own, Borrowed, Given, Dsi, Mdp, All, ForceUpdate, Kind
<1> QED
  BY <1>1, <1>2, <1>3, <1>4, <1>5, <1>6, <1>7, <1>8, <1>9, <1>10, <1>11, <1>12,
     <1>13, <1>14, <1>15, <1>16, <1>17, <1>18, <1>19, <1>20, <1>21, <1>22, <1>23,
     <1>24
  DEF Next, Bridge, ModeChange, Users

-----------------------------------------------------------------------------
(* The lanes under the clocks, until something fails.                      *)

\* Lanes l under clocks clk: with the link on they are out of ULPS and not
\* clamped; ULPS without a clamp needs the controller alive to hold it; whoever
\* entered ULPS or set the clamp can undo it, except that a video panel that
\* refused its PPS stays clamped once it is disabled; a panel that is on and has
\* no core clocks is parked.
Lane(l, clk) ==
    /\ clk["link"] = "ON" => clk["core"] = "ON" /\ ~l.clamp_enabled /\ ~l.ulps_enabled
    /\ l.ulps_enabled => config.ulps \/ config.suspend
    /\ l.ulps_enabled /\ ~l.clamp_enabled => panel_initialized \/ config.suspend
    /\ l.ulps_enabled /\ ~l.clamp_enabled =>
         ~esd_recovery_pending /\ clk["core"] = "ON"
    /\ l.clamp_enabled => \/ config.suspend \/ panel_initialized
                          \/ ~config.cmd /\ disturbed
    /\ ~l.ulps_enabled \/ l.clamp_enabled => l.ctrl = "stop"
    /\ l.ulps_enabled /\ ~l.clamp_enabled => l.ctrl = "ulps"
    /\ panel_initialized /\ clk["core"] = "OFF" =>
         l.clamp_enabled /\ (config.phy_off => ~l.phy_on)

\* The driver's flag is what an undisturbed panel sees, and its lanes are in
\* ULPS whenever it can do that and the link is off.
Truth(l, clk) ==
    ~disturbed =>
        /\ ~esd_recovery_pending
        /\ l.pads = IF l.ulps_enabled THEN "ulps" ELSE "stop"
        /\ panel_initialized /\ config.ulps /\ clk["link"] = "OFF" => l.ulps_enabled

\* The PHY is on, or the next link-on turns it on.
Phy(l, clk) ==
    l.phy_on \/ (clk["link"] = "OFF" /\ (l.clamp_enabled \/ l.phy_idle_power_off))

Lanes ==
    /\ Lane(link, clk_state) /\ Truth(link, clk_state)
    /\ disp = "core" \/ (~disturbed /\ disp \notin {"off", "unlinked"}) =>
         Phy(link, clk_state)

LinkUp(l) == PostHsOn(PostLpOn(l))
CoreDown(l) == PostCoreOff(PreCoreOff(l))

\* SetUlps field by field.
LEMMA UlpsFields ==
    ASSUME TypeOK, NEW l \in Link, NEW e \in BOOLEAN
    PROVE  /\ SetUlps(l, e).clamp_enabled = l.clamp_enabled
           /\ SetUlps(l, e).phy_on = l.phy_on
           /\ SetUlps(l, e).phy_idle_power_off = l.phy_idle_power_off
           /\ UlpsReqValid(l, e) =>
                /\ SetUlps(l, e).ulps_enabled = e
                /\ SetUlps(l, e).ctrl = IF e THEN "ulps" ELSE "stop"
                /\ SetUlps(l, e).pads = IF l.clamp_enabled THEN l.pads
                                        ELSE IF e THEN "ulps" ELSE "stop"
           /\ ~UlpsReqValid(l, e) => SetUlps(l, e) = l
BY DEF SetUlps, Driven, Link

\* The callbacks after the link clocks bring the lanes out of ULPS and out of the
\* clamp, with nothing seen by an undisturbed panel.
LEMMA UpFields ==
    ASSUME TypeOK, NEW l \in Link, NEW clk, Lane(l, clk), clk["link"] = "OFF"
    PROVE  /\ ~LinkUp(l).ulps_enabled /\ ~LinkUp(l).clamp_enabled
           /\ LinkUp(l).ctrl = "stop"
           /\ Truth(l, clk) /\ ~disturbed => LinkUp(l).pads = "stop"
           /\ Phy(l, clk) => LinkUp(l).phy_on
<1> DEFINE on == PhyIdleOn(l)
           m == LpOnReenter(l)
           u == Unclamp(m)
<1> USE DEF Link
<1>1. on \in Link /\ m \in Link /\ u \in Link
  <2>1. on \in Link
    BY LaneTypes
  <2> HIDE DEF on
  <2>2. [on EXCEPT !.ulps_enabled = FALSE] \in Link
    BY <2>1
  <2>3. SetUlps([on EXCEPT !.ulps_enabled = FALSE], TRUE) \in Link
    <3> DEFINE n == [on EXCEPT !.ulps_enabled = FALSE]
    <3> HIDE DEF n
    <3>1. n \in Link BY <2>2 DEF n
    <3> QED BY <3>1, LaneTypes, ZenonT(30) DEF n
  <2>4. m = IF l.ulps_enabled /\ l.clamp_enabled
            THEN SetUlps([on EXCEPT !.ulps_enabled = FALSE], TRUE) ELSE on
    BY DEF LpOnReenter, on
  <2> HIDE DEF m
  <2>5. m \in Link
    BY <2>1, <2>3, <2>4
  <2> QED BY <2>1, <2>5, LaneTypes, ZenonT(30)
<1>2. /\ on.ulps_enabled = l.ulps_enabled /\ on.clamp_enabled = l.clamp_enabled
      /\ on.ctrl = l.ctrl /\ on.pads = l.pads
      /\ l.phy_on \/ l.clamp_enabled \/ l.phy_idle_power_off => on.phy_on
  BY DEF PhyIdleOn
<1>3. /\ m.clamp_enabled = l.clamp_enabled
      /\ m.phy_on = on.phy_on /\ m.pads = l.pads
      /\ ~l.clamp_enabled => m.ulps_enabled = l.ulps_enabled /\ m.ctrl = l.ctrl
      /\ l.clamp_enabled =>
           /\ m.ulps_enabled <=> /\ l.ulps_enabled /\ ~esd_recovery_pending
                                 /\ panel_initialized \/ config.suspend
           /\ m.ctrl = IF m.ulps_enabled THEN "ulps" ELSE "stop"
  <2> DEFINE n == [on EXCEPT !.ulps_enabled = FALSE]
  <2>1. CASE l.ulps_enabled /\ l.clamp_enabled
    <3>1. n \in Link /\ ~n.ulps_enabled /\ n.clamp_enabled /\ n.ctrl = l.ctrl
          /\ n.pads = l.pads /\ n.phy_on = on.phy_on
      BY <1>1, <1>2, <2>1
    <3>2. m = SetUlps(n, TRUE)
      BY <2>1 DEF LpOnReenter
    <3>3. UlpsReqValid(n, TRUE) <=> /\ ~esd_recovery_pending
                                    /\ panel_initialized \/ config.suspend
      BY <2>1, <3>1 DEF UlpsReqValid, Lane
    <3>4. l.ctrl = "stop"
      BY <2>1 DEF Lane
    <3> HIDE DEF n, m, on
    <3>5. /\ m.clamp_enabled = n.clamp_enabled /\ m.phy_on = n.phy_on
          /\ UlpsReqValid(n, TRUE) => /\ m.ulps_enabled /\ m.ctrl = "ulps"
                                      /\ m.pads = n.pads
          /\ ~UlpsReqValid(n, TRUE) => m = n
      BY <3>1, <3>2, UlpsFields
    <3> QED BY <2>1, <3>1, <3>3, <3>4, <3>5
  <2>2. CASE ~(l.ulps_enabled /\ l.clamp_enabled)
    BY <1>2, <2>2 DEF LpOnReenter, Lane
  <2> QED BY <2>1, <2>2
<1>4. /\ ~u.clamp_enabled /\ u.phy_on = m.phy_on
      /\ u.ulps_enabled = m.ulps_enabled /\ u.ctrl = m.ctrl
      /\ u.pads = IF m.clamp_enabled THEN Seen(m, m.ctrl) ELSE m.pads
  BY <1>1 DEF Unclamp
<1>5. LinkUp(l) = SetUlps(u, FALSE)
  BY DEF LinkUp, PostHsOn, PostLpOn
<1> HIDE DEF u, m, on
<1>6. u.ulps_enabled => UlpsReqValid(u, FALSE)
  BY <1>1, <1>3, <1>4 DEF UlpsReqValid, Lane
<1>7. ~u.ulps_enabled => ~UlpsReqValid(u, FALSE) /\ u.ctrl = "stop"
  BY <1>1, <1>3, <1>4 DEF UlpsReqValid, Lane
<1>8. Truth(l, clk) /\ ~disturbed /\ ~u.ulps_enabled => u.pads = "stop"
  BY <1>1, <1>3, <1>4 DEF Truth, Seen, Lane
<1>9. /\ ~SetUlps(u, FALSE).ulps_enabled /\ ~SetUlps(u, FALSE).clamp_enabled
      /\ SetUlps(u, FALSE).ctrl = "stop" /\ SetUlps(u, FALSE).phy_on = u.phy_on
      /\ Truth(l, clk) /\ ~disturbed => SetUlps(u, FALSE).pads = "stop"
  <2>1. CASE u.ulps_enabled
    <3> DEFINE w == SetUlps(u, FALSE)
    <3>1. /\ w.clamp_enabled = u.clamp_enabled /\ w.phy_on = u.phy_on
          /\ w.ulps_enabled = FALSE /\ w.ctrl = "stop"
          /\ w.pads = IF u.clamp_enabled THEN u.pads ELSE "stop"
      BY <1>1, <1>6, <2>1, UlpsFields, ZenonT(30)
    <3> HIDE DEF w
    <3>2. ~w.clamp_enabled /\ ~w.ulps_enabled /\ w.pads = "stop"
      BY <1>4, <3>1
    <3> QED BY <3>1, <3>2 DEF w
  <2>2. CASE ~u.ulps_enabled
    <3>1. SetUlps(u, FALSE) = u
      BY <1>1, <1>7, <2>2, UlpsFields
    <3> QED BY <1>4, <1>7, <1>8, <2>2, <3>1
  <2> QED BY <2>1, <2>2
<1> QED BY <1>2, <1>3, <1>4, <1>5, <1>9 DEF Phy

\* The callback before the link clocks parks the lanes in ULPS if it may.
LEMMA DownFields ==
    ASSUME TypeOK, NEW l \in Link, ~l.ulps_enabled, ~l.clamp_enabled,
           l.ctrl = "stop"
    PROVE  /\ PreLpOff(l).ulps_enabled <=>
                /\ ~esd_recovery_pending
                /\ IF panel_initialized THEN config.ulps ELSE config.suspend
           /\ ~PreLpOff(l).clamp_enabled
           /\ PreLpOff(l).ctrl = IF PreLpOff(l).ulps_enabled THEN "ulps" ELSE "stop"
           /\ PreLpOff(l).pads = IF PreLpOff(l).ulps_enabled THEN "ulps" ELSE l.pads
           /\ PreLpOff(l).phy_on = l.phy_on
           /\ PreLpOff(l).phy_idle_power_off = l.phy_idle_power_off
<1>1. UlpsReqValid(l, TRUE) <=> /\ ~esd_recovery_pending
                                /\ config.ulps \/ config.suspend
                                /\ panel_initialized \/ config.suspend
  BY DEF UlpsReqValid, Link
<1> QED BY <1>1, UlpsFields DEF PreLpOff

\* The callbacks around the end of the core clocks clamp the lanes in the state
\* the driver remembers, or leave them to the controller, which stops.
LEMMA CoreDownFields ==
    ASSUME TypeOK, NEW l \in Link
    PROVE  /\ CoreDown(l).ctrl = "stop"
           /\ CoreDown(l).ulps_enabled = l.ulps_enabled
           /\ panel_initialized \/ config.suspend =>
                /\ CoreDown(l).clamp_enabled
                /\ CoreDown(l).pads = Seen(l, IF l.ulps_enabled THEN "ulps" ELSE "stop")
                /\ config.phy_off => ~CoreDown(l).phy_on
           /\ ~(panel_initialized \/ config.suspend) =>
                /\ CoreDown(l).clamp_enabled = l.clamp_enabled
                /\ CoreDown(l).phy_on = l.phy_on
                /\ CoreDown(l).phy_idle_power_off = l.phy_idle_power_off
                /\ CoreDown(l).pads = IF l.clamp_enabled THEN l.pads ELSE "stop"
<1> USE DEF Link
<1>1. CASE panel_initialized \/ config.suspend
  <2> DEFINE off == PhyIdleOff(l)
             m == Clamp(off)
  <2>1. /\ off \in Link /\ off.ulps_enabled = l.ulps_enabled /\ off.pads = l.pads
        /\ config.phy_off => ~off.phy_on
    <3>1. off \in Link
      BY LaneTypes
    <3> QED BY <3>1 DEF PhyIdleOff
  <2>2. /\ m \in Link /\ m.clamp_enabled /\ m.ulps_enabled = off.ulps_enabled
        /\ m.pads = Seen(off, IF off.ulps_enabled THEN "ulps" ELSE "stop")
        /\ m.phy_on = off.phy_on
    <3> HIDE DEF off
    <3>1. m \in Link
      BY <2>1, LaneTypes
    <3> QED BY <2>1, <3>1 DEF Clamp
  <2>3. CoreDown(l) = Driven(m, "stop")
    BY <1>1 DEF CoreDown, PreCoreOff, PostCoreOff
  <2> HIDE DEF off, m
  <2> QED BY <1>1, <2>1, <2>2, <2>3 DEF Driven, Seen
<1>2. CASE ~(panel_initialized \/ config.suspend)
  <2>1. CoreDown(l) = Driven(l, "stop")
    BY <1>2, UlpsFields DEF CoreDown, PreCoreOff, PostCoreOff, UlpsReqValid
  <2> QED BY <1>2, <2>1 DEF Driven
<1> QED BY <1>1, <1>2

\* What a request without failure does to lanes l when it takes the clocks from
\* clk to new.
Moved(l, clk, new) ==
    LET mid == IF clk["link"] = "OFF" /\ new["link"] = "ON" THEN LinkUp(l)
               ELSE IF clk["link"] = "ON" /\ new["link"] = "OFF" THEN PreLpOff(l)
               ELSE l
    IN  IF clk["core"] = "ON" /\ new["core"] = "OFF" THEN CoreDown(mid) ELSE mid

Nested(clk) == clk["link"] = "ON" => clk["core"] = "ON"

\* Whatever the clocks do, the callbacks keep the lanes true to them.
LEMMA MovedLanes ==
    ASSUME TypeOK, NEW l \in Link, NEW clk \in [Kind -> State],
           NEW new \in [Kind -> State], Nested(new), Lane(l, clk)
    PROVE  /\ Moved(l, clk, new) \in Link
           /\ Lane(Moved(l, clk, new), new)
           /\ Truth(l, clk) => Truth(Moved(l, clk, new), new)
           /\ Phy(l, clk) => Phy(Moved(l, clk, new), new)
<1> DEFINE m == Moved(l, clk, new)
           Good(x) == /\ x \in Link /\ Lane(x, new)
                      /\ Truth(l, clk) => Truth(x, new)
                      /\ Phy(l, clk) => Phy(x, new)
<1>0. /\ \A k \in Kind : clk[k] \in {"ON", "OFF"} /\ new[k] \in {"ON", "OFF"}
      /\ clk["core"] \in {"ON", "OFF"} /\ clk["link"] \in {"ON", "OFF"}
      /\ new["core"] \in {"ON", "OFF"} /\ new["link"] \in {"ON", "OFF"}
  BY DEF Kind, State
<1>1. CASE clk["link"] = "OFF" /\ new["link"] = "ON"
  <2>1. new["core"] = "ON" /\ m = LinkUp(l)
    BY <1>1 DEF Moved, Nested
  <2>2. LinkUp(l) \in Link
    <3>1. PostLpOn(l) \in Link
      BY CallbackTypes
    <3> QED BY <3>1, CallbackTypes DEF LinkUp
  <2> HIDE DEF m
  <2>3. Lane(m, new)
    BY <1>1, <2>1, <2>2, UpFields DEF Lane
  <2>4. Truth(l, clk) => Truth(m, new)
    BY <1>1, <2>1, UpFields DEF Truth
  <2>5. Phy(l, clk) => Phy(m, new)
    BY <1>1, <2>1, UpFields DEF Phy
  <2> QED BY <2>1, <2>2, <2>3, <2>4, <2>5 DEF m
<1>2. CASE clk["link"] = "ON" /\ new["link"] = "OFF"
  <2> DEFINE d == PreLpOff(l)
  <2>1. d \in Link /\ ~l.ulps_enabled /\ ~l.clamp_enabled /\ l.ctrl = "stop"
        /\ clk["core"] = "ON"
    BY <1>2, CallbackTypes DEF Lane
  <2>2. /\ d.ulps_enabled <=> /\ ~esd_recovery_pending
                              /\ IF panel_initialized THEN config.ulps
                                 ELSE config.suspend
        /\ ~d.clamp_enabled
        /\ d.ctrl = IF d.ulps_enabled THEN "ulps" ELSE "stop"
        /\ d.pads = IF d.ulps_enabled THEN "ulps" ELSE l.pads
        /\ d.phy_on = l.phy_on
    BY <2>1, DownFields
  <2>3. m = IF new["core"] = "OFF" THEN CoreDown(d) ELSE d
    BY <1>2, <2>1 DEF Moved
  <2> HIDE DEF d, m
  <2>4. CASE new["core"] = "ON"
    <3>1. m = d
      BY <2>3, <2>4
    <3>2. Lane(m, new)
      BY <1>2, <2>2, <2>4, <3>1 DEF Lane
    <3>3. Truth(l, clk) => Truth(m, new)
      BY <1>2, <2>1, <2>2, <2>4, <3>1 DEF Truth
    <3>4. Phy(l, clk) => Phy(m, new)
      BY <1>2, <2>1, <2>2, <3>1 DEF Phy
    <3> QED BY <2>1, <3>1, <3>2, <3>3, <3>4 DEF m
  <2>5. CASE new["core"] = "OFF"
    <3> DEFINE w == CoreDown(d)
    <3>1. /\ w \in Link
          /\ w.ctrl = "stop" /\ w.ulps_enabled = d.ulps_enabled
          /\ panel_initialized \/ config.suspend =>
               /\ w.clamp_enabled
               /\ w.pads = Seen(d, IF d.ulps_enabled THEN "ulps" ELSE "stop")
               /\ config.phy_off => ~w.phy_on
          /\ ~(panel_initialized \/ config.suspend) =>
               /\ w.clamp_enabled = d.clamp_enabled
               /\ w.phy_on = d.phy_on
               /\ w.pads = IF d.clamp_enabled THEN d.pads ELSE "stop"
      BY <2>1, <2>2, CoreDownFields, CallbackTypes DEF CoreDown
    <3>2. m = w
      BY <2>3, <2>5
    <3> HIDE DEF w
    <3>3. Lane(m, new)
      BY <1>2, <2>2, <2>5, <3>1, <3>2 DEF Lane
    <3>4. Truth(l, clk) => Truth(m, new)
      BY <1>2, <2>1, <2>2, <2>5, <3>1, <3>2 DEF Truth, Seen
    <3>5. Phy(l, clk) => Phy(m, new)
      BY <1>2, <2>1, <2>2, <2>5, <3>1, <3>2 DEF Phy
    <3> QED BY <3>1, <3>2, <3>3, <3>4, <3>5 DEF m
  <2> QED BY <1>0, <2>4, <2>5 DEF m
<1>3. CASE clk["link"] = new["link"]
  <2>1. CASE clk["core"] = "ON" /\ new["core"] = "OFF"
    <3> DEFINE w == CoreDown(l)
    <3>1. /\ w \in Link
          /\ w.ctrl = "stop" /\ w.ulps_enabled = l.ulps_enabled
          /\ panel_initialized \/ config.suspend =>
               /\ w.clamp_enabled
               /\ w.pads = Seen(l, IF l.ulps_enabled THEN "ulps" ELSE "stop")
               /\ config.phy_off => ~w.phy_on
          /\ ~(panel_initialized \/ config.suspend) =>
               /\ w.clamp_enabled = l.clamp_enabled
               /\ w.phy_on = l.phy_on
               /\ w.phy_idle_power_off = l.phy_idle_power_off
               /\ w.pads = IF l.clamp_enabled THEN l.pads ELSE "stop"
      BY CoreDownFields, CallbackTypes DEF CoreDown, Lane
    <3>2. m = w /\ new["link"] = "OFF"
      BY <1>0, <1>3, <2>1 DEF Moved, Nested
    <3> HIDE DEF w, m
    <3>3. Lane(m, new)
      BY <1>3, <2>1, <3>1, <3>2 DEF Lane
    <3>4. Truth(l, clk) => Truth(m, new)
      BY <1>3, <2>1, <3>1, <3>2 DEF Truth, Seen, Lane
    <3>5. Phy(l, clk) => Phy(m, new)
      BY <1>3, <2>1, <3>1, <3>2 DEF Phy
    <3> QED BY <3>1, <3>2, <3>3, <3>4, <3>5 DEF m
  <2>2. CASE ~(clk["core"] = "ON" /\ new["core"] = "OFF")
    <3>1. m = l
      BY <1>3, <2>2, <1>0 DEF Moved
    <3>2. Lane(l, new)
      BY <1>0, <1>3, <2>2 DEF Lane, Nested
    <3> HIDE DEF m
    <3> QED BY <1>3, <3>1, <3>2 DEF Truth, Phy, m
  <2> QED BY <2>1, <2>2
<1> QED BY <1>0, <1>1, <1>2, <1>3

\* Until something fails a group is on exactly while one of the two clients has a
\* reference, each clock once.
ClockFacts ==
    /\ \A k \in Kind : clk_state[k] = "ON" <=> Dsi(k) > 0 \/ Mdp(k) > 0
    /\ core_clks = One(clk_state["core"] = "ON")
    /\ lp_clks = One(clk_state["link"] = "ON")
    /\ hs_clks = One(clk_state["link"] = "ON")
    /\ clk_state \in [Kind -> State]

LEMMA Clocks == TypeOK /\ ClkInv /\ faults = 0 => ClockFacts
<1> SUFFICES ASSUME TypeOK, ClkInv, faults = 0 PROVE ClockFacts
  OBVIOUS
<1>1. ASSUME NEW k \in Kind
      PROVE  clk_state[k] = "ON" <=> Dsi(k) > 0 \/ Mdp(k) > 0
  <2>1. clk_state[k] = "ON" <=> \E c \in Client : client_state[c][k] = "ON"
    BY DEF ClkInv, ClocksFollowVotes, Wanted
  <2>2. \A c \in Client : client_state[c][k] = "ON" <=> refcount[c][k] > 0
    BY DEF ClkInv, StateIsVote
  <2> QED BY <2>1, <2>2, DsiAssumption DEF Dsi, Mdp
<1> QED BY <1>1 DEF ClkInv, ClocksFollowVotes, PowerOrder, ClkTypeOK, ClockFacts

LEMMA ClocksNext == (TypeOK /\ ClkInv /\ faults = 0)' => ClockFacts'
BY Clocks, PTL

\* The core clocks are on whenever the link's are; without backlight they are on
\* only then, at the places at which the panel is checked or disabled.
Coupled ==
    /\ Nested(clk_state)
    /\ ~backlight /\ (Up \/ disp \in {"encoder_on", "encoder_off"}) =>
         (clk_state["core"] = "ON" => clk_state["link"] = "ON")
    /\ disp = "off" => (clk_state["core"] = "ON" => clk_state["link"] = "ON")
    /\ Own("link") >= 1 => clk_state["link"] = "ON"
    /\ ~vid_switched /\ disp \in {"off", "unlinked"} => clk_state["link"] = "OFF"

LEMMA Coupling == TypeOK /\ ClockFacts /\ Accounts /\ Places => Coupled
<1> SUFFICES ASSUME TypeOK, ClockFacts, Accounts, Places PROVE Coupled
  OBVIOUS
<1> DEFINE dc == Dsi("core")
           dl == Dsi("link")
           mc == Mdp("core")
           ml == Mdp("link")
           u == One(status) + One(recovery)
<1>1. /\ clk_state["core"] = "ON" <=> dc > 0 \/ mc > 0
      /\ clk_state["link"] = "ON" <=> dl > 0 \/ ml > 0
      /\ clk_state["core"] \in {"ON", "OFF"} /\ clk_state["link"] \in {"ON", "OFF"}
  BY DEF ClockFacts, Kind, State
<1>2. dc \in Nat /\ dl \in Nat /\ mc \in Nat /\ ml \in Nat /\ u \in Nat
  BY RefTypes DEF One
<1>3. /\ mc = One(mdp_on) /\ ml = One(mdp_on)
  BY DEF Accounts, Kind
<1>4. Own("link") = dl - u /\ Own("core") = dc - (u + One(backlight))
      /\ Own("link") >= 0 /\ Own("core") >= 0 /\ One(backlight) \in {0, 1}
  BY <1>2 DEF Own, Borrowed, Accounts, Kind, One
<1> HIDE DEF dc, dl, mc, ml, u
<1>5. /\ disp \in Whole => Own("core") = Own("link")
      /\ disp \in Half => Own("core") = Own("link") + 1
      /\ disp = "unlinked" => Own("core") >= Own("link")
      /\ disp \in Place
  BY <1>2, <1>4 DEF Accounts, TypeOK
<1>6. Own("core") >= Own("link")
  BY <1>2, <1>4, <1>5 DEF Whole, Half, Place
<1>7. Nested(clk_state)
  BY <1>1, <1>2, <1>3, <1>4, <1>6 DEF Nested
<1>8. ASSUME ~backlight, Up \/ disp \in {"encoder_on", "encoder_off", "off"}, clk_state["core"] = "ON"
      PROVE  clk_state["link"] = "ON"
  <2>1. CASE disp \in {"switch", "switch_unlinked"}
    <3>1. mdp_on
      BY <2>1 DEF Places
    <3> QED BY <1>1, <1>3, <3>1 DEF One
  <2>2. CASE disp \in Whole
    BY <1>1, <1>2, <1>3, <1>4, <1>5, <1>8, <2>2 DEF One
  <2> QED BY <1>8, <2>1, <2>2 DEF Up, Whole
<1>9. disp = "off" => ~backlight
  BY DEF Places
<1>10. Own("link") >= 1 => clk_state["link"] = "ON"
  BY <1>1, <1>2, <1>4
<1>11. ASSUME ~vid_switched, disp \in {"off", "unlinked"}
       PROVE  clk_state["link"] = "OFF"
  <2>1. ~status /\ ~recovery /\ ~mdp_on /\ Own("link") = 0
    BY <1>2, <1>4, <1>11 DEF Places, Accounts, One
  <2>2. u = 0
    BY <2>1 DEF u, One
  <2> QED BY <1>1, <1>2, <1>3, <1>4, <2>1, <2>2 DEF One
<1> QED BY <1>7, <1>8, <1>9, <1>10, <1>11 DEF Coupled

LEMMA CouplingNext == (TypeOK /\ ClockFacts /\ Accounts /\ Places)' => Coupled'
BY Coupling, PTL

\* The lanes after a request without failure.
LEMMA MovedBy ==
    ASSUME TypeOK, ClockFacts, ClockFacts', NEW l, l \in LinkAfter("none")
    PROVE  l = Moved(link, clk_state, clk_state')
<1> DEFINE up == clk_state["link"] = "OFF" /\ clk_state'["link"] = "ON"
           down == clk_state["link"] = "ON" /\ clk_state'["link"] = "OFF"
           off == clk_state["core"] = "ON" /\ clk_state'["core"] = "OFF"
           x == IF up THEN PostLpOn(link) ELSE link
           y == IF up THEN PostHsOn(x) ELSE x
           z == IF down THEN PreLpOff(y) ELSE y
<1>1. /\ lp_clks' > lp_clks <=> up
      /\ hs_clks' > hs_clks <=> up
      /\ lp_clks' < lp_clks <=> down
      /\ core_clks' < core_clks <=> off
  <2>1. /\ clk_state["core"] \in {"ON", "OFF"} /\ clk_state["link"] \in {"ON", "OFF"}
        /\ clk_state'["core"] \in {"ON", "OFF"} /\ clk_state'["link"] \in {"ON", "OFF"}
    BY DEF ClockFacts, Kind, State
  <2> QED BY <2>1 DEF ClockFacts, One
<1> HIDE DEF up, down, off
<1>2. LinkAfter("none") = {IF off THEN CoreDown(z) ELSE z}
  BY <1>1 DEF LinkAfter, CoreDown
<1>3. z = IF up THEN LinkUp(link) ELSE IF down THEN PreLpOff(link) ELSE link
  BY DEF up, down, LinkUp
<1> QED BY <1>2, <1>3 DEF Moved, up, down, off

\* A request without failure leaves the lanes true to the clocks.
LEMMA Served ==
    ASSUME TypeOK, ClockFacts, ClockFacts', Nested(clk_state'), Lanes,
           NEW l, l \in LinkAfter("none")
    PROVE  /\ Lane(l, clk_state')
           /\ Truth(l, clk_state')
           /\ Phy(link, clk_state) => Phy(l, clk_state')
<1>1. /\ link \in Link /\ clk_state \in [Kind -> State]
      /\ clk_state' \in [Kind -> State]
      /\ Lane(link, clk_state) /\ Truth(link, clk_state)
  BY DEF TypeOK, ClockFacts, Lanes
<1>2. l = Moved(link, clk_state, clk_state')
  BY MovedBy
<1> QED BY <1>1, <1>2, MovedLanes

LEMMA LanesStep ==
    ASSUME TypeOK, ClkInv, Accounts, Places, Lanes, [Next]_vars, faults' = 0
    PROVE  Lanes'
<1>1. faults = 0 /\ TypeOK' /\ ClkInv' /\ Accounts' /\ Places'
  BY FaultsStay, TypeStep, ClkStep, AccountsStep, PlacesStep
<1>2. ClockFacts /\ ClockFacts' /\ Coupled /\ Coupled'
  BY <1>1, Clocks, ClocksNext, Coupling, CouplingNext
<1>3. \A l : l \in LinkAfter("none") =>
               /\ Lane(l, clk_state') /\ Truth(l, clk_state')
               /\ Phy(link, clk_state) => Phy(l, clk_state')
  BY <1>2, Served DEF Coupled
<1>4. Lane(link, clk_state) /\ Truth(link, clk_state)
  BY DEF Lanes
<1> USE DEF State, Lanes
<1>5. CASE PrepareCore
  <2>1. /\ Granted
        /\ \E l \in LinkAfter("none") :
             link' = IF config.suspend /\ l.ulps_enabled THEN l ELSE PhyReset(l)
    BY <1>5, Granting DEF PrepareCore
  <2>2. PICK l \in LinkAfter("none") :
             link' = IF config.suspend /\ l.ulps_enabled THEN l ELSE PhyReset(l)
    BY <2>1
  <2>3. l \in Link /\ Lane(l, clk_state') /\ Truth(l, clk_state')
        /\ (Phy(link, clk_state) => Phy(l, clk_state'))
    BY <1>3, LinkAfterType
  <2>4. Given("dsi", {"core"}, "ON")
    BY <1>5, Granting DEF PrepareCore
  <2>5. clk_state'["link"] = clk_state["link"]
    <3>1. Dsi("link")' = Dsi("link") /\ Mdp("link")' = Mdp("link")
      BY <2>4 DEF Given, Dsi, Mdp, Kind
    <3> QED BY <1>2, <3>1 DEF ClockFacts, Kind
  <2>6. disp = "off" /\ disp' = "core" /\ ~esd_recovery_pending' /\ ~panel_initialized
        /\ UNCHANGED <<config, panel_initialized, disturbed>>
    BY <1>5, <2>1 DEF PrepareCore, Places
  <2>7. CASE config.suspend /\ l.ulps_enabled
    <3>1. l = Moved(link, clk_state, clk_state')
      BY <1>2, <2>2, MovedBy
    <3>2. clk_state'["core"] = "ON"
      <4>1. Dsi("core")' = Dsi("core") + 1 /\ Dsi("core") \in Nat
        BY <2>4, RefTypes DEF Given, Dsi, Kind
      <4> QED BY <1>2, <4>1 DEF ClockFacts, Kind
    <3>3. l = link
      BY <2>5, <3>1, <3>2 DEF Moved
    <3>4. clk_state["link"] = "OFF" /\ clk_state["core"] = "OFF"
      BY <1>2, <1>4, <2>6, <2>7, <3>3 DEF Lane, ClockFacts, Coupled, Kind
    <3>5. l.clamp_enabled
      BY <1>4, <2>7, <3>3, <3>4 DEF Lane
    <3> QED BY <2>2, <2>3, <2>5, <2>6, <2>7, <3>4, <3>5 DEF Lane, Truth, Phy
  <2>8. CASE ~(config.suspend /\ l.ulps_enabled)
    <3>1. ~l.ulps_enabled \/ (l.clamp_enabled /\ disturbed)
      BY <2>3, <2>6, <2>8 DEF Lane
    <3>2. link' = PhyReset(l)
      BY <2>2, <2>8
    <3>3. /\ link'.ulps_enabled = l.ulps_enabled
          /\ link'.clamp_enabled = l.clamp_enabled
          /\ link'.ctrl = "stop" /\ link'.phy_on
          /\ link'.pads = IF l.clamp_enabled THEN l.pads ELSE "stop"
      BY <2>3, <3>2 DEF PhyReset, Driven, Link
    <3>4. Lane(link, clk_state)'
      BY <2>3, <2>6, <3>1, <3>3 DEF Lane
    <3>5. Truth(link, clk_state)'
      BY <2>3, <2>6, <3>1, <3>3 DEF Truth
    <3> QED BY <3>3, <3>4, <3>5 DEF Phy
  <2> QED BY <2>7, <2>8
<1>6. CASE PrepareLink
  <2>1. /\ Granted
        /\ \E l \in LinkAfter("none") :
             link' = [l EXCEPT !.pads = IF l.clamp_enabled THEN @ ELSE l.ctrl]
    BY <1>6, Granting DEF PrepareLink
  <2>2. PICK l \in LinkAfter("none") :
             link' = [l EXCEPT !.pads = IF l.clamp_enabled THEN @ ELSE l.ctrl]
    BY <2>1
  <2>3. l \in Link /\ Lane(l, clk_state') /\ Truth(l, clk_state')
        /\ (Phy(link, clk_state) => Phy(l, clk_state'))
    BY <1>3, LinkAfterType
  <2>4. /\ disp = "core" /\ disp' = "prepared" /\ ~esd_recovery_pending
        /\ UNCHANGED <<config, panel_initialized, esd_recovery_pending>>
    BY <1>6, <2>1 DEF PrepareLink, Places
  <2>5. clk_state'["link"] = "ON"
    BY <1>1, <1>2, <2>4 DEF Coupled, Accounts
  <2>6. ~l.ulps_enabled /\ ~l.clamp_enabled /\ l.ctrl = "stop"
        /\ clk_state'["core"] = "ON"
    BY <2>3, <2>5 DEF Lane
  <2>7. Phy(link, clk_state)
    BY <2>4
  <2>8. /\ link'.ulps_enabled = l.ulps_enabled
        /\ link'.clamp_enabled = l.clamp_enabled
        /\ link'.ctrl = l.ctrl /\ link'.pads = "stop" /\ link'.phy_on = l.phy_on
    BY <2>2, <2>3, <2>6 DEF Link
  <2> QED BY <2>3, <2>4, <2>5, <2>6, <2>7, <2>8 DEF Lane, Truth, Phy
<1>7. CASE PanelEnable \/ PanelRefuses
  <2>1. clk_state["link"] = "ON" /\ clk_state["core"] = "ON"
    BY <1>2, <1>7 DEF PanelEnable, PanelRefuses, Go, Coupled, Accounts, Nested
  <2> QED
    BY <1>7, <2>1 DEF PanelEnable, PanelRefuses, clkvars, Lane, Truth, Phy, Go
<1>8. CASE UnprepareLink
  <2>1. /\ Granted
        /\ \E l \in LinkAfter("none") :
             link' = IF config.suspend THEN l ELSE [l EXCEPT !.phy_on = FALSE]
    BY <1>8, Granting DEF UnprepareLink
  <2>2. PICK l \in LinkAfter("none") :
             link' = IF config.suspend THEN l ELSE [l EXCEPT !.phy_on = FALSE]
    BY <2>1
  <2>3. l \in Link /\ Lane(l, clk_state') /\ Truth(l, clk_state')
        /\ (Phy(link, clk_state) => Phy(l, clk_state'))
    BY <1>3, LinkAfterType
  <2> QED BY <1>8, <2>1, <2>2, <2>3 DEF UnprepareLink, Lane, Truth, Phy, Go, Link
<1>9. CASE UnprepareCore
  <2>1. link' \in LinkAfter("none") /\ Granted
    BY <1>9, Granting DEF UnprepareCore, ClkCtrl
  <2> QED BY <1>3, <1>9, <2>1 DEF UnprepareCore, panelvars, Lane, Truth, Phy, Go
<1>10. CASE EncoderEnable
  <2>1. link' \in LinkAfter("none") /\ Granted
    BY <1>10, Granting DEF EncoderEnable, ClkCtrl
  <2> QED BY <1>3, <1>10, <2>1 DEF EncoderEnable, panelvars, Lane, Truth, Phy, Go
<1>11. CASE PostEnable
  <2>1. CASE config.cmd
    <3>1. link' \in LinkAfter("none")
      BY <1>11, <2>1, Granting DEF PostEnable, ClkCtrl
    <3> QED BY <1>3, <1>11, <3>1 DEF PostEnable, panelvars, Lane, Truth, Phy, Go
  <2>2. CASE ~config.cmd
    BY <1>11, <2>2 DEF PostEnable, clkvars, panelvars, Lane, Truth, Phy, Go
  <2> QED BY <2>1, <2>2
<1>12. CASE PreDisable
  <2>1. CASE config.cmd
    <3>1. link' \in LinkAfter("none")
      BY <1>12, <2>1, Granting DEF PreDisable, ClkCtrl
    <3> QED BY <1>3, <1>12, <3>1 DEF PreDisable, panelvars, Lane, Truth, Phy, Go
  <2>2. CASE ~config.cmd
    BY <1>12, <2>2 DEF PreDisable, clkvars, panelvars, Lane, Truth, Phy, Go
  <2> QED BY <2>1, <2>2
<1>13. CASE EncoderDisable
  <2>1. CASE mdp_on
    <3>1. link' \in LinkAfter("none")
      BY <1>13, <2>1, Granting DEF EncoderDisable, ClkCtrl
    <3> QED BY <1>3, <1>13, <3>1 DEF EncoderDisable, panelvars, Lane, Truth, Phy, Go
  <2>2. CASE ~mdp_on
    BY <1>13, <2>2 DEF EncoderDisable, clkvars, panelvars, Lane, Truth, Phy, Go
  <2> QED BY <2>1, <2>2
<1>14. CASE PanelDisable
  <2>1. /\ disp = "encoder_off" /\ disp' = "disabled" /\ ~panel_initialized'
        /\ UNCHANGED <<config, link, clk_state, esd_recovery_pending, disturbed>>
    BY <1>14 DEF PanelDisable, Go, clkvars
  <2>2. \/ clk_state["link"] = "ON" /\ clk_state["core"] = "ON"
        \/ ~panel_initialized
        \/ ~config.cmd /\ disturbed
    <3>1. Own("link") \in Int
      BY RefTypes DEF Own, Borrowed, One
    <3>2. config.cmd \/ host_ready => Own("link") >= 1
      BY <2>1, <3>1 DEF Accounts, One
    <3>3. panel_initialized /\ ~host_ready => disturbed
      BY DEF Places
    <3> QED BY <1>2, <3>2, <3>3 DEF Coupled, Nested
  <2>3. ~link.ulps_enabled \/ link.clamp_enabled
    BY <1>2, <1>4, <1>14, <2>1
    DEF PanelDisable, PanelLockFree, Coupled, Lane
  <2>4. Lane(link, clk_state)'
    BY <1>4, <2>1, <2>2, <2>3 DEF Lane
  <2> QED BY <1>4, <2>1, <2>4 DEF Truth, Phy
<1>15. CASE SeamlessPreEnable
  BY <1>1, <1>2, <1>15 DEF SeamlessPreEnable, clkvars, panelvars, Lane, Truth, Phy,
     Go
<1>16. CASE SwitchCore
  <2>1. link' \in LinkAfter("none") /\ Granted
    BY <1>16, Granting DEF SwitchCore, ClkCtrl
  <2> QED BY <1>3, <1>16, <2>1 DEF SwitchCore, panelvars, Lane, Truth, Phy, Go
<1>17. CASE SwitchLink
  <2>1. link' \in LinkAfter("none") /\ Granted
    BY <1>17, Granting DEF SwitchLink, ClkCtrl
  <2> QED BY <1>3, <1>17, <2>1 DEF SwitchLink, panelvars, Lane, Truth, Phy, Go
<1>18. CASE UpdateClkRate
  <2>1. /\ UNCHANGED <<disp, config, panel_initialized, esd_recovery_pending,
                       disturbed, clk_state>>
        /\ disp = "on"
    BY <1>18 DEF UpdateClkRate, ForceUpdate
  <2>2. link' = IF clk_state["link"] = "OFF" THEN link ELSE LinkUp(PreLpOff(link))
    <3>1. PICK f \in Fault \cup {"none"} :
            /\ ForceUpdate(f)
            /\ link' \in
                CASE clk_state["link"] = "OFF" -> {link}
                  [] f \in {"lp", "hs"} -> {PreLpOff(link)}
                  [] f = "hs_cb" -> PostLpOnFailed(PreLpOff(link))
                                    \cup PostHsOnFailed(PostLpOn(PreLpOff(link)))
                  [] OTHER -> {PostHsOn(PostLpOn(PreLpOff(link)))}
      BY <1>18 DEF UpdateClkRate
    <3>2. f = "none"
      <4>1. clk_state["link"] # "OFF" => faults' = faults + One(f # "none")
        BY <3>1 DEF ForceUpdate, Return
      <4> QED BY <1>1, <3>1, <4>1 DEF ForceUpdate, One
    <3> QED BY <3>1, <3>2 DEF LinkUp
  <2>3. CASE clk_state["link"] = "OFF"
    BY <2>1, <2>2, <2>3 DEF Lane, Truth, Phy
  <2>4. CASE clk_state["link"] # "OFF"
    <3> DEFINE mid == [clk_state EXCEPT !["link"] = "OFF"]
               d == PreLpOff(link)
    <3>1. /\ clk_state["link"] = "ON" /\ clk_state["core"] = "ON"
          /\ clk_state \in [Kind -> State] /\ Nested(clk_state)
      BY <1>2, <2>4 DEF ClockFacts, Kind, Coupled, Nested
    <3>2. /\ mid \in [Kind -> State] /\ mid["link"] = "OFF" /\ mid["core"] = "ON"
          /\ Nested(mid)
      BY <3>1 DEF Kind, Nested
    <3> HIDE DEF mid
    <3>3. d = Moved(link, clk_state, mid) /\ LinkUp(d) = Moved(d, mid, clk_state)
      BY <3>1, <3>2 DEF Moved
    <3>4. link \in Link
      BY DEF TypeOK
    <3> HIDE DEF d
    <3>5. /\ d \in Link /\ Lane(d, mid) /\ Truth(d, mid)
          /\ Phy(link, clk_state) => Phy(d, mid)
      BY <1>4, <3>1, <3>2, <3>3, <3>4, MovedLanes
    <3>6. /\ Lane(LinkUp(d), clk_state) /\ Truth(LinkUp(d), clk_state)
          /\ Phy(link, clk_state) => Phy(LinkUp(d), clk_state)
      BY <3>1, <3>2, <3>3, <3>5, MovedLanes
    <3>7. link' = LinkUp(d)
      BY <2>2, <2>4 DEF d
    <3> QED BY <2>1, <3>6, <3>7 DEF Lane, Truth, Phy
  <2> QED BY <2>3, <2>4
<1>19. CASE EncoderIdle
  <2>1. link' \in LinkAfter("none") /\ Granted
    BY <1>19, Granting DEF EncoderIdle, ClkCtrl
  <2> QED BY <1>3, <1>19, <2>1 DEF EncoderIdle, panelvars, Lane, Truth, Phy, Go
<1>20. CASE EncoderWake
  <2>1. link' \in LinkAfter("none") /\ Granted
    BY <1>20, Granting DEF EncoderWake, ClkCtrl
  <2> QED BY <1>3, <1>20, <2>1 DEF EncoderWake, panelvars, Lane, Truth, Phy, Go
<1>21. CASE BacklightBegin
  <2>1. link' \in LinkAfter("none") /\ Granted
    BY <1>21, Granting DEF BacklightBegin, ClkCtrl
  <2> QED BY <1>3, <1>21, <2>1 DEF BacklightBegin, panelvars, Lane, Truth, Phy, Go
<1>22. CASE BacklightEnd
  <2>1. link' \in LinkAfter("none") /\ Granted
    BY <1>22, Granting DEF BacklightEnd, ClkCtrl
  <2> QED BY <1>3, <1>22, <2>1 DEF BacklightEnd, panelvars, Lane, Truth, Phy, Go
<1>23. CASE StatusBegin
  <2>1. link' \in LinkAfter("none") /\ Granted
    BY <1>23, Granting DEF StatusBegin, ClkCtrl
  <2> QED BY <1>3, <1>23, <2>1 DEF StatusBegin, panelvars, Lane, Truth, Phy, Go
<1>24. ASSUME NEW dead \in BOOLEAN, StatusEnd(dead) PROVE Lanes'
  <2>1. link' \in LinkAfter("none") /\ Granted
    BY <1>24, Granting DEF StatusEnd, ClkCtrl
  <2>2. ~backlight' /\ (Up \/ disp = "encoder_on")'
    BY <1>24 DEF StatusEnd, Places, Up
  <2>3. ~link'.ulps_enabled \/ link'.clamp_enabled
    BY <1>2, <1>3, <2>1, <2>2 DEF Coupled, Lane
  <2> QED BY <1>3, <1>24, <2>1, <2>3 DEF StatusEnd, Lane, Truth, Phy
<1>25. CASE StatusTeFails
  <2>1. ~link.ulps_enabled \/ link.clamp_enabled
    BY <1>2, <1>25 DEF StatusTeFails, PanelLockFree, Coupled, Lane
  <2> QED BY <1>25, <2>1 DEF StatusTeFails, clkvars, Lane, Truth, Phy
<1>26. CASE RecoveryBegin
  <2>1. link' \in LinkAfter("none") /\ Granted
    BY <1>26, Granting DEF RecoveryBegin, ClkCtrl
  <2> QED BY <1>3, <1>26, <2>1 DEF RecoveryBegin, panelvars, Lane, Truth, Phy, Go
<1>27. CASE RecoveryEnd
  <2>1. link' \in LinkAfter("none") /\ Granted
    BY <1>27, Granting DEF RecoveryEnd, ClkCtrl
  <2> QED BY <1>3, <1>27, <2>1 DEF RecoveryEnd, panelvars, Lane, Truth, Phy, Go
<1>28. CASE UNCHANGED vars
  BY <1>28 DEF vars, clkvars, panelvars, Lane, Truth, Phy
<1> QED
  BY <1>5, <1>6, <1>7, <1>8, <1>9, <1>10, <1>11, <1>12, <1>13, <1>14, <1>15, <1>16,
     <1>17, <1>18, <1>19, <1>20, <1>21, <1>22, <1>23, <1>24, <1>25, <1>26, <1>27,
     <1>28
  DEF Next, Bridge, ModeChange, Users

-----------------------------------------------------------------------------

\* The inductive invariant of the display.
DsiInv == /\ TypeOK /\ ClkInv
          /\ faults = 0 => Accounts /\ Places /\ Lanes

LEMMA InitDsi == Init => DsiInv
<1> SUFFICES ASSUME Init PROVE DsiInv
  OBVIOUS
<1>1. ClkInv
  BY InitClkInv DEF Init
<1>2. TypeOK
  BY <1>1 DEF ClkInv, Init, TypeOK, Link, Place
<1>3. /\ disp = "off" /\ ~panel_initialized /\ ~host_ready /\ ~mdp_on
      /\ ~backlight /\ ~status /\ ~recovery /\ ~vid_switched /\ ~disturbed
      /\ ~esd_recovery_pending
      /\ clk_state["core"] = "OFF" /\ clk_state["link"] = "OFF"
  BY DEF Init, ClkInit, Kind
<1>4. \A k \in Kind : Dsi(k) = 0 /\ Mdp(k) = 0
  BY DsiAssumption DEF Init, ClkInit, Dsi, Mdp
<1>5. Own("core") = 0 /\ Own("link") = 0 /\ \A k \in Kind : Own(k) >= 0
  BY <1>3, <1>4 DEF Own, Borrowed, One, Kind
<1>6. Accounts
  BY <1>3, <1>4, <1>5 DEF Accounts, Whole, Half, One
<1>7. Places
  BY <1>3 DEF Places
<1>8. Lanes
  BY <1>3 DEF Init, Lanes, Lane, Truth
<1> QED BY <1>1, <1>2, <1>6, <1>7, <1>8 DEF DsiInv

LEMMA NextDsi == DsiInv /\ [Next]_vars => DsiInv'
<1> SUFFICES ASSUME DsiInv, [Next]_vars PROVE DsiInv'
  OBVIOUS
<1>1. TypeOK' /\ ClkInv'
  BY TypeStep, ClkStep DEF DsiInv
<1>2. ASSUME faults' = 0 PROVE Accounts' /\ Places' /\ Lanes'
  <2>1. Accounts /\ Places /\ Lanes
    BY <1>2, FaultsStay DEF DsiInv
  <2> QED BY <1>2, <2>1, AccountsStep, PlacesStep, LanesStep DEF DsiInv
<1> QED BY <1>1, <1>2 DEF DsiInv

LEMMA LanesFollow == DsiInv => LanesFollowClocks
<1> SUFFICES ASSUME DsiInv, Healthy PROVE LanesReady /\ UlpsFlagTruthful /\ IdleLinkParked
  BY DEF LanesFollowClocks
<1>1. TypeOK /\ Accounts /\ Places /\ Lanes /\ ~disturbed
  BY DEF DsiInv, Healthy
<1>2. ClockFacts /\ Coupled
  BY <1>1, Clocks, Coupling DEF DsiInv, Healthy
<1>3. Lane(link, clk_state) /\ Truth(link, clk_state)
  BY <1>1 DEF Lanes
<1>4. LanesReady
  <2> SUFFICES ASSUME clk_state["link"] = "ON", vid_switched => host_ready
               PROVE  /\ link.pads = "stop" /\ link.ctrl = "stop" /\ ~link.ulps_enabled
                      /\ ~link.clamp_enabled /\ link.phy_on
    BY DEF LanesReady
  <2>1. disp \notin {"off", "unlinked"}
    <3>1. disp \in {"off", "unlinked"} => ~host_ready
      BY <1>1 DEF Places
    <3> QED BY <1>2, <3>1 DEF Coupled
  <2>2. Phy(link, clk_state)
    BY <1>1, <2>1 DEF Lanes
  <2> QED BY <1>1, <1>3, <2>2 DEF Lane, Truth, Phy
<1>5. UlpsFlagTruthful
  BY <1>1, <1>3 DEF Truth, UlpsFlagTruthful
<1>6. IdleLinkParked
  <2> SUFFICES ASSUME panel_initialized, clk_state["core"] = "OFF"
               PROVE  /\ link.clamp_enabled /\ (config.ulps => link.pads = "ulps")
                      /\ config.phy_off => ~link.phy_on
    BY DEF IdleLinkParked
  <2>1. clk_state["link"] = "OFF"
    BY <1>2 DEF Coupled, Nested, ClockFacts, Kind, State
  <2> QED BY <1>1, <1>3, <2>1 DEF Lane, Truth
<1> QED BY <1>4, <1>5, <1>6

\* What the bridge holds is all that is held of a display that nobody uses.
LEMMA Held ==
    ASSUME DsiInv, faults = 0, NEW n \in {0, 1},
           ~mdp_on, ~status, ~recovery, ~backlight,
           Own("core") = n, Own("link") = n
    PROVE  Holds(0, n)
<1>1. TypeOK /\ Accounts /\ ClockFacts
  BY Clocks DEF DsiInv
<1>2. Dsi("core") = n /\ Dsi("link") = n
  BY <1>1, RefTypes DEF Own, Borrowed, One
<1>3. \A k \in Kind : Dsi(k) = n /\ Mdp(k) = 0
  BY <1>1, <1>2 DEF Accounts, One, Kind
<1>4. /\ refcount["mdp"] = [k \in Kind |-> 0]
      /\ refcount["dsi"] = [k \in Kind |-> n]
  BY <1>1, <1>3, DsiAssumption DEF TypeOK, ClkTypeOK, Dsi, Mdp
<1>5. core_clks = One(n > 0) /\ lp_clks = One(n > 0) /\ hs_clks = One(n > 0)
  BY <1>1, <1>3 DEF ClockFacts, One, Kind
<1> QED BY <1>4, <1>5 DEF Holds

LEMMA OffReleases == DsiInv => OffReleasesAll
<1> SUFFICES ASSUME DsiInv, faults = 0, disp = "off"
             PROVE  /\ Holds(0, 0) \/ (vid_switched /\ Holds(0, 1))
                    /\ link.clamp_enabled =>
                         config.suspend \/ (~config.cmd /\ disturbed)
  BY DEF OffReleasesAll
<1>1. TypeOK /\ Accounts /\ Places /\ Lanes
  BY DEF DsiInv
<1>2. ~status /\ ~recovery /\ ~backlight /\ ~mdp_on /\ ~panel_initialized
  BY <1>1 DEF Places
<1>3. /\ Own("core") = Own("link") /\ Own("link") \in Int
      /\ Own("link") >= 0 /\ Own("link") <= One(vid_switched)
  BY <1>1, RefTypes DEF Accounts, Whole, Own, Borrowed, One, Kind
<1>4. CASE Own("link") = 0
  BY <1>1, <1>2, <1>3, <1>4, Held DEF Lanes, Lane
<1>5. CASE Own("link") = 1
  BY <1>1, <1>2, <1>3, <1>5, Held DEF Lanes, Lane, One
<1>6. Own("link") = 0 \/ Own("link") = 1
  BY <1>3 DEF One
<1> QED BY <1>4, <1>5, <1>6

LEMMA IdleReleases == DsiInv => IdleReleasesAll
<1> SUFFICES ASSUME DsiInv, faults = 0, config.cmd, disp = "on",
                    ~mdp_on, ~backlight, ~status, ~recovery
             PROVE  Holds(0, 0)
  BY DEF IdleReleasesAll
<1>1. Own("link") = 0 /\ Own("core") = 0
  BY DEF DsiInv, Accounts, Whole
<1> QED BY <1>1, Held

\* The state of the display is always one the code uses (struct dsi_display and
\* the clock manager's clients).
THEOREM DsiTypes == Spec => []TypeOK
<1>1. DsiInv => TypeOK
  BY DEF DsiInv
<1> QED BY <1>1, InitDsi, NextDsi, PTL DEF Spec

\* Whatever order the bridge, the encoder, the panel's users and the error
\* workers ask for clocks in, the lanes of a healthy display can carry a command
\* while the link clocks are on, are what the driver's flags say, and are parked
\* while the core clocks are off (dsi_pre_clkoff_cb(), dsi_post_clkon_cb()).
THEOREM DsiLanesFollowClocks == Spec => []LanesFollowClocks
<1> QED BY InitDsi, NextDsi, LanesFollow, PTL DEF Spec

\* Whatever was refused and unwound on the way, a display that was disabled holds
\* no vote and no clock but the pair a mode switch of a video panel leaves, and
\* only a video panel that refused to be enabled stays clamped
\* (dsi_display_enable(), dsi_display_unprepare()).
THEOREM DsiOffReleasesAll == Spec => []OffReleasesAll
<1> QED BY InitDsi, NextDsi, OffReleases, PTL DEF Spec

\* A command panel that is on and that nobody uses has no clocks, whatever its
\* users found and whatever was refused (dsi_display_post_enable()).
THEOREM DsiIdleReleasesAll == Spec => []IdleReleasesAll
<1> QED BY InitDsi, NextDsi, IdleReleases, PTL DEF Spec

=============================================================================
