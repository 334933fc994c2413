--------------------------- MODULE DsiClkManager ---------------------------
(***************************************************************************)
(* The DSI clock manager (msm/dsi/dsi_clk_manager.c).  Clients vote for    *)
(* the core clocks and for the link clocks of a display with               *)
(* dsi_clk_req_state(); the manager turns a group on while some client     *)
(* wants it, core before link, and off in the opposite order.  The link    *)
(* group has two parts, escape (LP) and byte and pixel clocks (HS).        *)
(*                                                                         *)
(* Every request runs under clk_mutex from start to end and is one step.   *)
(* DSI_CLK_EARLY_GATE is never requested by any caller and is left out,    *)
(* and with it the branches of dsi_update_clk_state() that only an early   *)
(* gated group reaches.                                                    *)
(***************************************************************************)
EXTENDS Integers, FiniteSets

CONSTANTS
    Client,      \* registered clients (mdp_clk_handle, dsi_clk_handle)
    Fault,       \* where turning clocks on may fail
    MaxFaults,   \* bound on the failures of one behaviour
    MaxRef       \* bound on each reference count

\* "core" the core clocks or the power behind them, "lp" and "hs" the two
\* parts of the link, "lp_cb" and "hs_cb" the callback after each of them.
Faults == {"core", "lp", "lp_cb", "hs", "hs_cb"}

ASSUME ClkAssumption ==
    /\ Client # {} /\ IsFiniteSet(Client)
    /\ Fault \subseteq Faults
    /\ MaxFaults \in Nat /\ MaxRef \in Nat \ {0}

VARIABLES
    refcount,      \* c->core_refcount and c->link_refcount
    client_state,  \* c->core_clk_state and c->link_clk_state
    clk_state,     \* mngr->core_clk_state and mngr->link_clk_state
    core_clks,     \* times the core clocks are enabled
    lp_clks,       \* times the LP link clocks are enabled
    hs_clks,       \* times the HS link clocks are enabled
    rc,            \* what the latest call returned
    faults         \* failures so far

clkvars == <<refcount, client_state, clk_state, core_clks, lp_clks, hs_clks,
             rc, faults>>

Kind == {"core", "link"}
State == {"ON", "OFF"}

\* Every reference count is within its bound and every clock state is one
\* the manager uses (struct dsi_clk_client_info, struct dsi_clk_mngr).
ClkTypeOK ==
    /\ refcount \in [Client -> [Kind -> Nat]]
    /\ client_state \in [Client -> [Kind -> State]]
    /\ clk_state \in [Kind -> State]
    /\ core_clks \in Int /\ lp_clks \in Int /\ hs_clks \in Int
    /\ rc \in {"ok", "fail"}
    /\ faults \in Nat

ClkInit ==
    /\ refcount = [c \in Client |-> [k \in Kind |-> 0]]
    /\ client_state = [c \in Client |-> [k \in Kind |-> "OFF"]]
    /\ clk_state = [k \in Kind |-> "OFF"]
    /\ core_clks = 0 /\ lp_clks = 0 /\ hs_clks = 0
    /\ rc = "ok"
    /\ faults = 0

-----------------------------------------------------------------------------
(* The request: the client's references, then the manager's clocks. *)

\* Mutant: a reference nobody holds is given back.
NewRefsUnchecked(c, kinds, s) ==
    [k \in Kind |-> IF k \notin kinds THEN refcount[c][k]
                   ELSE IF s = "ON" THEN refcount[c][k] + 1
                   ELSE refcount[c][k] - 1]

NewRefs(c, kinds, s) ==
    [k \in Kind |->
        IF k \notin kinds THEN refcount[c][k]
        ELSE IF s = "ON" THEN refcount[c][k] + 1
        ELSE IF refcount[c][k] = 0 THEN 0
        ELSE refcount[c][k] - 1]

\* Only the first reference and the last one change a client's state.
Moves(c, k, s) ==
    IF s = "ON" THEN client_state[c][k] # "ON" ELSE refcount[c][k] = 1

Changed(c, kinds, s) == \E k \in kinds : Moves(c, k, s)

NewStates(c, kinds, s) ==
    [client_state EXCEPT ![c] =
        [k \in Kind |-> IF k \in kinds /\ Moves(c, k, s)
                        THEN s ELSE client_state[c][k]]]

\* The state of a group that the clients' states ask for.
Wanted(states, k) ==
    IF \E c \in Client : states[c][k] = "ON" THEN "ON" ELSE "OFF"

One(b) == IF b THEN 1 ELSE 0

\* Mutant: the HS clocks are started before the LP clocks.
UpdateClkStateHsFirst(core, link, f) ==
    LET coreOn  == core = "ON" /\ clk_state["core"] = "OFF" /\ f # "core"
        hsOn    == link = "ON" /\ clk_state["link"] = "OFF"
                   /\ f \notin {"core", "hs"}
        lpOn    == hsOn /\ f \notin {"hs_cb", "lp"}
        linkOn  == lpOn /\ f # "lp_cb"
        linkOff == link = "OFF" /\ clk_state["link"] = "ON" /\ f # "core"
        coreOff == core = "OFF" /\ clk_state["core"] = "ON" /\ f = "none"
    IN  /\ core_clks' = core_clks + One(coreOn) - One(coreOff)
        /\ lp_clks' = lp_clks + One(lpOn) - One(linkOff)
        /\ hs_clks' = hs_clks + One(hsOn) - One(linkOff)
        /\ clk_state' = [k \in Kind |->
            IF k = "core"
            THEN IF coreOn \/ coreOff THEN core ELSE clk_state["core"]
            ELSE IF linkOn \/ linkOff THEN link ELSE clk_state["link"]]

\* The clocks after the manager moved from clk_state to the wanted states of
\* the core and the link, stopped by failure f ("none" if nothing failed).
\* Core on, then LP and HS on or HS and LP off, then core off: whatever comes
\* after the failure is not attempted and nothing before it is undone.
UpdateClkState(core, link, f) ==
    LET coreOn  == core = "ON" /\ clk_state["core"] = "OFF" /\ f # "core"
        linkMay == f # "core"
        lpOn    == link = "ON" /\ clk_state["link"] = "OFF" /\ linkMay
                   /\ f # "lp"
        hsOn    == lpOn /\ f \notin {"lp_cb", "hs"}
        linkOn  == hsOn /\ f # "hs_cb"
        linkOff == link = "OFF" /\ clk_state["link"] = "ON" /\ linkMay
        coreOff == core = "OFF" /\ clk_state["core"] = "ON" /\ f = "none"
    IN  /\ core_clks' = core_clks + One(coreOn) - One(coreOff)
        /\ lp_clks' = lp_clks + One(lpOn) - One(linkOff)
        /\ hs_clks' = hs_clks + One(hsOn) - One(linkOff)
        /\ clk_state' =
            [k \in Kind |->
                IF k = "core"
                THEN IF coreOn \/ coreOff THEN core ELSE clk_state["core"]
                ELSE IF linkOn \/ linkOff THEN link ELSE clk_state["link"]]

\* Where a move to these states can fail: turning off never does.
CanFail(core, link) ==
    Fault \cap (   (IF core = "ON" /\ clk_state["core"] = "OFF"
                    THEN {"core"} ELSE {})
              \cup (IF link = "ON" /\ clk_state["link"] = "OFF"
                    THEN Faults \ {"core"} ELSE {}))

\* Count a failure and return it.
Return(f) ==
    /\ rc' = IF f = "none" THEN "ok" ELSE "fail"
    /\ faults' = faults + One(f # "none")

\* dsi_clk_req_state(): client c asks for kinds in state s, the call fails
\* at f.  The client's state moves first and stays when the clocks fail.
ReqState(c, kinds, s, f) ==
    LET states == NewStates(c, kinds, s)
        core == Wanted(states, "core")
        link == Wanted(states, "link")
    IN  /\ refcount' = [refcount EXCEPT ![c] = NewRefs(c, kinds, s)]
        /\ client_state' = states
        /\ IF Changed(c, kinds, s)
           THEN /\ \/ f = "none"
                   \/ f \in CanFail(core, link) /\ faults < MaxFaults
                /\ UpdateClkState(core, link, f)
           ELSE /\ f = "none"
                /\ UNCHANGED <<clk_state, core_clks, lp_clks, hs_clks>>
        /\ Return(f)

\* dsi_display_link_clk_force_update(): the link goes off and on again for a
\* new rate; a link that is off is left alone and the caller told so.  What
\* fails leaves link_clk_state as it was.
ForceUpdate(f) ==
    /\ UNCHANGED <<refcount, client_state, clk_state, core_clks>>
    /\ IF clk_state["link"] = "OFF"
       THEN /\ f = "none"
            /\ rc' = "fail"
            /\ UNCHANGED <<lp_clks, hs_clks, faults>>
       ELSE /\ \/ f = "none"
               \/ f \in Fault \cap {"lp", "hs", "hs_cb"} /\ faults < MaxFaults
            /\ lp_clks' = lp_clks - One(f = "lp")
            /\ hs_clks' = hs_clks - One(f \in {"lp", "hs"})
            /\ Return(f)

Bounded(c, kinds, s) == s = "ON" => \A k \in kinds : refcount[c][k] < MaxRef

ClkNext ==
    \/ \E c \in Client, kinds \in (SUBSET Kind) \ {{}}, s \in State,
          f \in Faults \cup {"none"} :
            Bounded(c, kinds, s) /\ ReqState(c, kinds, s, f)
    \/ \E f \in Faults \cup {"none"} : ForceUpdate(f)

ClkSpec == ClkInit /\ [][ClkNext]_clkvars

-----------------------------------------------------------------------------
(* What the manager promises. *)

\* A client is on exactly while it holds references, whatever fails: the
\* count and the state dsi_clk_req_state() keeps side by side agree.
StateIsVote ==
    \A c \in Client, k \in Kind :
        client_state[c][k] = "ON" <=> refcount[c][k] > 0

\* Until something fails the manager's state is the union of the votes and
\* every clock is enabled once or not at all, so that no sequence of requests
\* leaves a clock off that a client counts on, or on with no vote left
\* (dsi_recheck_clk_state()).
ClocksFollowVotes ==
    faults = 0 =>
        /\ \A k \in Kind : clk_state[k] = Wanted(client_state, k)
        /\ lp_clks = One(clk_state["link"] = "ON")
        /\ hs_clks = One(clk_state["link"] = "ON")

\* Even after failures the core clocks are enabled exactly while the manager
\* says so, and the HS clocks never outnumber the LP clocks they need: the
\* escape clock is started before and stopped after the byte clock.
PowerOrder ==
    /\ core_clks = One(clk_state["core"] = "ON")
    /\ hs_clks <= lp_clks

\* The three together: votes, states and clocks agree through every sequence
\* of requests and failures (dsi_clk_req_state()).
ClkPromise == StateIsVote /\ ClocksFollowVotes /\ PowerOrder
=============================================================================
