----------------------------- MODULE SdeHdcp1x -----------------------------
(***************************************************************************)
(* HDCP 1.x authentication of a DisplayPort link (msm/sde_hdcp_1x.c).      *)
(* hdcp_state has no lock: the authentication work, the interrupt, the     *)
(* request of the sink (cp_irq) and off() of other threads all write it.   *)
(*                                                                         *)
(* The steps here change only this module's variables; DpDisplay takes     *)
(* them together with what its callback does.                              *)
(***************************************************************************)
EXTENDS Integers

VARIABLES
    hdcp_state,
    auth_work,    \* place of hdcp_auth_work
    abort         \* the host is off: give up

hdcpvars == <<hdcp_state, auth_work, abort>>

HdcpState == {"inactive", "authenticating", "authenticated", "auth_fail"}
AuthPlace == {"idle", "queued", "part1", "verified", "fail", "failing", "notify"}

HdcpTypeOK == hdcp_state \in HdcpState /\ auth_work \in AuthPlace /\ abort \in BOOLEAN

HdcpInit == hdcp_state = "inactive" /\ auth_work = "idle" /\ abort = FALSE

-----------------------------------------------------------------------------
(* sde_hdcp_1x_auth_work, on a work queue of its own.                      *)

AuthStart ==
    /\ auth_work = "queued"
    /\ auth_work' = CASE hdcp_state # "authenticating" -> "idle"
                      [] hdcp_state = "authenticating" /\ abort -> "fail"
                      [] OTHER -> "part1"
    /\ UNCHANGED <<hdcp_state, abort>>

\* Part 1, and part 2 of a repeater, end with a look at the state; what the
\* sink answers decides otherwise.
AuthVerify ==
    /\ auth_work = "part1"
    /\ \E ok \in BOOLEAN :
         auth_work' = IF ok /\ hdcp_state = "authenticating" THEN "verified" ELSE "fail"
    /\ UNCHANGED <<hdcp_state, abort>>

\* The outcome is written without another look.
AuthSucceed ==
    /\ auth_work = "verified"
    /\ hdcp_state' = "authenticated" /\ auth_work' = "notify"
    /\ UNCHANGED abort

AuthFailCheck ==
    /\ auth_work = "fail"
    /\ auth_work' = IF hdcp_state = "inactive" THEN "notify" ELSE "failing"
    /\ UNCHANGED <<hdcp_state, abort>>

AuthFail ==
    /\ auth_work = "failing"
    /\ hdcp_state' = "auth_fail" /\ auth_work' = "notify"
    /\ UNCHANGED abort

\* sde_hdcp_1x_update_auth_status: the caller tells the display if Tells.
AuthNotify == auth_work = "notify" /\ auth_work' = "idle" /\ UNCHANGED <<hdcp_state, abort>>

Tells(state) == state # "inactive"

AuthStep ==
    AuthStart \/ AuthVerify \/ AuthSucceed \/ AuthFailCheck \/ AuthFail \/ AuthNotify

AuthRunning == auth_work \notin {"idle", "queued"}

-----------------------------------------------------------------------------
(* The operations of the driver.                                           *)

\* sde_hdcp_1x_authenticate: waits for the work, then starts the engine and
\* the work again, or fails if the state is not inactive.
Authenticate ==
    /\ auth_work = "idle"
    /\ IF hdcp_state = "inactive"
         THEN hdcp_state' = "authenticating" /\ auth_work' = "queued" /\ UNCHANGED abort
         ELSE UNCHANGED hdcpvars

\* sde_hdcp_1x_reauthenticate, up to its call of authenticate.
ResetEngine == hdcp_state' = "inactive" /\ UNCHANGED <<auth_work, abort>>

\* sde_hdcp_1x_off: the state first, then the wait for a running work.
OffBegin == hdcp_state' = "inactive" /\ UNCHANGED <<auth_work, abort>>

OffEnd == ~AuthRunning /\ auth_work' = "idle" /\ UNCHANGED <<hdcp_state, abort>>

\* Mutant: the work is cancelled but a running one is not told.
AbortQuietly(on) ==
    /\ auth_work' = (IF AuthRunning THEN auth_work ELSE "idle") /\ abort' = on
    /\ hdcp_state' = IF hdcp_state = "authenticating" THEN "auth_fail" ELSE hdcp_state

\* sde_hdcp_1x_abort, which waits for a running work too.
Abort(on) ==
    /\ ~AuthRunning /\ auth_work' = "idle" /\ abort' = on
    /\ hdcp_state' = IF hdcp_state = "authenticating" THEN "auth_fail" ELSE hdcp_state

\* sde_hdcp_1x_isr: the hardware lost the authentication.
IsrAuthFail ==
    /\ hdcp_state = "authenticated" /\ hdcp_state' = "auth_fail"
    /\ UNCHANGED <<auth_work, abort>>

\* sde_hdcp_1x_cp_irq: the sink asks for another authentication.
CpIrq ==
    /\ hdcp_state' = IF hdcp_state = "inactive" THEN "inactive" ELSE "auth_fail"
    /\ UNCHANGED <<auth_work, abort>>
=============================================================================
