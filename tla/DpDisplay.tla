------------------------------ MODULE DpDisplay ------------------------------
(***************************************************************************)
(* A DisplayPort display on a USB-C port (msm/dp/dp_display.c) with the    *)
(* power state of its controller (dp_ctrl.c) and HDCP 1.x (SdeHdcp1x).     *)
(*                                                                         *)
(* The thread of the USB driver reports plugs and attentions.  A single    *)
(* work queue runs connect_work, attention_work and hdcp_cb_work.  The     *)
(* commits of each stream call prepare, enable, post_enable, pre_disable,  *)
(* disable and unprepare.  PM suspends without the session lock.           *)
(*                                                                         *)
(* A place at[t] says what thread t executes next.  A region under         *)
(* session_lock is one step; where it waits with the lock held             *)
(* session_lock names the thread.                                          *)
(***************************************************************************)
EXTENDS SdeHdcp1x, SequencesExt

CONSTANTS
    Streams,      \* the streams of a link
    s0,           \* the stream of a single stream display
    Scenarios     \* [mst, hdcp, suspend, plugs, attentions, commits]

ASSUME StreamsAssumption ==
    /\ s0 \in Streams /\ Streams \cap {"usb", "wq", "pm", "free"} = {}
    /\ Scenarios \subseteq [mst : BOOLEAN, hdcp : BOOLEAN, suspend : BOOLEAN,
                           plugs : Nat, attentions : Nat, commits : Nat]

VARIABLES
    hpd,          \* [alt_mode_cfg_done, hpd_high]: what the port says
    conn,         \* the connection
    host,         \* core, controller and streams
    hdcp,         \* link->hdcp_status and what goes with it
    aborted, suspended,
    session_lock,
    wq, at,
    then,         \* what attention_work queues after a disconnect
    reset,        \* connect_work ends with a mode change commit
    cycle,        \* that commit is in the disabling half
    scenario, plugs, attentions, commits

place == <<at, wq, session_lock>>
job == <<then, reset, cycle>>
counters == <<scenario, plugs, attentions, commits>>
flags == <<aborted, suspended>>
vars == <<hpd, conn, host, hdcp, flags, place, job, counters, hdcpvars>>

Threads == {"usb", "wq", "pm"} \cup Streams

DisconnectPlaces == {"low", "notify_low", "clean", "return"}
ConnectPlaces == {"reset", "high", "train", "notify_high", "commit", "cycle"}
AttentionPlaces == {"attention", "cp_irq", "retrain"} \cup DisconnectPlaces
CbPlaces == {"cb_off", "cb_act", "authenticate"}
StreamPlaces == {"off", "prepare", "enable", "unwind", "post_enable", "on",
                 "pre_disable", "disable", "unprepare"}

TypeOK ==
    /\ hpd \in [alt_mode_cfg_done : BOOLEAN, hpd_high : BOOLEAN]
    /\ conn \in [is_connected : BOOLEAN, process_hpd_connect : BOOLEAN,
                 mst_active : BOOLEAN, video_test : BOOLEAN,
                 is_sst_connected : BOOLEAN, refused : BOOLEAN]
    /\ host \in [core_initialized : BOOLEAN, ctrl_on : BOOLEAN, cancelled : BOOLEAN,
                 power_on : BOOLEAN, active : SUBSET Streams, aux_off : BOOLEAN]
    /\ hdcp \in [status : HdcpState, enabled : BOOLEAN, hdcp_abort : BOOLEAN,
                 delayed_off : BOOLEAN, cb : BOOLEAN]
    /\ aborted \in BOOLEAN /\ suspended \in BOOLEAN
    /\ session_lock \in Threads \cup {"free"}
    /\ wq \in Seq({"connect", "attention"}) /\ IsInjective(wq)
    /\ at["usb"] \in {"idle", "configure", "cancel_connect", "cancel_attention", "flush"}
                     \cup DisconnectPlaces
    /\ at["wq"] \in {"idle"} \cup ConnectPlaces \cup AttentionPlaces \cup CbPlaces
    /\ at["pm"] \in {"idle", "off", "asleep"}
    /\ \A s \in Streams : at[s] \in StreamPlaces
    /\ then \in {"none", "connect", "video"} /\ reset \in BOOLEAN /\ cycle \in BOOLEAN
    /\ scenario \in Scenarios
    /\ plugs \in 0 .. scenario.plugs /\ attentions \in 0 .. scenario.attentions
    /\ commits \in 0 .. scenario.commits
    /\ HdcpTypeOK

Init ==
    /\ scenario \in Scenarios /\ plugs = 0 /\ attentions = 0 /\ commits = 0
    /\ hpd = [alt_mode_cfg_done |-> FALSE, hpd_high |-> FALSE]
    /\ conn = [is_connected |-> FALSE, process_hpd_connect |-> FALSE,
               mst_active |-> FALSE, video_test |-> FALSE,
               is_sst_connected |-> FALSE, refused |-> FALSE]
    /\ host = [core_initialized |-> FALSE, ctrl_on |-> FALSE, cancelled |-> FALSE,
               power_on |-> FALSE, active |-> {}, aux_off |-> FALSE]
    /\ hdcp = [status |-> "inactive", enabled |-> FALSE, hdcp_abort |-> FALSE,
               delayed_off |-> FALSE, cb |-> FALSE]
    /\ aborted = FALSE /\ suspended = FALSE /\ session_lock = "free" /\ wq = <<>>
    /\ at = [t \in Threads |-> IF t \in Streams THEN "off" ELSE "idle"]
    /\ then = "none" /\ reset = FALSE /\ cycle = FALSE
    /\ HdcpInit

-----------------------------------------------------------------------------
(* The host and its controller.                                            *)

HostInit(h) ==
    IF h.core_initialized THEN h
    ELSE [h EXCEPT !.core_initialized = TRUE, !.cancelled = FALSE]

HostDeinit(h) ==
    IF ~h.core_initialized \/ h.active # {} THEN h
    ELSE [h EXCEPT !.core_initialized = FALSE, !.aux_off = FALSE]

CtrlOff(h) == [h EXCEPT !.ctrl_on = FALSE]

\* dp_ctrl_on once the link is trained; aux->state keeps the result.
CtrlOn(h) ==
    IF h.ctrl_on \/ h.cancelled THEN h
    ELSE [h EXCEPT !.ctrl_on = TRUE, !.aux_off = FALSE]

\* Shallow, the controller is on although the training may not even have begun.
ShallowOn(h) == {CtrlOn(h), [CtrlOn(h) EXCEPT !.aux_off = h.aux_off]}

\* A training that begins leaves its result in aux->state, also when it fails.
Attempted(h) == {h, [h EXCEPT !.aux_off = FALSE]}

\* dp_display_clean after its HDCP part.
Clean(h) == [CtrlOff(h) EXCEPT !.active = {}, !.power_on = FALSE]

\* Initialising the host lets HDCP run again and taking it down stops it.
SetHost(h) ==
    /\ host' = h
    /\ IF h.core_initialized = host.core_initialized
         THEN UNCHANGED hdcpvars
         ELSE Abort(~h.core_initialized)

Ready == hpd.hpd_high /\ conn.is_connected /\ hpd.alt_mode_cfg_done

Go(t, p) == at' = [at EXCEPT ![t] = p]

Region(t) == session_lock \in {"free", t} /\ session_lock' = "free"

\* Mutant: a work that is queued already is queued again.
QueueAgain(work) == wq' = Append(wq, work)

Queue(work) == wq' = IF \E i \in DOMAIN wq : wq[i] = work THEN wq ELSE Append(wq, work)

Dequeue(work) == wq' = RemoveFirst(wq, work)

-----------------------------------------------------------------------------
(* Turning HDCP off inside a region: hdcp_cb_work is cancelled, then the   *)
(* driver's off waits for the authentication with the lock held.           *)

ResetByCommit == ~scenario.mst /\ ~conn.video_test

WantsOff(t) ==
    /\ hdcp.enabled /\ hdcp.status # "inactive"
    /\ \/ at[t] = "low"
       \/ at[t] = "clean" /\ host.active = {}
       \/ at[t] = "reset" /\ host.active # {} /\ ~ResetByCommit
       \/ at[t] = "pre_disable" /\ host.power_on /\ ~suspended /\ host.active \subseteq {t}

\* cancel_delayed_work_sync(hdcp_cb_work) has to wait.
CbRunning == at["wq"] \in CbPlaces

Off == IF hdcp_state = "inactive" THEN UNCHANGED hdcpvars ELSE OffBegin

HdcpOffBegin(t) ==
    /\ WantsOff(t) /\ session_lock = "free" /\ ~CbRunning
    /\ session_lock' = t
    /\ hdcp' = [hdcp EXCEPT !.cb = FALSE, !.hdcp_abort = @ \/ t \in Streams]
    /\ Off
    /\ UNCHANGED <<hpd, conn, host, flags, at, wq, job, counters>>

ResetStatus(h) == [h EXCEPT !.status = "inactive", !.enabled = FALSE]

HdcpOffEnd(t) ==
    /\ WantsOff(t) /\ session_lock = t
    /\ OffEnd
    /\ hdcp' = ResetStatus(hdcp)
    /\ UNCHANGED <<hpd, conn, host, flags, place, job, counters>>

HdcpOff(t) == HdcpOffBegin(t) \/ HdcpOffEnd(t)

-----------------------------------------------------------------------------
(* dp_display_handle_disconnect, by the USB thread or an attention.        *)

HpdLow(t) ==
    /\ at[t] = "low" /\ ~WantsOff(t) /\ Region(t)
    /\ conn' = [conn EXCEPT !.is_connected = FALSE, !.process_hpd_connect = FALSE]
    /\ Go(t, "notify_low")
    /\ UNCHANGED <<hpd, host, hdcp, flags, wq, job, counters, hdcpvars>>

NotifyLow(t) ==
    /\ at[t] = "notify_low"
    /\ conn' = [conn EXCEPT !.mst_active = FALSE, !.is_sst_connected = conn.is_connected,
                            !.video_test = FALSE]
    /\ host' = [host EXCEPT !.aux_off = FALSE, !.cancelled = TRUE]
    /\ Go(t, "clean")
    /\ UNCHANGED <<hpd, hdcp, flags, wq, session_lock, job, counters, hdcpvars>>

\* With streams running the host stays up until they are disabled.
CleanUp(t) ==
    /\ at[t] = "clean" /\ ~WantsOff(t) /\ Region(t)
    /\ SetHost(IF host.active = {} THEN HostDeinit(Clean(host)) ELSE host)
    /\ Go(t, "return")
    /\ UNCHANGED <<hpd, conn, hdcp, flags, wq, job, counters>>

HandleDisconnect(t) == HdcpOff(t) \/ HpdLow(t) \/ NotifyLow(t) \/ CleanUp(t)

-----------------------------------------------------------------------------
(* The thread of the USB driver.                                           *)

Plug ==
    /\ at["usb"] = "idle" /\ ~hpd.alt_mode_cfg_done /\ plugs < scenario.plugs
    /\ \E high \in BOOLEAN : hpd' = [alt_mode_cfg_done |-> TRUE, hpd_high |-> high]
    /\ plugs' = plugs + 1 /\ conn' = [conn EXCEPT !.refused = FALSE]
    /\ Go("usb", "configure")
    /\ UNCHANGED <<host, hdcp, flags, wq, session_lock, job, scenario, attentions,
                   commits, hdcpvars>>

Configure ==
    /\ at["usb"] = "configure" /\ Region("usb")
    /\ SetHost(HostInit(host))
    /\ IF hpd.hpd_high
         THEN Queue("connect") /\ UNCHANGED conn
         ELSE conn' = [conn EXCEPT !.process_hpd_connect = TRUE] /\ UNCHANGED wq
    /\ Go("usb", "idle")
    /\ UNCHANGED <<hpd, hdcp, flags, job, counters>>

\* The sink's HPD is high.  An interrupt request follows a high that was
\* reported before.
AttentionHigh(irq) ==
    /\ at["usb"] = "idle" /\ hpd.alt_mode_cfg_done /\ attentions < scenario.attentions
    /\ irq => hpd.hpd_high
    /\ hpd' = [hpd EXCEPT !.hpd_high = TRUE]
    /\ attentions' = attentions + 1
    /\ conn' = [conn EXCEPT !.refused = @ /\ irq]
    /\ CASE irq /\ host.core_initialized -> Queue("attention")
         [] ~(irq /\ host.core_initialized)
            /\ (conn.process_hpd_connect \/ ~conn.is_connected) -> Queue("connect")
         [] OTHER -> UNCHANGED wq
    /\ UNCHANGED <<host, hdcp, flags, at, session_lock, job, scenario, plugs, commits,
                   hdcpvars>>

\* dp_display_disconnect_sync, up to its waits.
BeginDisconnect ==
    /\ at["usb"] = "idle" /\ hpd.alt_mode_cfg_done
    /\ aborted' = TRUE /\ host' = [host EXCEPT !.cancelled = TRUE]
    /\ Go("usb", "cancel_connect")
    /\ UNCHANGED <<conn, hdcp, suspended, wq, session_lock, job, scenario, plugs, commits,
                   hdcpvars>>

AttentionLow ==
    /\ attentions < scenario.attentions /\ attentions' = attentions + 1
    /\ hpd' = [hpd EXCEPT !.hpd_high = FALSE]
    /\ BeginDisconnect

\* The port keeps the last HPD it heard of.
Unplug ==
    /\ hpd' = [hpd EXCEPT !.alt_mode_cfg_done = FALSE]
    /\ BeginDisconnect /\ UNCHANGED attentions

CancelConnect ==
    /\ at["usb"] = "cancel_connect" /\ at["wq"] \notin ConnectPlaces
    /\ Dequeue("connect") /\ Go("usb", "cancel_attention")
    /\ UNCHANGED <<hpd, conn, host, hdcp, flags, session_lock, job, counters, hdcpvars>>

CancelAttention ==
    /\ at["usb"] = "cancel_attention" /\ at["wq"] \notin AttentionPlaces
    /\ Dequeue("attention") /\ Go("usb", "flush")
    /\ UNCHANGED <<hpd, conn, host, hdcp, flags, session_lock, job, counters, hdcpvars>>

\* Mutant: the works are cancelled but the queue is not flushed.
NoFlush ==
    /\ at["usb"] = "flush" /\ Go("usb", "low")
    /\ UNCHANGED <<hpd, conn, host, hdcp, flags, wq, session_lock, job, counters, hdcpvars>>

FlushQueue ==
    /\ at["usb"] = "flush" /\ wq = <<>> /\ at["wq"] = "idle" /\ Go("usb", "low")
    /\ UNCHANGED <<hpd, conn, host, hdcp, flags, wq, session_lock, job, counters, hdcpvars>>

EndDisconnect ==
    /\ at["usb"] = "return" /\ Go("usb", "idle") /\ aborted' = FALSE
    /\ UNCHANGED <<hpd, conn, host, hdcp, suspended, wq, session_lock, job, counters,
                   hdcpvars>>

UsbStep ==
    \/ Configure \/ CancelConnect \/ CancelAttention \/ FlushQueue
    \/ HandleDisconnect("usb") \/ EndDisconnect

Usb == Plug \/ (\E irq \in BOOLEAN : AttentionHigh(irq)) \/ AttentionLow \/ Unplug \/ UsbStep

-----------------------------------------------------------------------------
(* connect_work.                                                           *)

StartConnect ==
    /\ at["wq"] = "idle" /\ wq # <<>> /\ Head(wq) = "connect" /\ wq' = Tail(wq)
    /\ Go("wq", IF aborted \/ ~hpd.hpd_high THEN "idle" ELSE "reset")
    /\ UNCHANGED <<hpd, conn, host, hdcp, flags, session_lock, job, counters, hdcpvars>>

\* A running single stream is reset by a commit at the end, others at once.
ResetPanel ==
    /\ at["wq"] = "reset" /\ ~WantsOff("wq") /\ Region("wq")
    /\ CASE host.active = {} -> UNCHANGED <<host, hdcpvars>>
         [] host.active # {} /\ ResetByCommit -> SetHost([host EXCEPT !.cancelled = FALSE])
         [] OTHER -> SetHost(HostDeinit(Clean(host)))
    /\ reset' = (host.active # {} /\ ResetByCommit)
    /\ Go("wq", "high")
    /\ UNCHANGED <<hpd, conn, hdcp, flags, wq, then, cycle, counters>>

\* dp_display_process_hpd_high, up to reading the sink's capabilities.
HpdHigh ==
    /\ at["wq"] = "high" /\ session_lock = "free"
    /\ IF conn.is_connected
         THEN Go("wq", "commit") /\ UNCHANGED <<session_lock, conn, host, hdcpvars>>
         ELSE /\ session_lock' = "wq" /\ Go("wq", "train")
              /\ conn' = [conn EXCEPT !.is_connected = TRUE]
              /\ SetHost(HostInit(host))
    /\ UNCHANGED <<hpd, hdcp, flags, wq, job, counters>>

NotConnected ==
    /\ conn' = [conn EXCEPT !.is_connected = FALSE, !.refused = TRUE,
                            !.mst_active = @ \/ scenario.mst]
    /\ host' \in Attempted(host) /\ Go("wq", "commit")

\* The sink answers nothing, or the training fails or is cancelled, or the
\* link is up.
SinkGone ==
    /\ conn' = [conn EXCEPT !.is_connected = FALSE, !.refused = TRUE]
    /\ UNCHANGED host /\ Go("wq", "commit")

TrainingFailed == ~host.ctrl_on /\ NotConnected

LinkUp ==
    /\ CtrlOn(host).ctrl_on
    /\ conn' = [conn EXCEPT !.mst_active = @ \/ scenario.mst, !.process_hpd_connect = FALSE,
                            !.refused = FALSE]
    /\ host' = CtrlOn(host) /\ Go("wq", "notify_high")

Train ==
    /\ at["wq"] = "train" /\ session_lock' = "free"
    /\ SinkGone \/ TrainingFailed \/ LinkUp
    /\ UNCHANGED <<hpd, hdcp, flags, wq, job, counters, hdcpvars>>

NotifyHigh ==
    /\ at["wq"] = "notify_high"
    /\ conn' = [conn EXCEPT !.is_sst_connected = ~conn.mst_active /\ conn.is_connected]
    /\ host' = [host EXCEPT !.aux_off = FALSE]
    /\ Go("wq", "commit")
    /\ UNCHANGED <<hpd, hdcp, flags, wq, session_lock, job, counters, hdcpvars>>

\* Mutant: the commit is made with the session lock held.
ModeChangeLocked ==
    /\ at["wq"] = "commit"
    /\ IF ~reset THEN Go("wq", "idle") /\ UNCHANGED <<cycle, session_lock>>
       ELSE \/ at[s0] = "off" /\ Go("wq", "idle") /\ UNCHANGED <<cycle, session_lock>>
            \/ /\ at[s0] = "on" /\ cycle' = TRUE
               /\ session_lock = "free" /\ session_lock' = "wq"
               /\ at' = [at EXCEPT !["wq"] = "cycle", ![s0] = "pre_disable"]
    /\ reset' = FALSE
    /\ UNCHANGED <<hpd, conn, host, hdcp, flags, wq, then, counters, hdcpvars>>

\* sde_connector_helper_mode_change_commit: after the commit in progress,
\* disable and enable again if the display is on.
ModeChange ==
    /\ at["wq"] = "commit"
    /\ IF ~reset THEN Go("wq", "idle") /\ UNCHANGED cycle
       ELSE \/ at[s0] = "off" /\ Go("wq", "idle") /\ UNCHANGED cycle
            \/ /\ at[s0] = "on" /\ cycle' = TRUE
               /\ at' = [at EXCEPT !["wq"] = "cycle", ![s0] = "pre_disable"]
    /\ reset' = FALSE
    /\ UNCHANGED <<hpd, conn, host, hdcp, flags, wq, session_lock, then, counters, hdcpvars>>

ModeChanged ==
    /\ at["wq"] = "cycle" /\ at[s0] = "on" /\ ~cycle
    /\ Go("wq", "idle")
    /\ UNCHANGED <<hpd, conn, host, hdcp, flags, wq, session_lock, job, counters, hdcpvars>>

ConnectWork ==
    StartConnect \/ ResetPanel \/ HpdHigh \/ Train \/ NotifyHigh \/ ModeChange \/ ModeChanged

-----------------------------------------------------------------------------
(* attention_work.  A test of the physical layer is left out.              *)

StartAttention ==
    /\ at["wq"] = "idle" /\ wq # <<>> /\ Head(wq) = "attention" /\ wq' = Tail(wq)
    /\ Go("wq", "attention")
    /\ UNCHANGED <<hpd, conn, host, hdcp, flags, session_lock, job, counters, hdcpvars>>

\* What the sink asks for: nothing but HDCP, no device behind it any more,
\* another device behind it, a test video, another training.
SinkRequest(request) ==
    /\ at["wq"] = "attention" /\ session_lock = "free"
    /\ Go("wq", CASE ~host.core_initialized -> "idle"
                  [] host.core_initialized /\ request = "none" -> "cp_irq"
                  [] host.core_initialized /\ request = "training" -> "retrain"
                  [] host.core_initialized /\ request = "port" /\ conn.mst_active -> "idle"
                  [] OTHER -> "low")
    /\ then' = CASE request = "port" -> "connect"
                 [] request = "video" -> "video"
                 [] OTHER -> "none"
    /\ UNCHANGED <<hpd, conn, host, hdcp, flags, wq, session_lock, reset, cycle, counters,
                   hdcpvars>>

SinkRequests == {"none", "zero", "port", "video", "training"}

\* The connection ended by the sink is not tried again by itself.
Reconnect ==
    /\ at["wq"] = "return" /\ Go("wq", "idle")
    /\ conn' = [conn EXCEPT !.video_test = (then = "video"), !.refused = (then = "none")]
    /\ IF then = "none" THEN UNCHANGED wq ELSE Queue("connect")
    /\ then' = "none"
    /\ UNCHANGED <<hpd, host, hdcp, flags, session_lock, reset, cycle, counters, hdcpvars>>

\* dp_ctrl_link_maintenance, outside the lock.
Retrain ==
    /\ at["wq"] = "retrain" /\ Go("wq", "idle")
    /\ host' = [host EXCEPT !.aux_off = @ /\ (host.ctrl_on => host.cancelled)]
    /\ UNCHANGED <<hpd, conn, hdcp, flags, wq, session_lock, job, counters, hdcpvars>>

\* dp_display_notify_hdcp_status_cb.
Notified(h, state) ==
    IF Tells(state) THEN [h EXCEPT !.status = state, !.cb = TRUE] ELSE h

SinkReauth ==
    /\ at["wq"] = "cp_irq" /\ Go("wq", "idle")
    /\ \/ UNCHANGED <<hdcp, hdcpvars>>
       \/ hdcp.enabled /\ CpIrq /\ hdcp' = Notified(hdcp, hdcp_state')
    /\ UNCHANGED <<hpd, conn, host, flags, wq, session_lock, job, counters>>

AttentionWork ==
    \/ StartAttention \/ (\E r \in SinkRequests : SinkRequest(r)) \/ Reconnect \/ Retrain
    \/ SinkReauth \/ HandleDisconnect("wq")

-----------------------------------------------------------------------------
(* hdcp_cb_work.                                                           *)

MayRun == host.power_on /\ conn.is_connected /\ ~aborted /\ ~hdcp.hdcp_abort

\* While the system suspends the work queues itself again.
StartCb ==
    /\ at["wq"] = "idle" /\ hdcp.cb /\ (MayRun => ~suspended)
    /\ hdcp' = [hdcp EXCEPT !.cb = FALSE]
    /\ IF ~MayRun THEN UNCHANGED <<at, hdcpvars>>
       ELSE IF hdcp.delayed_off THEN Go("wq", "cb_off") /\ Off
       ELSE Go("wq", "cb_act") /\ UNCHANGED hdcpvars
    /\ UNCHANGED <<hpd, conn, host, flags, wq, session_lock, job, counters>>

CbOff ==
    /\ at["wq"] = "cb_off" /\ OffEnd
    /\ hdcp' = [ResetStatus(hdcp) EXCEPT !.delayed_off = FALSE]
    /\ Go("wq", "cb_act")
    /\ UNCHANGED <<hpd, conn, host, flags, wq, session_lock, job, counters>>

CbAct ==
    /\ at["wq"] = "cb_act"
    /\ \/ /\ hdcp.status = "inactive" /\ UNCHANGED hdcpvars
          /\ hdcp' = [hdcp EXCEPT !.enabled = scenario.hdcp]
          /\ Go("wq", IF scenario.hdcp THEN "authenticate" ELSE "idle")
       \/ /\ hdcp.status = "auth_fail" /\ Ready /\ host.power_on
          /\ hdcp' = [hdcp EXCEPT !.status = "authenticating"]
          /\ IF hdcp_state = "auth_fail"
               THEN ResetEngine /\ Go("wq", "authenticate")
               ELSE UNCHANGED hdcpvars /\ Go("wq", "idle")
       \/ /\ hdcp.status = "auth_fail" => ~(Ready /\ host.power_on)
          /\ hdcp.status # "inactive"
          /\ Go("wq", "idle") /\ UNCHANGED <<hdcp, hdcpvars>>
    /\ UNCHANGED <<hpd, conn, host, flags, wq, session_lock, job, counters>>

CbAuthenticate ==
    /\ at["wq"] = "authenticate" /\ Authenticate /\ Go("wq", "idle")
    /\ hdcp' = IF hdcp_state = "inactive" THEN [hdcp EXCEPT !.status = "authenticating"]
               ELSE hdcp
    /\ UNCHANGED <<hpd, conn, host, flags, wq, session_lock, job, counters>>

CbWork == StartCb \/ CbOff \/ CbAct \/ CbAuthenticate

WqStep == ConnectWork \/ AttentionWork \/ CbWork

\* The authentication work and the interrupt.
AuthWork ==
    /\ AuthStep
    /\ hdcp' = IF auth_work = "notify" THEN Notified(hdcp, hdcp_state) ELSE hdcp
    /\ UNCHANGED <<hpd, conn, host, flags, place, job, counters>>

Isr ==
    /\ host.core_initialized /\ hdcp.enabled /\ IsrAuthFail
    /\ hdcp' = Notified(hdcp, hdcp_state')
    /\ UNCHANGED <<hpd, conn, host, flags, place, job, counters>>

-----------------------------------------------------------------------------
(* The commits of a stream.                                                *)

\* What user space was told.  An MST link shows its outputs when it is up.
Sees ==
    IF scenario.mst THEN conn.mst_active /\ conn.is_connected /\ at["wq"] # "train"
    ELSE conn.is_sst_connected

TurnOn(s) ==
    /\ at[s] = "off" /\ Sees /\ commits < scenario.commits
    /\ s = s0 \/ scenario.mst
    /\ commits' = commits + 1 /\ Go(s, "prepare")
    /\ UNCHANGED <<hpd, conn, host, hdcp, flags, wq, session_lock, job, scenario, plugs,
                   attentions, hdcpvars>>

TurnOff(s) ==
    /\ at[s] = "on" /\ ~(s = s0 /\ at["wq"] = "cycle") /\ Go(s, "pre_disable")
    /\ UNCHANGED <<hpd, conn, host, hdcp, flags, wq, session_lock, job, counters, hdcpvars>>

\* dp_ctrl_on is shallow and its error is dropped.
Prepare(s) ==
    /\ at[s] = "prepare" /\ Region(s)
    /\ \E h \in IF aborted \/ host.power_on \/ ~Ready THEN {host}
               ELSE ShallowOn(HostInit(host)) : SetHost(h)
    /\ Go(s, "enable")
    /\ UNCHANGED <<hpd, conn, hdcp, flags, wq, job, counters>>

\* The clocks of the stream may fail.
Enable(s) ==
    /\ at[s] = "enable" /\ Region(s)
    /\ \/ /\ host' = IF host.core_initialized
                       THEN [host EXCEPT !.active = @ \cup {s}, !.power_on = TRUE] ELSE host
          /\ Go(s, "post_enable")
       \/ host.core_initialized /\ UNCHANGED host /\ Go(s, "unwind")
    /\ UNCHANGED <<hpd, conn, hdcp, flags, wq, job, counters, hdcpvars>>

PostEnable(s) ==
    /\ at[s] = "post_enable" /\ Region(s)
    /\ IF /\ host.power_on /\ ~aborted /\ Ready /\ host.core_initialized /\ scenario.hdcp
         THEN ~CbRunning /\ hdcp' = [hdcp EXCEPT !.cb = TRUE]
         ELSE UNCHANGED hdcp
    /\ host' = [host EXCEPT !.aux_off = FALSE]
    /\ Go(s, "on")
    /\ UNCHANGED <<hpd, conn, flags, wq, job, counters, hdcpvars>>

\* While the system suspends HDCP is turned off later.
PreDisable(s) ==
    /\ at[s] = "pre_disable" /\ ~WantsOff(s) /\ Region(s)
    /\ IF host.power_on
         THEN /\ ~CbRunning
              /\ hdcp' = [hdcp EXCEPT !.cb = FALSE, !.hdcp_abort = TRUE,
                            !.delayed_off = @ \/ (suspended /\ hdcp.enabled
                                                            /\ hdcp.status # "inactive")]
         ELSE UNCHANGED hdcp
    /\ Go(s, "disable")
    /\ UNCHANGED <<hpd, conn, host, flags, wq, job, counters, hdcpvars>>

\* hdcp_abort stays set when someone else cleaned up in between.
Disable(s) ==
    /\ at[s] = "disable" /\ Region(s)
    /\ IF host.power_on /\ host.core_initialized
         THEN /\ host' = [host EXCEPT !.active = @ \ {s}]
              /\ hdcp' = [hdcp EXCEPT !.hdcp_abort = FALSE,
                            !.cb = @ \/ (host.active \ {s} # {}
                                         /\ hdcp.status # "authenticated")]
         ELSE UNCHANGED <<host, hdcp>>
    /\ Go(s, "unprepare")
    /\ UNCHANGED <<hpd, conn, flags, wq, job, counters, hdcpvars>>

\* Mutant: the link goes down with the first stream.
ReleasedAlways ==
    IF conn.mst_active /\ ~suspended THEN host
    ELSE [HostDeinit(CtrlOff(host)) EXCEPT !.power_on = FALSE, !.aux_off = TRUE]

\* dp_display_unprepare.  An MST link keeps its host for side band messages.
Released ==
    IF host.active # {} \/ (conn.mst_active /\ ~suspended) THEN host
    ELSE [HostDeinit(CtrlOff(host)) EXCEPT !.power_on = FALSE, !.aux_off = TRUE]

\* The bridge gives back what prepare took and goes on.
Unwind(s) ==
    /\ at[s] = "unwind" /\ Region(s)
    /\ SetHost(Released)
    /\ Go(s, "post_enable")
    /\ UNCHANGED <<hpd, conn, hdcp, flags, wq, job, counters>>

Unprepare(s) ==
    /\ at[s] = "unprepare" /\ Region(s)
    /\ SetHost(Released)
    /\ IF cycle THEN Go(s, "prepare") ELSE Go(s, "off")
    /\ cycle' = FALSE
    /\ UNCHANGED <<hpd, conn, hdcp, flags, wq, then, reset, counters>>

StreamStep(s) ==
    \/ Prepare(s) \/ Enable(s) \/ Unwind(s) \/ PostEnable(s)
    \/ HdcpOff(s) \/ PreDisable(s) \/ Disable(s) \/ Unprepare(s)

-----------------------------------------------------------------------------
(* dp_pm_prepare and dp_pm_complete: nothing here takes session_lock.      *)

Suspend ==
    /\ scenario.suspend /\ at["pm"] = "idle" /\ ~suspended
    /\ suspended' = TRUE
    /\ host' = [host EXCEPT !.cancelled = @ \/ (conn.is_connected /\ ~host.power_on)]
    /\ Go("pm", IF ~host.power_on /\ ~host.aux_off THEN "off" ELSE "asleep")
    /\ UNCHANGED <<hpd, conn, hdcp, aborted, wq, session_lock, job, counters, hdcpvars>>

PmOff ==
    /\ at["pm"] = "off"
    /\ SetHost([HostDeinit(CtrlOff(host)) EXCEPT !.aux_off = TRUE])
    /\ Go("pm", "asleep")
    /\ UNCHANGED <<hpd, conn, hdcp, flags, wq, session_lock, job, counters>>

Resume ==
    /\ at["pm"] = "asleep" /\ Go("pm", "idle") /\ suspended' = FALSE
    /\ host' = [host EXCEPT !.cancelled = @ /\ ~(conn.is_connected /\ ~host.power_on)]
    /\ UNCHANGED <<hpd, conn, hdcp, aborted, wq, session_lock, job, counters, hdcpvars>>

Pm == Suspend \/ PmOff \/ Resume

-----------------------------------------------------------------------------
Stream(s) == TurnOn(s) \/ TurnOff(s) \/ StreamStep(s)

Next == Usb \/ WqStep \/ AuthWork \/ Isr \/ (\E s \in Streams : Stream(s)) \/ Pm

Spec == Init /\ [][Next]_vars
\* Every thread runs on, the training ends, and user space switches off a
\* display it was told is gone.
FairSpec ==
    /\ Spec /\ WF_vars(UsbStep) /\ WF_vars(WqStep) /\ WF_vars(AuthWork)
    /\ WF_vars(PmOff)
    /\ \A s \in Streams : WF_vars(StreamStep(s)) /\ WF_vars(TurnOff(s) /\ ~Sees)

-----------------------------------------------------------------------------
(* Properties.                                                             *)

\* No thread of the port or of the work queue has anything left to do.
PortQuiet == at["usb"] = "idle" /\ at["wq"] = "idle" /\ wq = <<>>

AllQuiet == PortQuiet /\ \A s \in Streams : at[s] = "off"

\* Once the threads have come to rest, the display is what the port and the
\* commits last said, in whatever order they got there:
\*   - after a disconnect no late connect brings the display back, although the
\*     port keeps saying that HPD is high (dp_display_disconnect_sync sets
\*     aborted and waits; connect_work looks at aborted once, at its start);
\*   - a sink that reported HPD high is connected unless an attempt failed or
\*     the sink ended it (dp_display_usbpd_attention_cb);
\*   - what the last hot plug event told user space holds, although the
\*     notification reads is_connected outside session_lock;
\*   - when user space has switched off, an unplugged port leaves host,
\*     controller and streams off: handle_disconnect leaves a host with streams
\*     to unprepare, which leaves one of an MST link to handle_disconnect.
DisconnectSticks == ~hpd.alt_mode_cfg_done => ~conn.is_connected /\ ~conn.process_hpd_connect

PlugNotLost == hpd.alt_mode_cfg_done /\ hpd.hpd_high => conn.is_connected \/ conn.refused

UserSeesState == conn.is_sst_connected = (conn.is_connected /\ ~conn.mst_active)

UnpluggedIsOff ==
    ~hpd.alt_mode_cfg_done =>
        ~host.core_initialized /\ ~host.ctrl_on /\ ~host.power_on /\ host.active = {}

ConnectionSettled ==
    /\ PortQuiet => DisconnectSticks /\ PlugNotLost /\ UserSeesState
    /\ AllQuiet => UnpluggedIsOff

\* HDCP talks to the sink only with the host up: host_deinit waits for a
\* running authentication and abort turns away a later one
\* (sde_hdcp_1x_abort).
AuthNeedsHost == auth_work \in {"part1", "verified"} => host.core_initialized

\* The link of a running stream is not taken down under it: handle_disconnect,
\* connect_work and unprepare end the streams first or leave the link alone.
\* PM acts on an earlier look at power_on.
LinkOutlivesStreams ==
    [][ host.active \cap host'.active # {} =>
           \/ host.ctrl_on => host'.ctrl_on
           \/ at["pm"] = "off" ]_vars

\* An unplug gets through: a disconnect that waits for the works, an
\* authentication or the session lock comes back, although the work may be
\* waiting for a commit (dp_display_disconnect_sync), and the host powers down.
DisconnectReturns == at["usb"] # "idle" ~> at["usb"] = "idle"

PowersDown == ~hpd.alt_mode_cfg_done ~> (hpd.alt_mode_cfg_done \/ ~host.core_initialized)

UnplugCompletes == DisconnectReturns /\ PowersDown

\* When off() has waited for the authentication the session is off, as the
\* comments in sde_hdcp_1x_off say.
OffIsInactive ==
    \A t \in Threads :
        /\ session_lock = t /\ at[t] \in {"low", "clean", "reset", "pre_disable"}
        /\ hdcp.status = "inactive"
        => hdcp_state = "inactive"
=============================================================================
