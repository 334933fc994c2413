-------------------------- MODULE DpDisplayProofs --------------------------
(***************************************************************************)
(* Proofs about the DisplayPort display (DpDisplay), for any number of     *)
(* streams and any number of plugs, attentions, commits and suspends.      *)
(*                                                                         *)
(* The properties speak of a port at rest.  What makes them inductive is   *)
(* what each place of the USB thread means for the work queue: once a      *)
(* disconnect has waited, nothing runs and nothing is queued until it      *)
(* comes back, and a port that is unplugged stays that way.                *)
(***************************************************************************)
EXTENDS DpDisplay, NatLemmas, SequenceTheorems, TLAPS

-----------------------------------------------------------------------------
(* The inductive invariant.                                                *)

UsbPlaces ==
    {"idle", "configure", "cancel_connect", "cancel_attention", "flush"} \cup DisconnectPlaces
WqPlaces == {"idle"} \cup ConnectPlaces \cup AttentionPlaces \cup CbPlaces
PmPlaces == {"idle", "off", "asleep"}
Places == UsbPlaces \cup WqPlaces \cup PmPlaces \cup StreamPlaces

\* A disconnect gives up what is under way, on a port that is low or gone;
\* its waits end one after the other, and what they waited for stays away.
PortInOrder ==
    /\ aborted <=> at["usb"] \notin {"idle", "configure"}
    /\ at["usb"] = "configure" => hpd.alt_mode_cfg_done
    /\ aborted => ~(hpd.alt_mode_cfg_done /\ hpd.hpd_high)
    /\ at["usb"] \in {"cancel_attention", "flush"} => at["wq"] \notin ConnectPlaces
    /\ at["usb"] \in DisconnectPlaces => wq = <<>> /\ at["wq"] = "idle"

\* What a disconnect has done stays done while the port is unplugged.
Unplugged == at["usb"] = "idle" /\ ~hpd.alt_mode_cfg_done

Disconnected ==
    /\ Unplugged => wq = <<>> /\ at["wq"] = "idle"
    /\ Unplugged \/ at["usb"] \in {"notify_low", "clean", "return"} =>
         ~conn.is_connected /\ ~conn.process_hpd_connect
    /\ Unplugged \/ at["usb"] \in {"clean", "return"} => ~conn.mst_active

Queued(q, work) == \E i \in DOMAIN q : q[i] = work

\* A sink that is there is connected, was refused, or a work sees to it.
PlugKept ==
    at["usb"] = "idle" /\ hpd.alt_mode_cfg_done /\ hpd.hpd_high =>
        \/ conn.is_connected \/ conn.refused
        \/ Queued(wq, "connect")
        \/ at["wq"] \in {"reset", "high"} \cup DisconnectPlaces

\* User space knows the connection but for the places before a notification.
Told ==
    /\ at["wq"] = "train" => conn.is_connected /\ ~conn.is_sst_connected
    /\ at["wq"] = "notify_high" => conn.is_connected
    /\ at["wq"] = "notify_low" => ~conn.is_connected
    /\ \/ at["usb"] = "notify_low" \/ at["wq"] \in {"train", "notify_high", "notify_low"}
       \/ UserSeesState

\* A host with streams is up, and each of them will be disabled.
StreamsUp ==
    /\ host.active # {} => host.core_initialized /\ host.power_on
    /\ \A s \in host.active : at[s] \in {"post_enable", "on", "pre_disable", "disable"}

\* The host of an unplugged port is off, or a stream on its way will see to it.
HostGone ==
    ~host.core_initialized /\ ~host.ctrl_on /\ ~host.power_on /\ host.active = {}

GoesDown ==
    Unplugged \/ at["usb"] = "return" => HostGone \/ \E s \in Streams : at[s] # "off"

\* Once the host was up, HDCP may run or is told to give up.
AuthInOrder ==
    /\ ~(host.core_initialized /\ abort)
    /\ host.power_on \/ auth_work # "idle" \/ at["wq"] \in CbPlaces =>
         host.core_initialized \/ abort
    /\ AuthNeedsHost

IInv ==
    /\ TypeOK /\ at \in [Threads -> Places]
    /\ PortInOrder /\ Disconnected /\ PlugKept /\ Told
    /\ StreamsUp /\ GoesDown /\ AuthInOrder

-----------------------------------------------------------------------------
(* The work queue.                                                         *)

Works == {"connect", "attention"}

\* The queue holds each work at most once.
QueueOK(q) == q \in Seq(Works) /\ IsInjective(q)

LEMMA QueueKeeps ==
  ASSUME QueueOK(wq), NEW work \in Works, Queue(work)
  PROVE  QueueOK(wq') /\ Queued(wq', work) /\ \A w : Queued(wq, w) => Queued(wq', w)
<1>1. CASE Queued(wq, work)
  BY <1>1 DEF Queue, Queued
<1>2. CASE ~Queued(wq, work)
  <2>1. wq' = Append(wq, work)
    BY <1>2 DEF Queue, Queued
  <2>2. /\ wq' \in Seq(Works) /\ Len(wq') = Len(wq) + 1
        /\ \A i \in 1 .. Len(wq) : wq'[i] = wq[i]
        /\ wq'[Len(wq) + 1] = work
    BY <2>1, AppendProperties DEF QueueOK
  <2>3. IsInjective(wq')
    BY <1>2, <2>2 DEF QueueOK, IsInjective, Queued
  <2> QED
    BY <2>2, <2>3 DEF QueueOK, Queued
<1> QED
  BY <1>1, <1>2

LEMMA DequeueKeeps ==
  ASSUME QueueOK(wq), NEW work, Dequeue(work)
  PROVE  QueueOK(wq')
<1>1. CASE wq' = wq
  BY <1>1 DEF QueueOK
<1>2. ASSUME NEW k \in 1 .. Len(wq),
             wq' \in Seq(Works), Len(wq') = Len(wq) - 1,
             \A i \in 1 .. Len(wq) - 1 : wq'[i] = IF i < k THEN wq[i] ELSE wq[i + 1]
      PROVE  QueueOK(wq')
  <2>1. \A i, j \in 1 .. Len(wq) : wq[i] = wq[j] => i = j
    BY DEF QueueOK, IsInjective
  <2>2. Len(wq) \in Nat /\ DOMAIN wq' = 1 .. Len(wq) - 1
    BY <1>2 DEF QueueOK
  <2>3. \A i, j \in 1 .. Len(wq) - 1 : wq'[i] = wq'[j] => i = j
    BY <1>2, <2>1, <2>2
  <2> QED
    BY <1>2, <2>2, <2>3 DEF QueueOK, IsInjective
<1>3. wq \in Seq(Works) /\ wq' = RemoveFirst(wq, work)
  BY DEF QueueOK, Dequeue
<1>4. Removed(wq', wq, work, Works)
  BY <1>3, RemoveFirstIs
<1>5. \/ wq' = wq
      \/ \E k \in 1 .. Len(wq) :
           /\ wq' \in Seq(Works) /\ Len(wq') = Len(wq) - 1
           /\ \A i \in 1 .. Len(wq) - 1 : wq'[i] = IF i < k THEN wq[i] ELSE wq[i + 1]
  BY <1>4 DEF Removed
<1> QED
  BY <1>1, <1>2, <1>5

LEMMA TakeKeeps ==
  ASSUME QueueOK(wq), wq # <<>>, wq' = Tail(wq)
  PROVE  /\ QueueOK(wq')
         /\ \A w : Queued(wq, w) /\ w # Head(wq) => Queued(wq', w)
<1>1. /\ Tail(wq) \in Seq(Works) /\ Len(Tail(wq)) = Len(wq) - 1
      /\ \A i \in 1 .. Len(Tail(wq)) : Tail(wq)[i] = wq[i + 1]
  BY HeadTailProperties DEF QueueOK
<1>2. IsInjective(wq')
  BY <1>1 DEF QueueOK, IsInjective
<1>3. ASSUME NEW w, Queued(wq, w), w # Head(wq) PROVE Queued(wq', w)
  <2>1. PICK i \in 1 .. Len(wq) : wq[i] = w
    BY <1>3 DEF Queued, QueueOK
  <2>2. i # 1
    BY <1>3, <2>1 DEF QueueOK
  <2>3. i - 1 \in DOMAIN wq' /\ wq'[i - 1] = w
    BY <1>1, <2>1, <2>2 DEF QueueOK
  <2> QED
    BY <2>3 DEF Queued
<1> QED
  BY <1>1, <1>2, <1>3 DEF QueueOK

-----------------------------------------------------------------------------
(* The places of the threads.                                              *)

PlacesOf(t) ==
    CASE t = "usb" -> UsbPlaces
      [] t = "wq" -> WqPlaces
      [] t = "pm" -> PmPlaces
      [] OTHER -> StreamPlaces

Placed == at \in [Threads -> Places] /\ \A t \in Threads : at[t] \in PlacesOf(t)

LEMMA GoIs ==
  ASSUME Placed, NEW t \in Threads, NEW p \in PlacesOf(t), p \in Places, Go(t, p)
  PROVE  /\ Placed' /\ at'[t] = p
         /\ \A u \in Threads : u # t => at'[u] = at[u]
  BY DEF Placed, Go

\* The data are of their types.
HpdType == [alt_mode_cfg_done : BOOLEAN, hpd_high : BOOLEAN]
ConnType ==
    [is_connected : BOOLEAN, process_hpd_connect : BOOLEAN, mst_active : BOOLEAN,
     video_test : BOOLEAN, is_sst_connected : BOOLEAN, refused : BOOLEAN]
HostType ==
    [core_initialized : BOOLEAN, ctrl_on : BOOLEAN, cancelled : BOOLEAN,
     power_on : BOOLEAN, active : SUBSET Streams, aux_off : BOOLEAN]
HdcpType ==
    [status : HdcpState, enabled : BOOLEAN, hdcp_abort : BOOLEAN,
     delayed_off : BOOLEAN, cb : BOOLEAN]

DataOK ==
    /\ hpd \in HpdType /\ conn \in ConnType /\ host \in HostType /\ hdcp \in HdcpType
    /\ aborted \in BOOLEAN /\ suspended \in BOOLEAN
    /\ session_lock \in Threads \cup {"free"}
    /\ then \in {"none", "connect", "video"} /\ reset \in BOOLEAN /\ cycle \in BOOLEAN
    /\ HdcpTypeOK

CountersOK ==
    /\ scenario \in Scenarios
    /\ plugs \in 0 .. scenario.plugs /\ attentions \in 0 .. scenario.attentions
    /\ commits \in 0 .. scenario.commits

LEMMA TypeParts ==
  TypeOK /\ at \in [Threads -> Places] <=> DataOK /\ CountersOK /\ QueueOK(wq) /\ Placed
  BY StreamsAssumption
  DEF TypeOK, DataOK, HpdType, ConnType, HostType, HdcpType, CountersOK, QueueOK, Works, Placed, PlacesOf, UsbPlaces, WqPlaces, PmPlaces,
      Places, Threads

-----------------------------------------------------------------------------
(* The host.                                                               *)

LEMMA HostOps ==
  ASSUME NEW h \in HostType
  PROVE  /\ HostInit(h) \in HostType /\ HostDeinit(h) \in HostType
         /\ CtrlOff(h) \in HostType /\ CtrlOn(h) \in HostType /\ Clean(h) \in HostType
  BY DEF HostType, HostInit, HostDeinit, CtrlOff, CtrlOn, Clean

\* Taking a host without streams down.
LEMMA TakenDown ==
  ASSUME NEW h \in HostType
  PROVE  /\ HostDeinit(Clean(h)).active = {} /\ ~HostDeinit(Clean(h)).core_initialized
         /\ ~HostDeinit(Clean(h)).ctrl_on /\ ~HostDeinit(Clean(h)).power_on
         /\ HostDeinit(CtrlOff(h)).active = h.active
         /\ HostDeinit(CtrlOff(h)).power_on = h.power_on
         /\ ~HostDeinit(CtrlOff(h)).ctrl_on
         /\ h.active # {} =>
              HostDeinit(CtrlOff(h)).core_initialized = h.core_initialized
         /\ h.active = {} => ~HostDeinit(CtrlOff(h)).core_initialized
  BY DEF HostType, HostDeinit, Clean, CtrlOff

\* Bringing it up.
LEMMA BroughtUp ==
  ASSUME NEW h \in HostType
  PROVE  /\ HostInit(h).active = h.active /\ HostInit(h).power_on = h.power_on
         /\ HostInit(h).core_initialized
         /\ HostInit(h).ctrl_on = h.ctrl_on
         /\ CtrlOn(h).active = h.active /\ CtrlOn(h).power_on = h.power_on
         /\ CtrlOn(h).core_initialized = h.core_initialized
         /\ h.ctrl_on => CtrlOn(h).ctrl_on
  BY DEF HostType, HostInit, CtrlOn

\* What each kind of training leaves of the host.
Trained(h, g) ==
    /\ g \in HostType
    /\ g.active = h.active /\ g.power_on = h.power_on
    /\ h.core_initialized => g.core_initialized
    /\ h.ctrl_on => g.ctrl_on

LEMMA TrainKeeps ==
  ASSUME host \in HostType, Train \/ Retrain
  PROVE  Trained(host, host') /\ host'.core_initialized = host.core_initialized
<1>1. CASE Train
  <2>1. \/ host' = host \/ host' = CtrlOn(host)
        \/ host' = [host EXCEPT !.aux_off = FALSE]
    BY <1>1 DEF Train, SinkGone, TrainingFailed, NotConnected, LinkUp, Attempted
  <2>2. Trained(host, CtrlOn(host)) /\ CtrlOn(host).core_initialized = host.core_initialized
    BY HostOps, BroughtUp DEF Trained
  <2>3. CASE host' = [host EXCEPT !.aux_off = FALSE]
    BY <2>3 DEF Trained, HostType
  <2>4. CASE host' = host
    BY <2>4 DEF Trained
  <2> QED
    BY <2>1, <2>2, <2>3, <2>4
<1>2. CASE Retrain
  BY <1>2 DEF Retrain, Trained, HostType
<1> QED
  BY <1>1, <1>2

LEMMA PrepareKeeps ==
  ASSUME host \in HostType, NEW s, Prepare(s)
  PROVE  \E h : Trained(host, h) /\ SetHost(h)
<1>1. Trained(host, host)
  BY DEF Trained
<1>2. ASSUME NEW h \in ShallowOn(HostInit(host)) PROVE Trained(host, h)
  <2>1. /\ HostInit(host) \in HostType /\ HostInit(host).active = host.active
        /\ HostInit(host).power_on = host.power_on /\ HostInit(host).core_initialized
        /\ HostInit(host).ctrl_on = host.ctrl_on
    BY HostOps, BroughtUp
  <2> DEFINE g == HostInit(host)
  <2> HIDE DEF g
  <2>2. /\ CtrlOn(g) \in HostType /\ CtrlOn(g).active = g.active
        /\ CtrlOn(g).power_on = g.power_on /\ CtrlOn(g).core_initialized = g.core_initialized
        /\ g.ctrl_on => CtrlOn(g).ctrl_on
    BY <2>1, HostOps, BroughtUp DEF g
  <2>3. h = CtrlOn(g) \/ h = [CtrlOn(g) EXCEPT !.aux_off = g.aux_off]
    BY DEF ShallowOn, g
  <2>4. g \in HostType /\ g.active = host.active /\ g.power_on = host.power_on
        /\ g.core_initialized /\ g.ctrl_on = host.ctrl_on
    BY <2>1 DEF g
  <2> QED
    BY <2>2, <2>3, <2>4 DEF Trained, HostType
<1> QED
  BY <1>1, <1>2 DEF Prepare

\* dp_display_unprepare leaves the host alone or takes it down.
LEMMA ReleasedHost ==
  ASSUME host \in HostType
  PROVE  /\ Released \in HostType /\ (Released.power_on => host.power_on)
         /\ host.active # {} \/ (conn.mst_active /\ ~suspended) => Released = host
         /\ ~(host.active # {} \/ (conn.mst_active /\ ~suspended)) =>
              /\ ~Released.core_initialized /\ ~Released.ctrl_on /\ ~Released.power_on
              /\ Released.active = {}
<1> DEFINE h == HostDeinit(CtrlOff(host))
<1>1. /\ h \in HostType /\ h.active = host.active /\ ~h.ctrl_on
      /\ host.active = {} => ~h.core_initialized
  BY HostOps, TakenDown
<1>2. Released = IF host.active # {} \/ (conn.mst_active /\ ~suspended) THEN host
                 ELSE [h EXCEPT !.power_on = FALSE, !.aux_off = TRUE]
  BY DEF Released
<1> HIDE DEF h
<1> QED
  BY <1>1, <1>2 DEF HostType

LEMMA SetHostIs ==
  ASSUME HdcpTypeOK, host \in HostType, NEW h \in HostType, SetHost(h)
  PROVE  /\ host' = h /\ HdcpTypeOK'
         /\ h.core_initialized = host.core_initialized => UNCHANGED hdcpvars
         /\ h.core_initialized # host.core_initialized =>
              ~AuthRunning /\ auth_work' = "idle" /\ abort' = ~h.core_initialized
  BY DEF HdcpTypeOK, HdcpState, AuthPlace, HostType, SetHost, Abort, hdcpvars

LEMMA SetHostAuth ==
  ASSUME AuthInOrder, HdcpTypeOK, host \in HostType, NEW h \in HostType, SetHost(h),
         h.power_on => host.power_on,
         at'["wq"] \in CbPlaces => at["wq"] \in CbPlaces
  PROVE  AuthInOrder'
<1>1. CASE h.core_initialized = host.core_initialized
  BY <1>1, SetHostIs DEF AuthInOrder, AuthNeedsHost, hdcpvars
<1>2. CASE h.core_initialized # host.core_initialized
  BY <1>2, SetHostIs DEF AuthInOrder, AuthNeedsHost, HostType
<1> QED
  BY <1>1, <1>2

-----------------------------------------------------------------------------
(* What a step leaves alone.                                               *)

Port == PortInOrder /\ Disconnected /\ PlugKept /\ Told

LEMMA PortKept ==
  ASSUME Port, UNCHANGED <<hpd, conn, wq, aborted>>,
         at'["usb"] = at["usb"], at'["wq"] = at["wq"]
  PROVE  Port'
<1>1. PortInOrder'
  BY DEF Port, PortInOrder
<1>2. Disconnected' /\ PlugKept'
  BY DEF Port, Disconnected, Unplugged, PlugKept
<1>3. Told'
  BY DEF Port, Told, UserSeesState
<1> QED
  BY <1>1, <1>2, <1>3 DEF Port

HostSame ==
    /\ host'.core_initialized = host.core_initialized /\ host'.ctrl_on = host.ctrl_on
    /\ host'.power_on = host.power_on /\ host'.active = host.active

Streaming == StreamsUp /\ GoesDown

LEMMA StreamingQuiet ==
  ASSUME Streaming, HostSame, host \in HostType, hpd'.alt_mode_cfg_done = hpd.alt_mode_cfg_done,
         at'["usb"] = at["usb"], \A s \in Streams : at'[s] = at[s]
  PROVE  Streaming'
  BY DEF Streaming, HostSame, StreamsUp, GoesDown, HostGone, Unplugged, HostType

LEMMA AuthQuiet ==
  ASSUME AuthInOrder, UNCHANGED <<auth_work, abort>>,
         host'.core_initialized = host.core_initialized, host'.power_on = host.power_on,
         at'["wq"] \in CbPlaces => at["wq"] \in CbPlaces
  PROVE  AuthInOrder'
  BY DEF AuthInOrder, AuthNeedsHost

-----------------------------------------------------------------------------
(* Every step keeps the types.                                             *)

Typed == DataOK /\ CountersOK /\ QueueOK(wq) /\ Placed

LEMMA HostTyped ==
  ASSUME DataOK, NEW h \in HostType, SetHost(h)
  PROVE  host' \in HostType /\ HdcpTypeOK'
  BY SetHostIs DEF DataOK

LEMMA NotifiedTyped ==
  ASSUME DataOK, NEW state \in HdcpState
  PROVE  Notified(hdcp, state) \in HdcpType
  BY DEF DataOK, Notified, HdcpState, HdcpType

LEMMA OffTyped ==
  ASSUME DataOK, NEW t \in Threads, HdcpOff(t)
  PROVE  DataOK'
<1>1. CASE HdcpOffBegin(t)
  <2>1. hdcp' \in HdcpType
    BY <1>1 DEF HdcpOffBegin, DataOK, HdcpType
  <2>2. HdcpTypeOK'
    BY <1>1 DEF HdcpOffBegin, DataOK, HdcpTypeOK, HdcpState, Off, OffBegin, hdcpvars
  <2> QED
    BY <1>1, <2>1, <2>2 DEF HdcpOffBegin, DataOK, flags, job
<1>2. CASE HdcpOffEnd(t)
  <2>1. hdcp' \in HdcpType
    BY <1>2 DEF HdcpOffEnd, DataOK, HdcpType, HdcpState, ResetStatus
  <2>2. HdcpTypeOK'
    BY <1>2 DEF HdcpOffEnd, OffEnd, DataOK, HdcpTypeOK, AuthPlace
  <2> QED
    BY <1>2, <2>1, <2>2 DEF HdcpOffEnd, DataOK, flags, place, job
<1> QED
  BY <1>1, <1>2 DEF HdcpOff

LEMMA DisconnectTyped ==
  ASSUME DataOK, NEW t \in Threads, HandleDisconnect(t)
  PROVE  DataOK'
<1>1. CASE HdcpOff(t)
  BY <1>1, OffTyped
<1>2. CASE HpdLow(t)
  <2>1. conn' \in ConnType
    BY <1>2 DEF HpdLow, DataOK, ConnType
  <2> QED
    BY <1>2, <2>1 DEF HpdLow, DataOK, HdcpTypeOK, Region, flags, job, hdcpvars
<1>3. CASE NotifyLow(t)
  <2>1. conn' \in ConnType
    BY <1>3 DEF NotifyLow, DataOK, ConnType
  <2>2. host' \in HostType
    BY <1>3 DEF NotifyLow, DataOK, HostType
  <2> QED
    BY <1>3, <2>1, <2>2 DEF NotifyLow, DataOK, HdcpTypeOK, flags, job, hdcpvars
<1>4. CASE CleanUp(t)
  <2>1. host \in HostType /\ HostDeinit(Clean(host)) \in HostType
    BY HostOps DEF DataOK
  <2>2. host' \in HostType /\ HdcpTypeOK'
    BY <1>4, <2>1, HostTyped DEF CleanUp
  <2> QED
    BY <1>4, <2>2 DEF CleanUp, DataOK, Region, flags, job
<1> QED
  BY <1>1, <1>2, <1>3, <1>4 DEF HandleDisconnect

LEMMA UsbTyped ==
  ASSUME DataOK, CountersOK, Usb
  PROVE  DataOK' /\ CountersOK'
<1>1. CASE Plug
  <2>1. plugs + 1 \in 0 .. scenario.plugs
    BY <1>1, StreamsAssumption DEF Plug, CountersOK
  <2>2. hpd' \in HpdType
    BY <1>1 DEF Plug, HpdType
  <2>3. conn' \in ConnType
    BY <1>1 DEF Plug, DataOK, ConnType
  <2> QED
    BY <1>1, <2>1, <2>2, <2>3 DEF Plug, DataOK, CountersOK, HdcpTypeOK, flags, job, hdcpvars
<1>2. CASE Configure
  <2>1. host' \in HostType /\ HdcpTypeOK'
    BY <1>2, HostOps, HostTyped DEF Configure, DataOK
  <2>2. conn' \in ConnType
    BY <1>2 DEF Configure, DataOK, ConnType
  <2> QED
    BY <1>2, <2>1, <2>2 DEF Configure, DataOK, CountersOK, Region, flags, job, counters
<1>3. ASSUME NEW irq \in BOOLEAN, AttentionHigh(irq) PROVE DataOK' /\ CountersOK'
  <2>1. attentions + 1 \in 0 .. scenario.attentions
    BY <1>3, StreamsAssumption DEF AttentionHigh, CountersOK
  <2>2. hpd' \in HpdType /\ conn' \in ConnType
    BY <1>3 DEF AttentionHigh, DataOK, HpdType, ConnType
  <2> QED
    BY <1>3, <2>1, <2>2 DEF AttentionHigh, DataOK, CountersOK, HdcpTypeOK, flags, job, hdcpvars
<1>4. CASE AttentionLow
  <2>1. attentions + 1 \in 0 .. scenario.attentions
    BY <1>4, StreamsAssumption DEF AttentionLow, CountersOK
  <2>2. hpd' \in HpdType /\ host' \in HostType
    BY <1>4 DEF AttentionLow, BeginDisconnect, DataOK, HpdType, HostType
  <2> QED
    BY <1>4, <2>1, <2>2 DEF AttentionLow, BeginDisconnect, DataOK, CountersOK, HdcpTypeOK,
       job, hdcpvars
<1>5. CASE Unplug
  <2>1. hpd' \in HpdType /\ host' \in HostType
    BY <1>5 DEF Unplug, BeginDisconnect, DataOK, HpdType, HostType
  <2> QED
    BY <1>5, <2>1 DEF Unplug, BeginDisconnect, DataOK, CountersOK, HdcpTypeOK, job, hdcpvars
<1>6. CASE CancelConnect \/ CancelAttention \/ FlushQueue \/ EndDisconnect
  BY <1>6 DEF CancelConnect, CancelAttention, FlushQueue, EndDisconnect, DataOK, CountersOK,
     HdcpTypeOK, flags, job, counters, hdcpvars
<1>7. CASE HandleDisconnect("usb")
  <2>1. UNCHANGED counters
    BY <1>7 DEF HandleDisconnect, HdcpOff, HdcpOffBegin, HdcpOffEnd, HpdLow, NotifyLow, CleanUp
  <2> QED
    BY <1>7, <2>1, DisconnectTyped DEF CountersOK, counters, Threads
<1> QED
  BY <1>1, <1>2, <1>3, <1>4, <1>5, <1>6, <1>7 DEF Usb, UsbStep

LEMMA ConnectTyped ==
  ASSUME DataOK, CountersOK, ConnectWork
  PROVE  DataOK' /\ CountersOK'
<1> USE DEF counters
<1>1. CASE StartConnect
  BY <1>1 DEF StartConnect, DataOK, CountersOK, HdcpTypeOK, flags, job, hdcpvars
<1>2. CASE ResetPanel
  <2>1. host' \in HostType /\ HdcpTypeOK'
    <3>1. CASE host.active = {}
      BY <1>2, <3>1 DEF ResetPanel, DataOK, HdcpTypeOK, hdcpvars
    <3>2. CASE host.active # {} /\ ResetByCommit
      <4>1. [host EXCEPT !.cancelled = FALSE] \in HostType
        BY DEF DataOK, HostType
      <4> QED
        BY <1>2, <3>2, <4>1, HostTyped DEF ResetPanel
    <3>3. CASE host.active # {} /\ ~ResetByCommit
      <4>1. HostDeinit(Clean(host)) \in HostType
        BY HostOps DEF DataOK
      <4> QED
        BY <1>2, <3>3, <4>1, HostTyped DEF ResetPanel
    <3> QED
      BY <3>1, <3>2, <3>3
  <2> QED
    BY <1>2, <2>1 DEF ResetPanel, DataOK, CountersOK, Region, flags, job
<1>3. CASE HpdHigh
  <2>1. CASE conn.is_connected
    BY <1>3, <2>1 DEF HpdHigh, DataOK, CountersOK, HdcpTypeOK, flags, job, hdcpvars
  <2>2. CASE ~conn.is_connected
    <3>1. host' \in HostType /\ HdcpTypeOK'
      BY <1>3, <2>2, HostOps, HostTyped DEF HpdHigh, DataOK
    <3>2. conn' \in ConnType
      BY <1>3, <2>2 DEF HpdHigh, DataOK, ConnType
    <3> QED
      BY <1>3, <2>2, <3>1, <3>2 DEF HpdHigh, DataOK, CountersOK, Threads, flags, job
  <2> QED
    BY <2>1, <2>2
<1>4. CASE Train
  <2>1. scenario.mst \in BOOLEAN
    BY StreamsAssumption DEF CountersOK
  <2>2. host' \in HostType
    BY <1>4, TrainKeeps DEF Trained, DataOK
  <2>3. conn' \in ConnType
    BY <1>4, <2>1 DEF Train, SinkGone, TrainingFailed, NotConnected, LinkUp, DataOK, ConnType
  <2> QED
    BY <1>4, <2>2, <2>3 DEF Train, DataOK, CountersOK, HdcpTypeOK, flags, job, hdcpvars
<1>5. CASE NotifyHigh
  <2>1. conn' \in ConnType
    BY <1>5 DEF NotifyHigh, DataOK, ConnType
  <2>2. host' \in HostType
    BY <1>5 DEF NotifyHigh, DataOK, HostType
  <2> QED
    BY <1>5, <2>1, <2>2 DEF NotifyHigh, DataOK, CountersOK, HdcpTypeOK, flags, job, hdcpvars
<1>6. CASE ModeChange \/ ModeChanged
  BY <1>6 DEF ModeChange, ModeChanged, DataOK, CountersOK, HdcpTypeOK, flags, job, hdcpvars
<1> QED
  BY <1>1, <1>2, <1>3, <1>4, <1>5, <1>6 DEF ConnectWork

LEMMA AttentionTyped ==
  ASSUME DataOK, CountersOK, AttentionWork
  PROVE  DataOK' /\ CountersOK'
<1> USE DEF counters
<1>0. CASE Retrain
  <2>1. host' \in HostType
    BY <1>0, TrainKeeps DEF Trained, DataOK
  <2> QED
    BY <1>0, <2>1 DEF Retrain, DataOK, CountersOK, HdcpTypeOK, flags, job, hdcpvars
<1>1. CASE StartAttention
  BY <1>1 DEF StartAttention, DataOK, CountersOK, HdcpTypeOK, flags, job, hdcpvars
<1>2. ASSUME NEW r \in SinkRequests, SinkRequest(r) PROVE DataOK' /\ CountersOK'
  BY <1>2 DEF SinkRequest, DataOK, CountersOK, HdcpTypeOK, flags, hdcpvars
<1>3. CASE Reconnect
  <2>1. conn' \in ConnType
    BY <1>3 DEF Reconnect, DataOK, ConnType
  <2> QED
    BY <1>3, <2>1 DEF Reconnect, DataOK, CountersOK, HdcpTypeOK, flags, hdcpvars
<1>4. CASE SinkReauth
  <2>1. CASE UNCHANGED <<hdcp, hdcpvars>>
    BY <1>4, <2>1 DEF SinkReauth, DataOK, CountersOK, HdcpTypeOK, flags, job, hdcpvars
  <2>2. CASE CpIrq /\ hdcp' = Notified(hdcp, hdcp_state')
    <3>1. HdcpTypeOK' /\ hdcp_state' \in HdcpState
      BY <2>2 DEF CpIrq, DataOK, HdcpTypeOK, HdcpState
    <3> QED
      BY <1>4, <2>2, <3>1, NotifiedTyped DEF SinkReauth, DataOK, CountersOK, flags, job
  <2> QED
    BY <1>4, <2>1, <2>2 DEF SinkReauth
<1>5. CASE HandleDisconnect("wq")
  <2>1. UNCHANGED counters
    BY <1>5 DEF HandleDisconnect, HdcpOff, HdcpOffBegin, HdcpOffEnd, HpdLow, NotifyLow, CleanUp
  <2> QED
    BY <1>5, <2>1, DisconnectTyped DEF CountersOK, Threads
<1> QED
  BY <1>0, <1>1, <1>2, <1>3, <1>4, <1>5 DEF AttentionWork

LEMMA HdcpTyped ==
  ASSUME DataOK, CountersOK, CbWork \/ AuthWork \/ Isr
  PROVE  DataOK' /\ CountersOK'
<1> USE DEF counters
<1>1. CASE StartCb
  <2>1. hdcp' \in HdcpType
    BY <1>1 DEF StartCb, DataOK, HdcpType
  <2>2. HdcpTypeOK'
    BY <1>1 DEF StartCb, Off, OffBegin, DataOK, HdcpTypeOK, HdcpState, hdcpvars
  <2> QED
    BY <1>1, <2>1, <2>2 DEF StartCb, DataOK, CountersOK, flags, job
<1>2. CASE CbOff
  <2>1. hdcp' \in HdcpType
    BY <1>2 DEF CbOff, DataOK, HdcpType, HdcpState, ResetStatus
  <2>2. HdcpTypeOK'
    BY <1>2 DEF CbOff, OffEnd, DataOK, HdcpTypeOK, AuthPlace
  <2> QED
    BY <1>2, <2>1, <2>2 DEF CbOff, DataOK, CountersOK, flags, job
<1>3. CASE CbAct
  <2>1. scenario.hdcp \in BOOLEAN
    BY StreamsAssumption DEF CountersOK
  <2>2. hdcp' \in HdcpType
    BY <1>3, <2>1 DEF CbAct, DataOK, HdcpType, HdcpState
  <2>3. HdcpTypeOK'
    BY <1>3 DEF CbAct, ResetEngine, DataOK, HdcpTypeOK, HdcpState, hdcpvars
  <2> QED
    BY <1>3, <2>2, <2>3 DEF CbAct, DataOK, CountersOK, flags, job
<1>4. CASE CbAuthenticate
  <2>1. hdcp' \in HdcpType
    BY <1>4 DEF CbAuthenticate, DataOK, HdcpType, HdcpState
  <2>2. HdcpTypeOK'
    BY <1>4 DEF CbAuthenticate, Authenticate, DataOK, HdcpTypeOK, HdcpState, AuthPlace,
       hdcpvars
  <2> QED
    BY <1>4, <2>1, <2>2 DEF CbAuthenticate, DataOK, CountersOK, flags, job
<1>5. CASE AuthWork
  <2>1. HdcpTypeOK'
    BY <1>5 DEF AuthWork, AuthStep, AuthStart, AuthVerify, AuthSucceed, AuthFailCheck,
       AuthFail, AuthNotify, DataOK, HdcpTypeOK, HdcpState, AuthPlace
  <2>2. Notified(hdcp, hdcp_state) \in HdcpType
    BY NotifiedTyped DEF DataOK, HdcpTypeOK
  <2> QED
    BY <1>5, <2>1, <2>2 DEF AuthWork, DataOK, CountersOK, flags, place, job
<1>6. CASE Isr
  <2>1. HdcpTypeOK' /\ hdcp_state' \in HdcpState
    BY <1>6 DEF Isr, IsrAuthFail, DataOK, HdcpTypeOK, HdcpState
  <2> QED
    BY <1>6, <2>1, NotifiedTyped DEF Isr, DataOK, CountersOK, flags, place, job
<1> QED
  BY <1>1, <1>2, <1>3, <1>4, <1>5, <1>6 DEF CbWork

LEMMA StreamTyped ==
  ASSUME DataOK, CountersOK, NEW s \in Streams, Stream(s)
  PROVE  DataOK' /\ CountersOK'
<1> USE DEF counters
<1>1. CASE TurnOn(s)
  <2>1. commits + 1 \in 0 .. scenario.commits
    BY <1>1, StreamsAssumption DEF TurnOn, CountersOK
  <2> QED
    BY <1>1, <2>1 DEF TurnOn, DataOK, CountersOK, HdcpTypeOK, flags, job, hdcpvars
<1>2. CASE TurnOff(s)
  BY <1>2 DEF TurnOff, DataOK, CountersOK, HdcpTypeOK, flags, job, hdcpvars
<1>3. CASE Prepare(s)
  <2>1. \E h \in HostType : SetHost(h)
    BY <1>3, PrepareKeeps DEF Trained, DataOK
  <2>2. host' \in HostType /\ HdcpTypeOK'
    BY <2>1, HostTyped
  <2> QED
    BY <1>3, <2>2 DEF Prepare, DataOK, CountersOK, Region, flags, job
<1>4. CASE Enable(s)
  <2>1. host' \in HostType
    <3>1. host \in HostType
      BY DEF DataOK
    <3>2. \/ host' = host
          \/ host' = [host EXCEPT !.active = @ \cup {s}, !.power_on = TRUE]
      BY <1>4 DEF Enable
    <3>3. host.active \cup {s} \in SUBSET Streams
      BY <3>1 DEF HostType
    <3>4. [host EXCEPT !.active = @ \cup {s}, !.power_on = TRUE] \in HostType
      BY <3>1, <3>3 DEF HostType
    <3> QED
      BY <3>1, <3>2, <3>4
  <2> QED
    BY <1>4, <2>1 DEF Enable, DataOK, CountersOK, HdcpTypeOK, Region, flags, job, hdcpvars
<1>5. CASE PostEnable(s)
  <2>1. host' \in HostType
    BY <1>5 DEF PostEnable, DataOK, HostType
  <2>2. hdcp' \in HdcpType
    BY <1>5 DEF PostEnable, DataOK, HdcpType
  <2> QED
    BY <1>5, <2>1, <2>2 DEF PostEnable, DataOK, CountersOK, HdcpTypeOK, Region, flags, job,
       hdcpvars
<1>6. CASE HdcpOff(s)
  <2>1. UNCHANGED counters
    BY <1>6 DEF HdcpOff, HdcpOffBegin, HdcpOffEnd
  <2> QED
    BY <1>6, <2>1, OffTyped DEF CountersOK, Threads
<1>7. CASE PreDisable(s)
  <2>1. hdcp' \in HdcpType
    BY <1>7 DEF PreDisable, DataOK, HdcpType
  <2> QED
    BY <1>7, <2>1 DEF PreDisable, DataOK, CountersOK, HdcpTypeOK, Region, flags, job, hdcpvars
<1>8. CASE Disable(s)
  <2>1. host' \in HostType
    BY <1>8 DEF Disable, DataOK, HostType
  <2>2. hdcp' \in HdcpType
    BY <1>8 DEF Disable, DataOK, HdcpType
  <2> QED
    BY <1>8, <2>1, <2>2 DEF Disable, DataOK, CountersOK, HdcpTypeOK, Region, flags, job,
       hdcpvars
<1>9. CASE Unprepare(s)
  <2>1. Released \in HostType
    BY ReleasedHost DEF DataOK
  <2>2. host' \in HostType /\ HdcpTypeOK'
    BY <1>9, <2>1, HostTyped DEF Unprepare
  <2> QED
    BY <1>9, <2>2 DEF Unprepare, DataOK, CountersOK, Region, flags
<1>10. CASE Unwind(s)
  <2>1. Released \in HostType
    BY ReleasedHost DEF DataOK
  <2>2. host' \in HostType /\ HdcpTypeOK'
    BY <1>10, <2>1, HostTyped DEF Unwind
  <2> QED
    BY <1>10, <2>2 DEF Unwind, DataOK, CountersOK, Region, flags, job
<1> QED
  BY <1>1, <1>2, <1>3, <1>4, <1>5, <1>6, <1>7, <1>8, <1>9, <1>10 DEF Stream, StreamStep

LEMMA PmTyped ==
  ASSUME DataOK, CountersOK, Pm
  PROVE  DataOK' /\ CountersOK'
<1> USE DEF counters
<1>1. CASE Suspend
  <2>1. host' \in HostType
    BY <1>1 DEF Suspend, DataOK, ConnType, HostType
  <2> QED
    BY <1>1, <2>1 DEF Suspend, DataOK, CountersOK, HdcpTypeOK, job, hdcpvars
<1>2. CASE PmOff
  <2>1. host \in HostType /\ HostDeinit(CtrlOff(host)) \in HostType
    BY HostOps DEF DataOK
  <2>2. [HostDeinit(CtrlOff(host)) EXCEPT !.aux_off = TRUE] \in HostType
    BY <2>1 DEF HostType
  <2>3. host' \in HostType /\ HdcpTypeOK'
    BY <1>2, <2>2, HostTyped DEF PmOff
  <2> QED
    BY <1>2, <2>3 DEF PmOff, DataOK, CountersOK, flags, job
<1>3. CASE Resume
  <2>1. host' \in HostType
    BY <1>3 DEF Resume, DataOK, ConnType, HostType
  <2> QED
    BY <1>3, <2>1 DEF Resume, DataOK, CountersOK, HdcpTypeOK, job, hdcpvars
<1> QED
  BY <1>1, <1>2, <1>3 DEF Pm

LEMMA DataStep ==
  ASSUME DataOK, CountersOK, [Next]_vars
  PROVE  DataOK' /\ CountersOK'
<1>1. CASE UNCHANGED vars
  BY <1>1 DEF vars, flags, place, job, counters, hdcpvars, DataOK, CountersOK, HdcpTypeOK
<1> QED
  BY <1>1, UsbTyped, ConnectTyped, AttentionTyped, HdcpTyped, StreamTyped, PmTyped
  DEF Next, WqStep

-----------------------------------------------------------------------------
(* Every step keeps the queue and leaves each thread at a place of its own.*)

LEMMA Names ==
  /\ Streams \subseteq Threads /\ {"usb", "wq", "pm"} \subseteq Threads
  /\ \A s \in Streams : s \notin {"usb", "wq", "pm", "free"}
  /\ PlacesOf("usb") = UsbPlaces /\ PlacesOf("wq") = WqPlaces
  /\ PlacesOf("pm") = PmPlaces
  /\ \A s \in Streams : PlacesOf(s) = StreamPlaces
  BY StreamsAssumption DEF Threads, PlacesOf

LEMMA PlacesArePlaces ==
  ASSUME NEW t \in Threads, NEW p \in PlacesOf(t)
  PROVE  p \in Places
<1>1. t \in {"usb", "wq", "pm"} \/ t \in Streams
  BY DEF Threads
<1> QED
  BY <1>1, Names DEF Places

LEMMA Goes ==
  ASSUME Placed, NEW t \in Threads, NEW p \in PlacesOf(t), Go(t, p)
  PROVE  /\ Placed' /\ at'[t] = p
         /\ \A u \in Threads : u # t => at'[u] = at[u]
  BY GoIs, PlacesArePlaces

LEMMA DisconnectPlaced ==
  ASSUME Placed, NEW t \in {"usb", "wq"}, HandleDisconnect(t)
  PROVE  /\ Placed' /\ wq' = wq
         /\ \A u \in Threads : u # t => at'[u] = at[u]
<1>1. t \in Threads /\ {"notify_low", "clean", "return"} \subseteq PlacesOf(t)
  BY Names DEF UsbPlaces, WqPlaces, AttentionPlaces, DisconnectPlaces
<1>2. CASE HdcpOff(t)
  BY <1>2 DEF HdcpOff, HdcpOffBegin, HdcpOffEnd, place, Placed
<1>3. CASE HpdLow(t)
  BY <1>1, <1>3, Goes DEF HpdLow
<1>4. CASE NotifyLow(t)
  BY <1>1, <1>4, Goes DEF NotifyLow
<1>5. CASE CleanUp(t)
  BY <1>1, <1>5, Goes DEF CleanUp
<1> QED
  BY <1>2, <1>3, <1>4, <1>5 DEF HandleDisconnect

LEMMA UsbPlaced ==
  ASSUME QueueOK(wq), Placed, Usb
  PROVE  QueueOK(wq') /\ Placed'
<1>0. /\ "usb" \in Threads /\ PlacesOf("usb") = UsbPlaces
      /\ {"idle", "configure", "cancel_connect", "cancel_attention", "flush", "low"}
           \subseteq UsbPlaces
  BY Names DEF UsbPlaces, DisconnectPlaces
<1>1. CASE Plug
  BY <1>0, <1>1, Goes DEF Plug
<1>2. CASE Configure
  <2>1. QueueOK(wq')
    BY <1>2, QueueKeeps DEF Configure, Works
  <2> QED
    BY <1>0, <1>2, <2>1, Goes DEF Configure
<1>3. ASSUME NEW irq \in BOOLEAN, AttentionHigh(irq) PROVE QueueOK(wq') /\ Placed'
  <2>1. wq' = wq \/ Queue("attention") \/ Queue("connect")
    BY <1>3 DEF AttentionHigh
  <2>2. QueueOK(wq')
    BY <2>1, QueueKeeps DEF Works
  <2> QED
    BY <1>3, <2>2 DEF AttentionHigh, Placed
<1>4. CASE AttentionLow \/ Unplug
  BY <1>0, <1>4, Goes DEF AttentionLow, Unplug, BeginDisconnect
<1>5. CASE CancelConnect
  <2>1. QueueOK(wq')
    BY <1>5, DequeueKeeps DEF CancelConnect
  <2> QED
    BY <1>0, <1>5, <2>1, Goes DEF CancelConnect
<1>6. CASE CancelAttention
  <2>1. QueueOK(wq')
    BY <1>6, DequeueKeeps DEF CancelAttention
  <2> QED
    BY <1>0, <1>6, <2>1, Goes DEF CancelAttention
<1>7. CASE FlushQueue \/ EndDisconnect
  BY <1>0, <1>7, Goes DEF FlushQueue, EndDisconnect
<1>8. CASE HandleDisconnect("usb")
  BY <1>8, DisconnectPlaced
<1> QED
  BY <1>1, <1>2, <1>3, <1>4, <1>5, <1>6, <1>7, <1>8 DEF Usb, UsbStep

LEMMA WqNames ==
  /\ "wq" \in Threads /\ PlacesOf("wq") = WqPlaces
  /\ {"idle", "reset", "high", "train", "notify_high", "commit", "cycle", "attention",
      "cp_irq", "retrain", "low", "cb_off", "cb_act", "authenticate"} \subseteq WqPlaces
  BY Names DEF WqPlaces, ConnectPlaces, AttentionPlaces, DisconnectPlaces, CbPlaces

\* A mode change sends the work and the stream on together.
LEMMA ModeChangePlaced ==
  ASSUME Placed, ModeChange
  PROVE  /\ Placed' /\ wq' = wq /\ at'["usb"] = at["usb"]
         /\ \/ at' = [at EXCEPT !["wq"] = "idle"]
            \/ at' = [at EXCEPT !["wq"] = "cycle", ![s0] = "pre_disable"] /\ at[s0] = "on"
<1>1. wq' = wq
  BY DEF ModeChange
<1>2. CASE Go("wq", "idle")
  BY <1>1, <1>2, WqNames, Names, Goes DEF Go
<1>3. CASE at' = [at EXCEPT !["wq"] = "cycle", ![s0] = "pre_disable"] /\ at[s0] = "on"
  <2>1. /\ s0 \in Threads /\ s0 # "wq" /\ s0 # "usb" /\ PlacesOf(s0) = StreamPlaces
        /\ "cycle" \in Places /\ "pre_disable" \in Places
    BY Names, StreamsAssumption DEF Places, WqPlaces, ConnectPlaces, StreamPlaces
  <2>2. /\ at'["wq"] = "cycle" /\ at'[s0] = "pre_disable"
        /\ \A u \in Threads : u \notin {"wq", s0} => at'[u] = at[u]
        /\ at' \in [Threads -> Places]
    <3> DEFINE there == [at EXCEPT !["wq"] = "cycle"]
    <3>1. /\ there \in [Threads -> Places] /\ there["wq"] = "cycle"
          /\ \A u \in Threads : u # "wq" => there[u] = at[u]
      BY <2>1, WqNames DEF Placed
    <3>2. at' = [there EXCEPT ![s0] = "pre_disable"]
      BY <1>3
    <3> HIDE DEF there
    <3> QED
      BY <2>1, <3>1, <3>2
  <2>3. "cycle" \in PlacesOf("wq") /\ "pre_disable" \in PlacesOf(s0)
    BY <2>1, WqNames DEF StreamPlaces
  <2> QED
    BY <1>1, <1>3, <2>1, <2>2, <2>3, Names DEF Placed
<1> QED
  BY <1>2, <1>3 DEF ModeChange

LEMMA WqPlaced ==
  ASSUME QueueOK(wq), Placed, WqStep
  PROVE  QueueOK(wq') /\ Placed'
<1>1. CASE StartConnect
  <2>1. QueueOK(wq')
    BY <1>1, TakeKeeps DEF StartConnect
  <2>2. Go("wq", "idle") \/ Go("wq", "reset")
    BY <1>1 DEF StartConnect
  <2> QED
    BY <2>1, <2>2, WqNames, Goes
<1>2. CASE ResetPanel
  BY <1>2, WqNames, Goes DEF ResetPanel
<1>3. CASE HpdHigh
  <2>1. Go("wq", "commit") \/ Go("wq", "train")
    BY <1>3 DEF HpdHigh
  <2> QED
    BY <1>3, <2>1, WqNames, Goes DEF HpdHigh
<1>4. CASE Train
  <2>1. Go("wq", "commit") \/ Go("wq", "notify_high")
    BY <1>4 DEF Train, SinkGone, TrainingFailed, NotConnected, LinkUp
  <2> QED
    BY <1>4, <2>1, WqNames, Goes DEF Train
<1>5. CASE NotifyHigh \/ ModeChanged \/ Retrain \/ SinkReauth
  BY <1>5, WqNames, Goes DEF NotifyHigh, ModeChanged, Retrain, SinkReauth
<1>6. CASE ModeChange
  BY <1>6, ModeChangePlaced
<1>7. CASE StartAttention
  <2>1. QueueOK(wq')
    BY <1>7, TakeKeeps DEF StartAttention
  <2> QED
    BY <1>7, <2>1, WqNames, Goes DEF StartAttention
<1>8. ASSUME NEW r \in SinkRequests, SinkRequest(r) PROVE QueueOK(wq') /\ Placed'
  <2>1. \E p \in {"idle", "cp_irq", "retrain", "low"} : Go("wq", p)
    BY <1>8 DEF SinkRequest
  <2> QED
    BY <1>8, <2>1, WqNames, Goes DEF SinkRequest
<1>9. CASE Reconnect
  <2>1. wq' = wq \/ Queue("connect")
    BY <1>9 DEF Reconnect
  <2>2. QueueOK(wq')
    BY <2>1, QueueKeeps DEF Works
  <2> QED
    BY <1>9, <2>2, WqNames, Goes DEF Reconnect
<1>10. CASE HandleDisconnect("wq")
  BY <1>10, DisconnectPlaced
<1>11. CASE CbWork
  <2>1. \/ UNCHANGED at
        \/ \E p \in {"idle", "cb_off", "cb_act", "authenticate"} : Go("wq", p)
    BY <1>11 DEF CbWork, StartCb, CbOff, CbAct, CbAuthenticate
  <2>2. wq' = wq
    BY <1>11 DEF CbWork, StartCb, CbOff, CbAct, CbAuthenticate
  <2>3. CASE UNCHANGED at
    BY <2>2, <2>3 DEF Placed
  <2>4. CASE \E p \in {"idle", "cb_off", "cb_act", "authenticate"} : Go("wq", p)
    BY <2>2, <2>4, WqNames, Goes
  <2> QED
    BY <2>1, <2>3, <2>4
<1> QED
  BY <1>1, <1>2, <1>3, <1>4, <1>5, <1>6, <1>7, <1>8, <1>9, <1>10, <1>11
  DEF WqStep, ConnectWork, AttentionWork

LEMMA StreamPlaced ==
  ASSUME Placed, NEW s \in Streams, Stream(s)
  PROVE  /\ Placed' /\ wq' = wq
         /\ \A u \in Threads : u # s => at'[u] = at[u]
<1>1. s \in Threads /\ PlacesOf(s) = StreamPlaces
  BY Names
<1>2. wq' = wq
  BY DEF Stream, TurnOn, TurnOff, StreamStep, Prepare, Enable, Unwind, PostEnable, HdcpOff,
     HdcpOffBegin, HdcpOffEnd, PreDisable, Disable, Unprepare, place
<1>3. CASE HdcpOff(s)
  BY <1>2, <1>3 DEF HdcpOff, HdcpOffBegin, HdcpOffEnd, place, Placed
<1>4. CASE ~HdcpOff(s)
  <2>1. \E p \in StreamPlaces : Go(s, p)
    BY <1>4 DEF Stream, TurnOn, TurnOff, StreamStep, Prepare, Enable, Unwind, PostEnable,
       PreDisable, Disable, Unprepare, StreamPlaces
  <2> QED
    BY <1>1, <1>2, <2>1, Goes
<1> QED
  BY <1>3, <1>4

LEMMA PmPlaced ==
  ASSUME Placed, Pm
  PROVE  /\ Placed' /\ wq' = wq
         /\ \A u \in Threads : u # "pm" => at'[u] = at[u]
<1>1. wq' = wq /\ \E p \in {"idle", "off", "asleep"} : Go("pm", p)
  BY DEF Pm, Suspend, PmOff, Resume
<1> QED
  BY <1>1, Names, Goes DEF PmPlaces

LEMMA TypedStep ==
  ASSUME Typed, [Next]_vars
  PROVE  Typed'
<1>1. DataOK' /\ CountersOK'
  BY DataStep DEF Typed
<1>2. QueueOK(wq') /\ Placed'
  <2>1. CASE UNCHANGED vars \/ AuthWork \/ Isr
    BY <2>1 DEF vars, place, AuthWork, Isr, Typed, Placed
  <2> QED
    BY <2>1, UsbPlaced, WqPlaced, StreamPlaced, PmPlaced DEF Next, Typed
<1> QED
  BY <1>1, <1>2 DEF Typed

-----------------------------------------------------------------------------
(* Where a step leaves the threads.                                        *)

LEMMA UsbGoes ==
  ASSUME Placed, NEW p \in UsbPlaces, Go("usb", p)
  PROVE  /\ at'["usb"] = p /\ at'["wq"] = at["wq"] /\ at'["pm"] = at["pm"]
         /\ \A s \in Streams : at'[s] = at[s]
<1>1. /\ at'["usb"] = p
      /\ \A u \in Threads : u # "usb" => at'[u] = at[u]
  BY Names, Goes
<1> QED
  BY <1>1, Names

LEMMA WqGoes ==
  ASSUME Placed, NEW p \in WqPlaces, Go("wq", p)
  PROVE  /\ at'["wq"] = p /\ at'["usb"] = at["usb"] /\ at'["pm"] = at["pm"]
         /\ \A s \in Streams : at'[s] = at[s]
<1>1. /\ at'["wq"] = p
      /\ \A u \in Threads : u # "wq" => at'[u] = at[u]
  BY Names, Goes
<1> QED
  BY <1>1, Names

LEMMA StreamGoes ==
  ASSUME Placed, NEW s \in Streams, NEW p \in StreamPlaces, Go(s, p)
  PROVE  /\ at'[s] = p /\ at'["wq"] = at["wq"] /\ at'["usb"] = at["usb"]
         /\ at'["pm"] = at["pm"]
         /\ \A r \in Streams : r # s => at'[r] = at[r]
<1>1. /\ at'[s] = p
      /\ \A u \in Threads : u # s => at'[u] = at[u]
  BY Names, Goes
<1> QED
  BY <1>1, Names

\* While a work is there, no disconnect is past its waits.
LEMMA WorkHolds ==
  ASSUME Port, wq # <<>> \/ at["wq"] # "idle"
  PROVE  at["usb"] \notin DisconnectPlaces /\ ~Unplugged
  BY DEF Port, PortInOrder, Disconnected

-----------------------------------------------------------------------------
(* The steps of the USB thread keep the port in order.                     *)

LEMMA UsbPort ==
  ASSUME Typed, Port, Usb
  PROVE  Port'
<1> USE DEF Port, PortInOrder, Disconnected, Unplugged, PlugKept, Told, UserSeesState,
    DisconnectPlaces
<1>0. /\ {"idle", "configure", "cancel_connect", "cancel_attention", "flush", "low",
          "notify_low", "clean", "return"} \subseteq UsbPlaces
      /\ Placed /\ QueueOK(wq) /\ conn \in ConnType /\ hpd \in HpdType
  BY DEF UsbPlaces, Typed, DataOK
<1>1. CASE Plug
  <2>1. /\ at'["usb"] = "configure" /\ at'["wq"] = "idle" /\ at["usb"] = "idle"
        /\ wq' = wq /\ aborted' = aborted /\ hpd'.alt_mode_cfg_done
    BY <1>0, <1>1, UsbGoes DEF Plug, flags
  <2>2. /\ conn'.is_connected = conn.is_connected /\ conn'.mst_active = conn.mst_active
        /\ conn'.is_sst_connected = conn.is_sst_connected
    BY <1>0, <1>1 DEF Plug, ConnType
  <2> QED
    BY <1>1, <2>1, <2>2 DEF Plug
<1>2. CASE Configure
  <2>1. /\ at'["usb"] = "idle" /\ at'["wq"] = at["wq"] /\ at["usb"] = "configure"
        /\ hpd' = hpd /\ aborted' = aborted
    BY <1>0, <1>2, UsbGoes DEF Configure, flags
  <2>2. /\ conn'.is_connected = conn.is_connected /\ conn'.mst_active = conn.mst_active
        /\ conn'.is_sst_connected = conn.is_sst_connected
    BY <1>0, <1>2 DEF Configure, ConnType
  <2>3. hpd.hpd_high => Queued(wq', "connect")
    BY <1>0, <1>2, QueueKeeps DEF Configure, Works
  <2> QED
    BY <2>1, <2>2, <2>3
<1>3. ASSUME NEW irq \in BOOLEAN, AttentionHigh(irq) PROVE Port'
  <2>1. /\ at' = at /\ at["usb"] = "idle" /\ aborted' = aborted
        /\ hpd'.alt_mode_cfg_done /\ hpd.alt_mode_cfg_done
    BY <1>0, <1>3 DEF AttentionHigh, flags, HpdType
  <2>2. /\ conn'.is_connected = conn.is_connected /\ conn'.mst_active = conn.mst_active
        /\ conn'.is_sst_connected = conn.is_sst_connected
        /\ conn'.refused = (conn.refused /\ irq)
    BY <1>0, <1>3 DEF AttentionHigh, ConnType
  <2>3. irq /\ Queued(wq, "connect") => Queued(wq', "connect")
    <3>1. wq' = wq \/ Queue("attention") \/ Queue("connect")
      BY <1>3 DEF AttentionHigh
    <3> QED
      BY <1>0, <3>1, QueueKeeps DEF Works
  <2>4. ~irq => conn.is_connected \/ Queued(wq', "connect")
    <3>1. ~irq => conn.is_connected \/ Queue("connect")
      BY <1>3 DEF AttentionHigh
    <3> QED
      BY <1>0, <3>1, QueueKeeps DEF Works
  <2>5. irq => hpd.hpd_high
    BY <1>3 DEF AttentionHigh
  <2> QED
    BY <2>1, <2>2, <2>3, <2>4, <2>5
<1>4. CASE AttentionLow \/ Unplug
  <2>1. /\ at'["usb"] = "cancel_connect" /\ at'["wq"] = at["wq"] /\ at["usb"] = "idle"
        /\ conn' = conn /\ wq' = wq /\ aborted'
    BY <1>0, <1>4, UsbGoes DEF AttentionLow, Unplug, BeginDisconnect
  <2>2. ~(hpd'.alt_mode_cfg_done /\ hpd'.hpd_high)
    BY <1>0, <1>4 DEF AttentionLow, Unplug, HpdType
  <2> QED
    BY <2>1, <2>2
<1>5. CASE CancelConnect \/ CancelAttention
  <2>1. conn' = conn /\ hpd' = hpd /\ aborted' = aborted
    BY <1>5 DEF CancelConnect, CancelAttention, flags
  <2>2. /\ at'["wq"] = at["wq"]
        /\ \/ /\ at["usb"] = "cancel_connect" /\ at'["usb"] = "cancel_attention"
              /\ at["wq"] \notin ConnectPlaces
           \/ at["usb"] = "cancel_attention" /\ at'["usb"] = "flush"
    BY <1>0, <1>5, UsbGoes DEF CancelConnect, CancelAttention
  <2> QED
    BY <2>1, <2>2
<1>6. CASE FlushQueue
  <2>1. /\ at["usb"] = "flush" /\ at'["usb"] = "low"
        /\ at'["wq"] = "idle" /\ at["wq"] = "idle" /\ wq' = <<>>
        /\ conn' = conn /\ hpd' = hpd /\ aborted' = aborted
    BY <1>0, <1>6, UsbGoes DEF FlushQueue, flags
  <2> QED
    BY <2>1
<1>7. CASE EndDisconnect
  <2>1. /\ at["usb"] = "return" /\ at'["usb"] = "idle" /\ at'["wq"] = at["wq"]
        /\ wq' = wq /\ conn' = conn /\ hpd' = hpd /\ aborted' = FALSE
    BY <1>0, <1>7, UsbGoes DEF EndDisconnect
  <2> QED
    BY <2>1
<1>8. CASE HdcpOff("usb")
  BY <1>8, PortKept DEF HdcpOff, HdcpOffBegin, HdcpOffEnd, place, flags
<1>9. CASE HpdLow("usb")
  <2>1. /\ at["usb"] = "low" /\ at'["usb"] = "notify_low" /\ at'["wq"] = at["wq"]
        /\ wq' = wq /\ hpd' = hpd /\ aborted' = aborted
    BY <1>0, <1>9, UsbGoes DEF HpdLow, flags
  <2>2. ~conn'.is_connected /\ ~conn'.process_hpd_connect
    BY <1>0, <1>9 DEF HpdLow, ConnType
  <2> QED
    BY <2>1, <2>2
<1>10. CASE NotifyLow("usb")
  <2>1. /\ at["usb"] = "notify_low" /\ at'["usb"] = "clean" /\ at'["wq"] = at["wq"]
        /\ wq' = wq /\ hpd' = hpd /\ aborted' = aborted
    BY <1>0, <1>10, UsbGoes DEF NotifyLow, flags
  <2>2. /\ conn'.is_connected = conn.is_connected /\ ~conn'.mst_active
        /\ conn'.process_hpd_connect = conn.process_hpd_connect
        /\ conn'.is_sst_connected = conn.is_connected
    BY <1>0, <1>10 DEF NotifyLow, ConnType
  <2>3. conn.is_connected = FALSE /\ ~conn.process_hpd_connect
    BY <1>0, <2>1 DEF ConnType
  <2>4. UserSeesState'
    BY <2>2, <2>3
  <2> QED
    BY <2>1, <2>2, <2>3, <2>4
<1>11. CASE CleanUp("usb")
  <2>1. /\ at["usb"] = "clean" /\ at'["usb"] = "return" /\ at'["wq"] = at["wq"]
        /\ wq' = wq /\ hpd' = hpd /\ conn' = conn /\ aborted' = aborted
    BY <1>0, <1>11, UsbGoes DEF CleanUp, flags
  <2> QED
    BY <2>1
<1> QED
  BY <1>1, <1>2, <1>3, <1>4, <1>5, <1>6, <1>7, <1>8, <1>9, <1>10, <1>11
  DEF Usb, UsbStep, HandleDisconnect

-----------------------------------------------------------------------------
(* The steps of the work queue keep the port in order.                     *)

LEMMA ConnectPort ==
  ASSUME Typed, Port, ConnectWork
  PROVE  Port'
<1> USE DEF Port, PortInOrder, Disconnected, Unplugged, PlugKept, Told, UserSeesState,
    DisconnectPlaces, ConnectPlaces
<1>0. /\ {"idle", "reset", "high", "train", "notify_high", "commit", "cycle"} \subseteq WqPlaces
      /\ Placed /\ QueueOK(wq) /\ conn \in ConnType
  BY DEF WqPlaces, Typed, DataOK
<1>1. CASE StartConnect
  <2>1. /\ at["wq"] = "idle" /\ wq # <<>> /\ at'["usb"] = at["usb"]
        /\ at'["wq"] = (IF aborted \/ ~hpd.hpd_high THEN "idle" ELSE "reset")
        /\ conn' = conn /\ hpd' = hpd /\ aborted' = aborted
    BY <1>0, <1>1, WqGoes DEF StartConnect, flags
  <2> QED
    BY <2>1
<1>2. CASE ResetPanel
  <2>1. /\ at["wq"] = "reset" /\ at'["usb"] = at["usb"] /\ at'["wq"] = "high"
        /\ wq' = wq /\ conn' = conn /\ hpd' = hpd /\ aborted' = aborted
    BY <1>0, <1>2, WqGoes DEF ResetPanel, flags
  <2> QED
    BY <2>1
<1>3. CASE HpdHigh
  <2>1. /\ at["wq"] = "high" /\ at'["usb"] = at["usb"]
        /\ wq' = wq /\ hpd' = hpd /\ aborted' = aborted
    BY <1>0, <1>3, WqGoes DEF HpdHigh, flags
  <2>2. CASE conn.is_connected
    <3>1. at'["wq"] = "commit" /\ conn' = conn
      BY <1>0, <1>3, <2>2, WqGoes DEF HpdHigh
    <3> QED
      BY <2>1, <2>2, <3>1
  <2>3. CASE ~conn.is_connected
    <3>1. /\ at'["wq"] = "train" /\ conn'.is_connected
          /\ conn'.is_sst_connected = conn.is_sst_connected
      BY <1>0, <1>3, <2>3, WqGoes DEF HpdHigh, ConnType
    <3> QED
      BY <2>1, <2>3, <3>1
  <2> QED
    BY <2>2, <2>3
<1>4. CASE Train
  <2>1. /\ at["wq"] = "train" /\ at'["usb"] = at["usb"]
        /\ wq' = wq /\ hpd' = hpd /\ aborted' = aborted
        /\ conn'.is_sst_connected = conn.is_sst_connected
        /\ \/ at'["wq"] = "commit" /\ ~conn'.is_connected /\ conn'.refused
           \/ at'["wq"] = "notify_high" /\ conn'.is_connected = conn.is_connected
    <3>1. CASE SinkGone \/ TrainingFailed
      <4>1. /\ conn'.is_sst_connected = conn.is_sst_connected
            /\ ~conn'.is_connected /\ conn'.refused
        BY <1>0, <3>1 DEF SinkGone, TrainingFailed, NotConnected, ConnType
      <4>2. at'["wq"] = "commit" /\ at'["usb"] = at["usb"]
        BY <1>0, <3>1, WqGoes DEF SinkGone, TrainingFailed, NotConnected
      <4> QED
        BY <1>4, <4>1, <4>2 DEF Train, flags
    <3>2. CASE LinkUp
      <4>1. /\ conn'.is_sst_connected = conn.is_sst_connected
            /\ conn'.is_connected = conn.is_connected
        BY <1>0, <3>2 DEF LinkUp, ConnType
      <4>2. at'["wq"] = "notify_high" /\ at'["usb"] = at["usb"]
        BY <1>0, <3>2, WqGoes DEF LinkUp
      <4> QED
        BY <1>4, <4>1, <4>2 DEF Train, flags
    <3> QED
      BY <1>4, <3>1, <3>2 DEF Train
  <2>2. conn.is_sst_connected = FALSE
    BY <1>0, <2>1 DEF ConnType
  <2> QED
    BY <2>1, <2>2
<1>5. CASE NotifyHigh
  <2>1. /\ at["wq"] = "notify_high" /\ at'["usb"] = at["usb"] /\ at'["wq"] = "commit"
        /\ wq' = wq /\ hpd' = hpd /\ aborted' = aborted
    BY <1>0, <1>5, WqGoes DEF NotifyHigh, flags
  <2>2. /\ conn'.is_connected = conn.is_connected /\ conn'.mst_active = conn.mst_active
        /\ conn'.is_sst_connected = (~conn.mst_active /\ conn.is_connected)
    BY <1>0, <1>5 DEF NotifyHigh, ConnType
  <2> QED
    BY <2>1, <2>2
<1>6. CASE ModeChange
  <2>1. /\ at'["usb"] = at["usb"] /\ at["wq"] = "commit" /\ at'["wq"] \in {"idle", "cycle"}
        /\ wq' = wq /\ conn' = conn /\ hpd' = hpd /\ aborted' = aborted
    <3>1. /\ at'["usb"] = at["usb"] /\ wq' = wq
          /\ \/ at' = [at EXCEPT !["wq"] = "idle"]
             \/ at' = [at EXCEPT !["wq"] = "cycle", ![s0] = "pre_disable"]
      BY <1>0, <1>6, ModeChangePlaced
    <3>2. at'["wq"] \in {"idle", "cycle"}
      BY <1>0, <3>1, Names, StreamsAssumption DEF Placed
    <3> QED
      BY <1>6, <3>1, <3>2 DEF ModeChange, flags
  <2> QED
    BY <2>1
<1>7. CASE ModeChanged
  <2>1. /\ at'["usb"] = at["usb"] /\ at["wq"] = "cycle" /\ at'["wq"] = "idle"
        /\ wq' = wq /\ conn' = conn /\ hpd' = hpd /\ aborted' = aborted
    BY <1>0, <1>7, WqGoes DEF ModeChanged, flags
  <2> QED
    BY <2>1
<1> QED
  BY <1>1, <1>2, <1>3, <1>4, <1>5, <1>6, <1>7 DEF ConnectWork

LEMMA AttentionPort ==
  ASSUME Typed, Port, AttentionWork
  PROVE  Port'
<1> USE DEF Port, PortInOrder, Disconnected, Unplugged, PlugKept, Told, UserSeesState,
    DisconnectPlaces, ConnectPlaces
<1>0. /\ {"idle", "attention", "cp_irq", "retrain", "low", "notify_low", "clean", "return"}
           \subseteq WqPlaces
      /\ Placed /\ QueueOK(wq) /\ conn \in ConnType
  BY DEF WqPlaces, AttentionPlaces, Typed, DataOK
<1>1. CASE StartAttention
  <2>1. /\ at["wq"] = "idle" /\ wq # <<>> /\ at'["usb"] = at["usb"]
        /\ at'["wq"] = "attention" /\ conn' = conn /\ hpd' = hpd /\ aborted' = aborted
    BY <1>0, <1>1, WqGoes DEF StartAttention, flags
  <2>2. Queued(wq, "connect") => Queued(wq', "connect")
    BY <1>0, <1>1, TakeKeeps DEF StartAttention
  <2> QED
    BY <2>1, <2>2
<1>2. ASSUME NEW r \in SinkRequests, SinkRequest(r) PROVE Port'
  <2>1. \E p \in {"idle", "cp_irq", "retrain", "low"} : Go("wq", p)
    BY <1>2 DEF SinkRequest
  <2>2. at'["usb"] = at["usb"] /\ at'["wq"] \in {"idle", "cp_irq", "retrain", "low"}
    BY <1>0, <2>1, WqGoes
  <2>3. /\ at["wq"] = "attention"
        /\ wq' = wq /\ conn' = conn /\ hpd' = hpd /\ aborted' = aborted
    BY <1>2 DEF SinkRequest, flags
  <2> QED
    BY <2>2, <2>3
<1>3. CASE Reconnect
  <2>1. /\ at["wq"] = "return" /\ at'["usb"] = at["usb"] /\ at'["wq"] = "idle"
        /\ hpd' = hpd /\ aborted' = aborted
    BY <1>0, <1>3, WqGoes DEF Reconnect, flags
  <2>2. /\ conn'.is_connected = conn.is_connected /\ conn'.mst_active = conn.mst_active
        /\ conn'.is_sst_connected = conn.is_sst_connected
        /\ conn'.refused = (then = "none")
    BY <1>0, <1>3 DEF Reconnect, ConnType
  <2>3. then = "none" \/ Queued(wq', "connect")
    BY <1>0, <1>3, QueueKeeps DEF Reconnect, Works
  <2> QED
    BY <2>1, <2>2, <2>3
<1>4. CASE Retrain \/ SinkReauth
  <2>1. /\ at["wq"] \in {"retrain", "cp_irq"} /\ at'["usb"] = at["usb"] /\ at'["wq"] = "idle"
        /\ wq' = wq /\ conn' = conn /\ hpd' = hpd /\ aborted' = aborted
    BY <1>0, <1>4, WqGoes DEF Retrain, SinkReauth, flags
  <2> QED
    BY <2>1
<1>5. CASE HdcpOff("wq")
  BY <1>5, PortKept DEF HdcpOff, HdcpOffBegin, HdcpOffEnd, place, flags
<1>6. CASE HpdLow("wq")
  <2>1. /\ at["wq"] = "low" /\ at'["wq"] = "notify_low" /\ at'["usb"] = at["usb"]
        /\ wq' = wq /\ hpd' = hpd /\ aborted' = aborted
    BY <1>0, <1>6, WqGoes DEF HpdLow, flags
  <2>2. ~conn'.is_connected
    BY <1>0, <1>6 DEF HpdLow, ConnType
  <2> QED
    BY <2>1, <2>2
<1>7. CASE NotifyLow("wq")
  <2>1. /\ at["wq"] = "notify_low" /\ at'["wq"] = "clean" /\ at'["usb"] = at["usb"]
        /\ wq' = wq /\ hpd' = hpd /\ aborted' = aborted
    BY <1>0, <1>7, WqGoes DEF NotifyLow, flags
  <2>2. /\ conn'.is_connected = conn.is_connected /\ ~conn'.mst_active
        /\ conn'.is_sst_connected = conn.is_connected
    BY <1>0, <1>7 DEF NotifyLow, ConnType
  <2>3. conn.is_connected = FALSE
    BY <1>0, <2>1 DEF ConnType
  <2>4. UserSeesState'
    BY <2>2, <2>3
  <2> QED
    BY <2>1, <2>4
<1>8. CASE CleanUp("wq")
  <2>1. /\ at["wq"] = "clean" /\ at'["wq"] = "return" /\ at'["usb"] = at["usb"]
        /\ wq' = wq /\ hpd' = hpd /\ conn' = conn /\ aborted' = aborted
    BY <1>0, <1>8, WqGoes DEF CleanUp, flags
  <2> QED
    BY <2>1
<1> QED
  BY <1>1, <1>2, <1>3, <1>4, <1>5, <1>6, <1>7, <1>8 DEF AttentionWork, HandleDisconnect

LEMMA CbPort ==
  ASSUME Typed, Port, CbWork
  PROVE  Port'
<1>0. {"idle", "cb_off", "cb_act", "authenticate"} \subseteq WqPlaces /\ Placed
  BY DEF WqPlaces, CbPlaces, Typed
<1>1. UNCHANGED <<hpd, conn, wq, aborted>>
  BY DEF CbWork, StartCb, CbOff, CbAct, CbAuthenticate, flags
<1>2. CASE UNCHANGED at
  BY <1>1, <1>2, PortKept
<1>3. CASE ~UNCHANGED at
  <2>1. \E p \in {"idle", "cb_off", "cb_act", "authenticate"} : Go("wq", p)
    BY <1>3 DEF CbWork, StartCb, CbOff, CbAct, CbAuthenticate
  <2>2. /\ at'["usb"] = at["usb"]
        /\ at'["wq"] \in {"idle", "cb_off", "cb_act", "authenticate"}
    BY <1>0, <2>1, WqGoes
  <2>3. at["wq"] \in {"idle"} \cup CbPlaces
    BY DEF CbWork, StartCb, CbOff, CbAct, CbAuthenticate, CbPlaces
  <2>4. at["wq"] # "idle" \/ MayRun
    BY <1>3 DEF CbWork, StartCb, CbOff, CbAct, CbAuthenticate
  <2> QED
    BY <1>1, <2>2, <2>3, <2>4 DEF Port, PortInOrder, Disconnected, Unplugged, PlugKept, Told,
       UserSeesState, DisconnectPlaces, ConnectPlaces, CbPlaces, MayRun
<1> QED
  BY <1>2, <1>3

LEMMA PortStep ==
  ASSUME Typed, Port, [Next]_vars
  PROVE  Port'
<1>0. Placed
  BY DEF Typed
<1>1. CASE UNCHANGED vars \/ AuthWork \/ Isr
  BY <1>1, PortKept DEF vars, place, flags, AuthWork, Isr
<1>2. ASSUME NEW s \in Streams, Stream(s) PROVE Port'
  <2>1. at'["usb"] = at["usb"] /\ at'["wq"] = at["wq"] /\ wq' = wq
    BY <1>0, <1>2, StreamPlaced, Names
  <2>2. UNCHANGED <<hpd, conn, aborted>>
    BY <1>2 DEF Stream, TurnOn, TurnOff, StreamStep, Prepare, Enable, Unwind, PostEnable, HdcpOff,
       HdcpOffBegin, HdcpOffEnd, PreDisable, Disable, Unprepare, flags
  <2> QED
    BY <2>1, <2>2, PortKept
<1>3. CASE Pm
  <2>1. at'["usb"] = at["usb"] /\ at'["wq"] = at["wq"] /\ wq' = wq
    BY <1>0, <1>3, PmPlaced, Names
  <2>2. UNCHANGED <<hpd, conn, aborted>>
    BY <1>3 DEF Pm, Suspend, PmOff, Resume, flags
  <2> QED
    BY <2>1, <2>2, PortKept
<1> QED
  BY <1>1, <1>2, <1>3, UsbPort, ConnectPort, AttentionPort, CbPort DEF Next, WqStep

-----------------------------------------------------------------------------
(* Every step leaves the host of a running stream up, and that of an       *)
(* unplugged port down.                                                    *)

LEMMA DisconnectStreaming ==
  ASSUME Typed, Port, Streaming, NEW t \in {"usb", "wq"}, HandleDisconnect(t)
  PROVE  Streaming'
<1>0. Placed /\ host \in HostType
  BY DEF Typed, DataOK
<1>1. /\ \A s \in Streams : at'[s] = at[s]
      /\ t = "wq" => at'["usb"] = at["usb"]
  <2>1. t = "wq" => "usb" # t /\ \A s \in Streams : s # t
    BY Names
  <2>2. t = "usb" => \A s \in Streams : s # t
    BY Names
  <2>3. t = "usb" \/ t = "wq"
    OBVIOUS
  <2> QED
    BY <1>0, <2>1, <2>2, <2>3, DisconnectPlaced, Names
<1>2. hpd' = hpd
  BY DEF HandleDisconnect, HdcpOff, HdcpOffBegin, HdcpOffEnd, HpdLow, NotifyLow, CleanUp
<1>3. t = "wq" => at["usb"] \notin DisconnectPlaces /\ ~Unplugged
  <2>1. at[t] \in DisconnectPlaces \cup {"reset", "pre_disable"}
    BY DEF HandleDisconnect, HdcpOff, HdcpOffBegin, HdcpOffEnd, WantsOff, HpdLow, NotifyLow,
       CleanUp, DisconnectPlaces
  <2>2. t = "wq" => at["wq"] # "idle"
    BY <2>1 DEF DisconnectPlaces
  <2> QED
    BY <2>2, WorkHolds
<1>4. CASE HdcpOff(t)
  <2>1. HostSame /\ UNCHANGED at
    BY <1>4 DEF HdcpOff, HdcpOffBegin, HdcpOffEnd, HostSame, place
  <2> QED
    BY <1>0, <1>2, <2>1, StreamingQuiet
<1>5. CASE HpdLow(t) \/ NotifyLow(t)
  <2>1. HostSame
    BY <1>0, <1>5 DEF HpdLow, NotifyLow, HostSame, HostType
  <2>2. t = "usb" => at'["usb"] \in {"notify_low", "clean"}
    BY <1>0, <1>5, UsbGoes DEF HpdLow, NotifyLow, UsbPlaces, DisconnectPlaces
  <2> QED
    BY <1>0, <1>1, <1>2, <1>3, <2>1, <2>2 DEF Streaming, StreamsUp, GoesDown, HostSame,
       Unplugged, DisconnectPlaces, HostType
<1>6. CASE CleanUp(t)
  <2>1. t = "usb" => at'["usb"] = "return"
    BY <1>0, <1>6, UsbGoes DEF CleanUp, UsbPlaces, DisconnectPlaces
  <2>2. CASE host.active = {}
    <3>1. host' = HostDeinit(Clean(host))
      BY <1>6, <2>2 DEF CleanUp, SetHost
    <3>2. HostGone'
      BY <1>0, <3>1, TakenDown DEF HostGone
    <3> QED
      BY <3>2 DEF Streaming, StreamsUp, GoesDown, HostGone
  <2>3. CASE host.active # {}
    <3>1. host' = host
      BY <1>6, <2>3 DEF CleanUp, SetHost
    <3>2. \E s \in Streams : at[s] # "off"
      BY <1>0, <2>3 DEF HostType, Streaming, StreamsUp
    <3> QED
      BY <1>0, <1>1, <3>1, <3>2 DEF Streaming, StreamsUp, GoesDown, HostType
  <2> QED
    BY <2>2, <2>3
<1> QED
  BY <1>4, <1>5, <1>6 DEF HandleDisconnect

LEMMA UsbStreaming ==
  ASSUME Typed, Port, Streaming, Usb
  PROVE  Streaming'
<1> USE DEF Streaming, StreamsUp, GoesDown, Unplugged
<1>0. /\ {"idle", "configure", "cancel_connect", "cancel_attention", "flush", "low"}
           \subseteq UsbPlaces
      /\ Placed /\ host \in HostType /\ hpd \in HpdType
  BY DEF UsbPlaces, DisconnectPlaces, Typed, DataOK
<1>1. CASE Plug
  <2>1. /\ at'["usb"] = "configure" /\ host' = host
        /\ \A s \in Streams : at'[s] = at[s]
    BY <1>0, <1>1, UsbGoes DEF Plug
  <2> QED
    BY <1>0, <2>1 DEF HostType
<1>2. CASE Configure
  <2>1. /\ hpd'.alt_mode_cfg_done /\ at'["usb"] = "idle"
        /\ \A s \in Streams : at'[s] = at[s]
    BY <1>0, <1>2, UsbGoes DEF Configure, Port, PortInOrder
  <2>2. host' = HostInit(host)
    BY <1>2 DEF Configure, SetHost
  <2>3. host'.active = host.active /\ host'.power_on = host.power_on /\ host'.core_initialized
    BY <1>0, <2>2, BroughtUp
  <2> QED
    BY <1>0, <2>1, <2>3 DEF HostType
<1>3. ASSUME NEW irq \in BOOLEAN, AttentionHigh(irq) PROVE Streaming'
  <2>1. hpd'.alt_mode_cfg_done /\ at["usb"] = "idle" /\ UNCHANGED <<host, at>>
    BY <1>0, <1>3 DEF AttentionHigh, HpdType
  <2> QED
    BY <1>0, <2>1 DEF HostType
<1>4. CASE AttentionLow \/ Unplug
  <2>1. at'["usb"] = "cancel_connect" /\ \A s \in Streams : at'[s] = at[s]
    BY <1>0, <1>4, UsbGoes DEF AttentionLow, Unplug, BeginDisconnect
  <2>2. HostSame
    BY <1>0, <1>4 DEF AttentionLow, Unplug, BeginDisconnect, HostSame, HostType
  <2> QED
    BY <1>0, <2>1, <2>2 DEF HostSame, HostType
<1>5. CASE CancelConnect \/ CancelAttention \/ FlushQueue
  <2>1. /\ at'["usb"] \in {"cancel_attention", "flush", "low"}
        /\ \A s \in Streams : at'[s] = at[s]
    BY <1>0, <1>5, UsbGoes DEF CancelConnect, CancelAttention, FlushQueue
  <2>2. host' = host
    BY <1>5 DEF CancelConnect, CancelAttention, FlushQueue
  <2> QED
    BY <1>0, <2>1, <2>2 DEF HostType
<1>6. CASE EndDisconnect
  <2>1. /\ at["usb"] = "return" /\ host' = host /\ hpd' = hpd
        /\ \A s \in Streams : at'[s] = at[s]
    BY <1>0, <1>6, UsbGoes DEF EndDisconnect
  <2> QED
    BY <1>0, <2>1 DEF HostType, HostGone
<1>7. CASE HandleDisconnect("usb")
  BY <1>7, DisconnectStreaming
<1> QED
  BY <1>1, <1>2, <1>3, <1>4, <1>5, <1>6, <1>7 DEF Usb, UsbStep

LEMMA WqStreaming ==
  ASSUME Typed, Port, Streaming, WqStep
  PROVE  Streaming'
<1>0. Placed /\ host \in HostType
  BY DEF Typed, DataOK
\* A step of a work that is there, on the same streams.
<1> DEFINE Holds == (wq # <<>> \/ at["wq"] # "idle") /\ at'["usb"] = at["usb"] /\ hpd' = hpd
           Same == \A s \in Streams : at'[s] = at[s]
           Up == host'.active # {} => /\ host'.active = host.active
                                      /\ host'.core_initialized = host.core_initialized
                                      /\ host'.power_on = host.power_on
<1>1. ASSUME Holds, Same, Up PROVE Streaming'
  BY <1>0, <1>1, WorkHolds DEF Streaming, StreamsUp, GoesDown, Unplugged, DisconnectPlaces,
     HostType
<1>2. CASE StartConnect \/ NotifyHigh \/ ModeChanged \/ StartAttention \/ Reconnect
           \/ Retrain \/ SinkReauth
  <2>1. at'["usb"] = at["usb"] /\ Same
    <3>1. \E p \in WqPlaces : Go("wq", p)
      BY <1>2, WqNames DEF StartConnect, NotifyHigh, ModeChanged, StartAttention, Reconnect,
         Retrain, SinkReauth
    <3> QED
      BY <1>0, <3>1, WqGoes
  <2>2. (wq # <<>> \/ at["wq"] # "idle") /\ hpd' = hpd
    BY <1>2 DEF StartConnect, NotifyHigh, ModeChanged, StartAttention, Reconnect, Retrain,
       SinkReauth
  <2>3. Up
    BY <1>0, <1>2 DEF StartConnect, NotifyHigh, ModeChanged, StartAttention, Reconnect,
       Retrain, SinkReauth, HostType
  <2> QED
    BY <1>1, <2>1, <2>2, <2>3
<1>3. CASE ResetPanel
  <2>1. Holds /\ Same
    BY <1>0, <1>3, WqNames, WqGoes DEF ResetPanel
  <2>2. Up
    <3>1. CASE host.active = {}
      BY <1>3, <3>1 DEF ResetPanel
    <3>2. CASE host.active # {} /\ ResetByCommit
      BY <1>0, <1>3, <3>2 DEF ResetPanel, SetHost, HostType
    <3>3. CASE host.active # {} /\ ~ResetByCommit
      <4>1. host' = HostDeinit(Clean(host))
        BY <1>3, <3>3 DEF ResetPanel, SetHost
      <4> QED
        BY <1>0, <4>1, TakenDown
    <3> QED
      BY <3>1, <3>2, <3>3
  <2> QED
    BY <1>1, <2>1, <2>2
<1>4. CASE HpdHigh
  <2>1. Holds /\ Same
    <3>1. Go("wq", "commit") \/ Go("wq", "train")
      BY <1>4 DEF HpdHigh
    <3> QED
      BY <1>0, <1>4, <3>1, WqNames, WqGoes DEF HpdHigh
  <2>2. host' = host \/ host' = HostInit(host)
    BY <1>4 DEF HpdHigh, SetHost
  <2>3. /\ host'.active = host.active /\ host'.power_on = host.power_on
        /\ host'.core_initialized = host.core_initialized \/ host'.core_initialized
    BY <1>0, <2>2, BroughtUp
  <2>4. ~Unplugged /\ at["usb"] # "return"
    BY <2>1, WorkHolds DEF DisconnectPlaces
  <2> QED
    BY <1>0, <2>1, <2>3, <2>4 DEF Streaming, StreamsUp, GoesDown, Unplugged, HostType
<1>5. CASE Train
  <2>1. Holds /\ Same
    <3>1. Go("wq", "commit") \/ Go("wq", "notify_high")
      BY <1>5 DEF Train, SinkGone, TrainingFailed, NotConnected, LinkUp
    <3> QED
      BY <1>0, <1>5, <3>1, WqNames, WqGoes DEF Train
  <2>2. Up
    BY <1>0, <1>5, TrainKeeps DEF Trained
  <2> QED
    BY <1>1, <2>1, <2>2
<1>6. CASE ModeChange
  <2>1. /\ Placed' /\ at'["usb"] = at["usb"]
        /\ \/ at' = [at EXCEPT !["wq"] = "idle"]
           \/ at' = [at EXCEPT !["wq"] = "cycle", ![s0] = "pre_disable"] /\ at[s0] = "on"
    BY <1>0, <1>6, ModeChangePlaced
  <2>2. \A s \in Streams : \/ at'[s] = at[s]
                           \/ at[s] = "on" /\ at'[s] = "pre_disable"
    BY <1>0, <2>1, Names, StreamsAssumption DEF Placed
  <2>3. Holds /\ host' = host
    BY <1>6, <2>1 DEF ModeChange
  <2>4. ~Unplugged /\ at["usb"] # "return"
    BY <2>3, WorkHolds DEF DisconnectPlaces
  <2> QED
    BY <1>0, <2>2, <2>3, <2>4 DEF Streaming, StreamsUp, GoesDown, Unplugged, HostType
<1>7. ASSUME NEW r \in SinkRequests, SinkRequest(r) PROVE Streaming'
  <2>1. \E p \in {"idle", "cp_irq", "retrain", "low"} : Go("wq", p)
    BY <1>7 DEF SinkRequest
  <2>2. at'["usb"] = at["usb"] /\ Same
    BY <1>0, <2>1, WqNames, WqGoes
  <2>3. at["wq"] # "idle" /\ hpd' = hpd /\ host' = host
    BY <1>7 DEF SinkRequest
  <2> QED
    BY <1>1, <2>2, <2>3
<1>8. CASE HandleDisconnect("wq")
  BY <1>8, DisconnectStreaming
<1>9. CASE CbWork
  <2>1. at'["usb"] = at["usb"] /\ Same
    <3>1. UNCHANGED at \/ \E p \in WqPlaces : Go("wq", p)
      BY <1>9, WqNames DEF CbWork, StartCb, CbOff, CbAct, CbAuthenticate
    <3> QED
      BY <1>0, <3>1, WqGoes
  <2>2. hpd' = hpd /\ HostSame
    BY <1>9 DEF CbWork, StartCb, CbOff, CbAct, CbAuthenticate, HostSame
  <2> QED
    BY <1>0, <2>1, <2>2, StreamingQuiet
<1> QED
  BY <1>2, <1>3, <1>4, <1>5, <1>6, <1>7, <1>8, <1>9 DEF WqStep, ConnectWork, AttentionWork

LEMMA StreamStreaming ==
  ASSUME Typed, Port, Streaming, NEW s \in Streams, Stream(s)
  PROVE  Streaming'
<1>0. Placed /\ host \in HostType
  BY DEF Typed, DataOK
<1> USE DEF Streaming, StreamsUp, GoesDown, Unplugged
<1>1. at'["usb"] = at["usb"] /\ hpd' = hpd /\ \A r \in Streams : r # s => at'[r] = at[r]
  <2>1. hpd' = hpd
    BY DEF Stream, TurnOn, TurnOff, StreamStep, Prepare, Enable, Unwind, PostEnable, HdcpOff,
       HdcpOffBegin, HdcpOffEnd, PreDisable, Disable, Unprepare
  <2> QED
    BY <1>0, <2>1, StreamPlaced, Names
<1>2. CASE TurnOn(s) \/ TurnOff(s) \/ PostEnable(s) \/ PreDisable(s)
  <2>1. \/ at[s] = "off" /\ at'[s] = "prepare"
        \/ at[s] = "on" /\ at'[s] = "pre_disable"
        \/ at[s] = "post_enable" /\ at'[s] = "on"
        \/ at[s] = "pre_disable" /\ at'[s] = "disable"
    BY <1>0, <1>2, StreamGoes DEF TurnOn, TurnOff, PostEnable, PreDisable, StreamPlaces
  <2>2. HostSame
    BY <1>0, <1>2 DEF TurnOn, TurnOff, PostEnable, PreDisable, HostSame, HostType
  <2> QED
    BY <1>0, <1>1, <2>1, <2>2 DEF HostSame, HostType
<1>3. CASE Prepare(s)
  <2>1. at[s] = "prepare" /\ at'[s] = "enable"
    BY <1>0, <1>3, StreamGoes DEF Prepare, StreamPlaces
  <2>2. PICK h : Trained(host, h) /\ SetHost(h)
    BY <1>0, <1>3, PrepareKeeps
  <2>3. /\ host'.active = host.active /\ host'.power_on = host.power_on
        /\ host.core_initialized => host'.core_initialized
    BY <2>2 DEF SetHost, Trained
  <2> QED
    BY <1>0, <1>1, <2>1, <2>3 DEF HostType
<1>4. CASE Enable(s)
  <2>1. /\ at[s] = "enable" /\ at'[s] \in {"unwind", "post_enable"}
        /\ at'[s] = "unwind" => host' = host
    <3>1. at[s] = "enable"
      BY <1>4 DEF Enable
    <3>2. CASE Go(s, "post_enable")
      BY <1>0, <3>1, <3>2, StreamGoes DEF StreamPlaces
    <3>3. CASE Go(s, "unwind") /\ host' = host
      BY <1>0, <3>1, <3>3, StreamGoes DEF StreamPlaces
    <3> QED
      BY <1>4, <3>2, <3>3 DEF Enable
  <2>2. \/ host' = host
        \/ /\ host.core_initialized /\ host'.core_initialized = host.core_initialized
           /\ host'.power_on /\ host'.active = host.active \cup {s}
    BY <1>0, <1>4 DEF Enable, HostType
  <2> QED
    BY <1>0, <1>1, <2>1, <2>2 DEF HostType
<1>5. CASE HdcpOff(s)
  <2>1. HostSame /\ UNCHANGED at
    BY <1>5 DEF HdcpOff, HdcpOffBegin, HdcpOffEnd, HostSame, place
  <2> QED
    BY <1>0, <1>1, <2>1, StreamingQuiet
<1>6. CASE Disable(s)
  <2>1. at[s] = "disable" /\ at'[s] = "unprepare"
    BY <1>0, <1>6, StreamGoes DEF Disable, StreamPlaces
  <2>2. \/ host' = host /\ ~(host.core_initialized /\ host.power_on)
        \/ /\ host'.core_initialized = host.core_initialized
           /\ host'.power_on = host.power_on /\ host'.active = host.active \ {s}
    BY <1>0, <1>6 DEF Disable, HostType
  <2> QED
    BY <1>0, <1>1, <2>1, <2>2 DEF HostType
<1>7. CASE Unprepare(s) \/ Unwind(s)
  <2>1. /\ at[s] \in {"unprepare", "unwind"}
        /\ at'[s] \in {"prepare", "off", "post_enable"}
    BY <1>0, <1>7, StreamGoes DEF Unprepare, Unwind, StreamPlaces
  <2>2. host' = Released
    BY <1>7 DEF Unprepare, Unwind, SetHost
  <2>3. CASE host.active # {} \/ (conn.mst_active /\ ~suspended)
    <3>1. host' = host
      BY <1>0, <2>2, <2>3, ReleasedHost
    <3>2. Unplugged \/ at["usb"] = "return" => host.active # {}
      BY <2>3 DEF Port, Disconnected
    <3>3. \A r \in host.active : r \in Streams /\ r # s /\ at[r] # "off"
      BY <1>0, <2>1 DEF HostType
    <3>4. Unplugged' \/ at'["usb"] = "return" => \E r \in Streams : at'[r] # "off"
      BY <1>1, <3>2, <3>3
    <3> QED
      BY <1>0, <1>1, <2>1, <3>1, <3>3, <3>4
  <2>4. CASE ~(host.active # {} \/ (conn.mst_active /\ ~suspended))
    <3>1. HostGone'
      BY <1>0, <2>2, <2>4, ReleasedHost DEF HostGone
    <3> QED
      BY <3>1 DEF HostGone
  <2> QED
    BY <2>3, <2>4
<1> QED
  BY <1>2, <1>3, <1>4, <1>5, <1>6, <1>7 DEF Stream, StreamStep

LEMMA PmStreaming ==
  ASSUME Typed, Streaming, Pm
  PROVE  Streaming'
<1>0. Placed /\ host \in HostType
  BY DEF Typed, DataOK
<1>1. /\ at'["usb"] = at["usb"] /\ hpd' = hpd /\ \A s \in Streams : at'[s] = at[s]
  <2>1. hpd' = hpd
    BY DEF Pm, Suspend, PmOff, Resume
  <2> QED
    BY <1>0, <2>1, PmPlaced, Names
<1>2. CASE Suspend \/ Resume
  <2>1. HostSame
    BY <1>0, <1>2 DEF Suspend, Resume, HostSame, HostType
  <2> QED
    BY <1>0, <1>1, <2>1, StreamingQuiet
<1>3. CASE PmOff
  <2> DEFINE h == HostDeinit(CtrlOff(host))
  <2>1. host' = [h EXCEPT !.aux_off = TRUE]
    BY <1>3 DEF PmOff, SetHost
  <2>2. /\ h \in HostType /\ h.active = host.active /\ h.power_on = host.power_on
        /\ ~h.ctrl_on
        /\ host.active # {} => h.core_initialized = host.core_initialized
        /\ host.active = {} => ~h.core_initialized
    BY <1>0, HostOps, TakenDown
  <2> HIDE DEF h
  <2>3. /\ host'.active = h.active /\ host'.power_on = h.power_on
        /\ host'.ctrl_on = h.ctrl_on /\ host'.core_initialized = h.core_initialized
    BY <2>1, <2>2 DEF HostType
  <2> QED
    BY <1>0, <1>1, <2>2, <2>3 DEF Streaming, StreamsUp, GoesDown, HostGone, Unplugged, HostType
<1> QED
  BY <1>2, <1>3 DEF Pm

LEMMA StreamingStep ==
  ASSUME Typed, Port, Streaming, [Next]_vars
  PROVE  Streaming'
<1>1. CASE UNCHANGED vars \/ AuthWork \/ Isr
  <2>1. HostSame /\ hpd' = hpd /\ UNCHANGED at
    BY <1>1 DEF vars, place, AuthWork, Isr, HostSame
  <2> QED
    BY <2>1, StreamingQuiet DEF Typed, DataOK
<1> QED
  BY <1>1, UsbStreaming, WqStreaming, StreamStreaming, PmStreaming DEF Next

-----------------------------------------------------------------------------
(* Every step keeps the authentication to a host that is up.               *)

LEMMA DisconnectAuth ==
  ASSUME Typed, AuthInOrder, NEW t \in {"usb", "wq"}, HandleDisconnect(t)
  PROVE  AuthInOrder'
<1>0. Placed /\ host \in HostType /\ HdcpTypeOK /\ WqPlaces = PlacesOf("wq")
  BY Names DEF Typed, DataOK
<1>1. at'["wq"] \in CbPlaces => at["wq"] \in CbPlaces
  <2>1. CASE HdcpOff(t)
    BY <2>1 DEF HdcpOff, HdcpOffBegin, HdcpOffEnd, place
  <2>2. CASE ~HdcpOff(t) /\ t = "wq"
    <3>1. at'["wq"] \in {"notify_low", "clean", "return"}
      BY <1>0, <2>2, WqGoes DEF HandleDisconnect, HpdLow, NotifyLow, CleanUp, WqPlaces,
         AttentionPlaces, DisconnectPlaces
    <3> QED
      BY <3>1 DEF CbPlaces
  <2>3. CASE t = "usb"
    BY <1>0, <2>3, DisconnectPlaced, Names
  <2> QED
    BY <2>1, <2>2, <2>3
<1>2. CASE HdcpOffBegin(t)
  <2>1. UNCHANGED <<auth_work, abort, host>>
    BY <1>2 DEF HdcpOffBegin, Off, OffBegin, hdcpvars
  <2> QED
    BY <1>1, <2>1, AuthQuiet
<1>3. CASE HdcpOffEnd(t)
  BY <1>3 DEF HdcpOffEnd, OffEnd, place, AuthInOrder, AuthNeedsHost
<1>4. CASE HpdLow(t) \/ NotifyLow(t)
  <2>1. /\ host'.core_initialized = host.core_initialized /\ host'.power_on = host.power_on
        /\ UNCHANGED <<auth_work, abort>>
    BY <1>0, <1>4 DEF HpdLow, NotifyLow, HostType, hdcpvars
  <2> QED
    BY <1>1, <2>1, AuthQuiet
<1>5. CASE CleanUp(t)
  <2>1. /\ host \in HostType /\ HostDeinit(Clean(host)) \in HostType
        /\ ~HostDeinit(Clean(host)).power_on
    BY <1>0, HostOps, TakenDown
  <2> DEFINE h == IF host.active = {} THEN HostDeinit(Clean(host)) ELSE host
  <2>2. h \in HostType /\ (h.power_on => host.power_on) /\ SetHost(h)
    BY <1>5, <2>1 DEF CleanUp
  <2> QED
    BY <1>0, <1>1, <2>2, SetHostAuth
<1> QED
  BY <1>2, <1>3, <1>4, <1>5 DEF HandleDisconnect, HdcpOff

LEMMA UsbAuth ==
  ASSUME Typed, AuthInOrder, Usb
  PROVE  AuthInOrder'
<1>0. /\ {"idle", "configure", "cancel_connect", "cancel_attention", "flush", "low"}
           \subseteq UsbPlaces
      /\ Placed /\ host \in HostType /\ HdcpTypeOK
  BY DEF UsbPlaces, DisconnectPlaces, Typed, DataOK
<1>1. CASE HandleDisconnect("usb")
  BY <1>1, DisconnectAuth
<1>2. CASE Configure
  <2>1. at'["wq"] = at["wq"] /\ SetHost(HostInit(host))
    BY <1>0, <1>2, UsbGoes DEF Configure
  <2>2. HostInit(host) \in HostType /\ HostInit(host).power_on = host.power_on
    BY <1>0, HostOps, BroughtUp
  <2> QED
    BY <1>0, <2>1, <2>2, SetHostAuth
<1>3. CASE ~HandleDisconnect("usb") /\ ~Configure
  <2>1. at'["wq"] = at["wq"]
    <3>1. UNCHANGED at \/ \E p \in UsbPlaces : Go("usb", p)
      BY <1>0, <1>3 DEF Usb, UsbStep, Plug, AttentionHigh, AttentionLow, Unplug,
         BeginDisconnect, CancelConnect, CancelAttention, FlushQueue, EndDisconnect
    <3> QED
      BY <1>0, <3>1, UsbGoes
  <2>2. /\ host'.core_initialized = host.core_initialized /\ host'.power_on = host.power_on
        /\ UNCHANGED <<auth_work, abort>>
    BY <1>0, <1>3 DEF Usb, UsbStep, Plug, AttentionHigh, AttentionLow, Unplug,
       BeginDisconnect, CancelConnect, CancelAttention, FlushQueue, EndDisconnect, HostType,
       hdcpvars
  <2> QED
    BY <2>1, <2>2, AuthQuiet
<1> QED
  BY <1>1, <1>2, <1>3

LEMMA WqAuth ==
  ASSUME Typed, AuthInOrder, ConnectWork \/ AttentionWork
  PROVE  AuthInOrder'
<1>0. Placed /\ host \in HostType /\ HdcpTypeOK
  BY DEF Typed, DataOK
<1>1. CASE HandleDisconnect("wq")
  BY <1>1, DisconnectAuth
<1> DEFINE NoCb == at'["wq"] \in CbPlaces => at["wq"] \in CbPlaces
<1>2. CASE ~HandleDisconnect("wq")
  <2>1. NoCb
    <3>1. CASE ModeChange
      <4>1. at'["wq"] = "idle" \/ at'["wq"] = "cycle"
        BY <1>0, <3>1, ModeChangePlaced, Names, StreamsAssumption DEF Placed
      <4> QED
        BY <4>1 DEF CbPlaces
    <3>2. CASE ~ModeChange
      <4>1. \E p \in WqPlaces \ CbPlaces : Go("wq", p)
        <5>1. {"idle", "reset", "high", "train", "notify_high", "commit", "attention",
               "cp_irq", "retrain", "low"} \subseteq WqPlaces \ CbPlaces
          BY DEF WqPlaces, ConnectPlaces, AttentionPlaces, DisconnectPlaces, CbPlaces
        <5>2. CASE ConnectWork
          BY <3>2, <5>1, <5>2 DEF ConnectWork, StartConnect, ResetPanel, HpdHigh, Train,
             SinkGone, TrainingFailed, NotConnected, LinkUp, NotifyHigh, ModeChanged
        <5>3. CASE AttentionWork
          BY <1>2, <5>1, <5>3 DEF AttentionWork, StartAttention, SinkRequest, Reconnect,
             Retrain, SinkReauth
        <5> QED
          BY <5>2, <5>3
      <4> QED
        BY <1>0, <4>1, WqGoes
    <3> QED
      BY <3>1, <3>2
  <2>2. CASE ResetPanel
    <3>1. CASE host.active = {}
      BY <2>1, <2>2, <3>1, AuthQuiet DEF ResetPanel, hdcpvars
    <3>2. CASE host.active # {} /\ ResetByCommit
      <4>1. /\ [host EXCEPT !.cancelled = FALSE] \in HostType
            /\ [host EXCEPT !.cancelled = FALSE].power_on = host.power_on
        BY <1>0 DEF HostType
      <4> QED
        BY <1>0, <2>1, <2>2, <3>2, <4>1, SetHostAuth DEF ResetPanel
    <3>3. CASE host.active # {} /\ ~ResetByCommit
      <4>1. /\ HostDeinit(Clean(host)) \in HostType
            /\ ~HostDeinit(Clean(host)).power_on
        BY <1>0, HostOps, TakenDown
      <4> QED
        BY <1>0, <2>1, <2>2, <3>3, <4>1, SetHostAuth DEF ResetPanel
    <3> QED
      BY <3>1, <3>2, <3>3
  <2>3. CASE HpdHigh
    <3>1. HostInit(host) \in HostType /\ HostInit(host).power_on = host.power_on
      BY <1>0, HostOps, BroughtUp
    <3>2. CASE conn.is_connected
      BY <2>1, <2>3, <3>2, AuthQuiet DEF HpdHigh, hdcpvars
    <3>3. CASE ~conn.is_connected
      BY <1>0, <2>1, <2>3, <3>1, <3>3, SetHostAuth DEF HpdHigh
    <3> QED
      BY <3>2, <3>3
  <2>4. CASE Train
    <3>1. /\ host'.core_initialized = host.core_initialized
          /\ host'.power_on = host.power_on
      BY <1>0, <2>4, TrainKeeps DEF Trained
    <3> QED
      BY <2>1, <2>4, <3>1, AuthQuiet DEF Train, hdcpvars
  <2>5. CASE ~ResetPanel /\ ~HpdHigh /\ ~Train
    <3>1. /\ host'.core_initialized = host.core_initialized
          /\ host'.power_on = host.power_on
      BY <1>0, <1>2, <2>5 DEF ConnectWork, StartConnect, NotifyHigh, ModeChange, ModeChanged,
         AttentionWork, StartAttention, SinkRequest, Reconnect, Retrain, SinkReauth, HostType
    <3>2. UNCHANGED <<auth_work, abort>>
      BY <1>2, <2>5 DEF ConnectWork, StartConnect, NotifyHigh, ModeChange, ModeChanged,
         AttentionWork, StartAttention, SinkRequest, Reconnect, Retrain, SinkReauth, CpIrq,
         hdcpvars
    <3> QED
      BY <2>1, <3>1, <3>2, AuthQuiet
  <2> QED
    BY <2>2, <2>3, <2>4, <2>5
<1> QED
  BY <1>1, <1>2

LEMMA HdcpAuth ==
  ASSUME Typed, AuthInOrder, CbWork \/ AuthWork \/ Isr
  PROVE  AuthInOrder'
<1>0. Placed /\ {"idle", "cb_off", "cb_act", "authenticate"} \subseteq WqPlaces
  BY DEF Typed, WqPlaces, CbPlaces
<1>1. host' = host
  BY DEF CbWork, StartCb, CbOff, CbAct, CbAuthenticate, AuthWork, Isr
<1>2. CASE CbWork
  <2>1. at["wq"] \in CbPlaces \/ MayRun \/ UNCHANGED at
    BY <1>2 DEF CbWork, StartCb, CbOff, CbAct, CbAuthenticate, CbPlaces
  <2>2. \/ UNCHANGED <<auth_work, abort>>
        \/ auth_work' = "idle" /\ abort' = abort
        \/ auth_work' = "queued" /\ abort' = abort /\ at["wq"] \in CbPlaces
    BY <1>2 DEF CbWork, StartCb, Off, OffBegin, CbOff, OffEnd, CbAct, ResetEngine,
       CbAuthenticate, Authenticate, CbPlaces, hdcpvars
  <2> QED
    BY <1>1, <2>1, <2>2 DEF AuthInOrder, AuthNeedsHost, MayRun
<1>3. CASE AuthWork
  <2>1. at' = at
    BY <1>3 DEF AuthWork, place
  <2> QED
    BY <1>1, <1>3, <2>1 DEF AuthWork, AuthStep, AuthStart, AuthVerify, AuthSucceed,
       AuthFailCheck, AuthFail, AuthNotify, AuthInOrder, AuthNeedsHost
<1>4. CASE Isr
  BY <1>1, <1>4, AuthQuiet DEF Isr, IsrAuthFail, place
<1> QED
  BY <1>2, <1>3, <1>4

LEMMA StreamAuth ==
  ASSUME Typed, AuthInOrder, NEW s \in Streams, Stream(s)
  PROVE  AuthInOrder'
<1>0. Placed /\ host \in HostType /\ HdcpTypeOK
  BY DEF Typed, DataOK
<1>1. at'["wq"] = at["wq"]
  BY <1>0, StreamPlaced, Names
<1>2. CASE Prepare(s)
  <2>1. PICK h : Trained(host, h) /\ SetHost(h)
    BY <1>0, <1>2, PrepareKeeps
  <2> QED
    BY <1>0, <1>1, <2>1, SetHostAuth DEF Trained
<1>3. CASE Unprepare(s) \/ Unwind(s)
  <2>1. Released \in HostType /\ (Released.power_on => host.power_on)
    BY <1>0, ReleasedHost
  <2>2. SetHost(Released)
    BY <1>3 DEF Unprepare, Unwind
  <2> QED
    BY <1>0, <1>1, <2>1, <2>2, SetHostAuth
<1>4. CASE Enable(s)
  <2>1. \/ host' = host
        \/ host.core_initialized /\ host'.core_initialized = host.core_initialized
    BY <1>0, <1>4 DEF Enable, HostType
  <2>2. UNCHANGED <<auth_work, abort>>
    BY <1>4 DEF Enable, hdcpvars
  <2> QED
    BY <1>1, <2>1, <2>2 DEF AuthInOrder, AuthNeedsHost
<1>5. CASE HdcpOffEnd(s)
  BY <1>1, <1>5 DEF HdcpOffEnd, OffEnd, AuthInOrder, AuthNeedsHost
<1>6. CASE TurnOn(s) \/ TurnOff(s) \/ PostEnable(s) \/ HdcpOffBegin(s) \/ PreDisable(s)
           \/ Disable(s)
  <2>1. /\ host'.core_initialized = host.core_initialized /\ host'.power_on = host.power_on
        /\ UNCHANGED <<auth_work, abort>>
    BY <1>0, <1>6 DEF TurnOn, TurnOff, PostEnable, HdcpOffBegin, Off, OffBegin, PreDisable,
       Disable, HostType, hdcpvars
  <2> QED
    BY <1>1, <2>1, AuthQuiet
<1> QED
  BY <1>2, <1>3, <1>4, <1>5, <1>6 DEF Stream, StreamStep, HdcpOff

LEMMA PmAuth ==
  ASSUME Typed, AuthInOrder, Pm
  PROVE  AuthInOrder'
<1>0. Placed /\ host \in HostType /\ HdcpTypeOK
  BY DEF Typed, DataOK
<1>1. at'["wq"] = at["wq"]
  BY <1>0, PmPlaced, Names
<1>2. CASE Suspend \/ Resume
  <2>1. /\ host'.core_initialized = host.core_initialized /\ host'.power_on = host.power_on
        /\ UNCHANGED <<auth_work, abort>>
    BY <1>0, <1>2 DEF Suspend, Resume, HostType, hdcpvars
  <2> QED
    BY <1>1, <2>1, AuthQuiet
<1>3. CASE PmOff
  <2>1. /\ HostDeinit(CtrlOff(host)) \in HostType
        /\ HostDeinit(CtrlOff(host)).power_on = host.power_on
    BY <1>0, HostOps, TakenDown
  <2> DEFINE h == [HostDeinit(CtrlOff(host)) EXCEPT !.aux_off = TRUE]
  <2>2. h \in HostType /\ h.power_on = host.power_on
    BY <2>1 DEF HostType
  <2>3. SetHost(h)
    BY <1>3 DEF PmOff
  <2> HIDE DEF h
  <2> QED
    BY <1>0, <1>1, <2>2, <2>3, SetHostAuth
<1> QED
  BY <1>2, <1>3 DEF Pm

LEMMA AuthKept ==
  ASSUME Typed, AuthInOrder, [Next]_vars
  PROVE  AuthInOrder'
<1>1. CASE UNCHANGED vars
  BY <1>1, AuthQuiet DEF vars, place, hdcpvars
<1> QED
  BY <1>1, UsbAuth, WqAuth, HdcpAuth, StreamAuth, PmAuth DEF Next, WqStep

-----------------------------------------------------------------------------
(* The theorems.                                                           *)

LEMMA IInvParts == IInv <=> Typed /\ Port /\ Streaming /\ AuthInOrder
  BY TypeParts DEF IInv, Typed, Port, Streaming

LEMMA InitIInv == Init => IInv
<1> SUFFICES ASSUME Init PROVE Typed /\ Port /\ Streaming /\ AuthInOrder
  BY IInvParts
<1>1. DataOK
  <2>1. /\ hpd \in HpdType /\ conn \in ConnType
    BY DEF Init, HpdType, ConnType
  <2>2. host \in HostType /\ hdcp \in HdcpType
    BY DEF Init, HostType, HdcpType, HdcpState
  <2>3. HdcpTypeOK
    BY DEF Init, HdcpInit, HdcpTypeOK, HdcpState, AuthPlace
  <2> QED
    BY <2>1, <2>2, <2>3 DEF Init, DataOK
<1>2. CountersOK
  <2>1. /\ scenario.plugs \in Nat /\ scenario.attentions \in Nat
        /\ scenario.commits \in Nat
    BY StreamsAssumption DEF Init
  <2> QED
    BY <2>1 DEF Init, CountersOK
<1>3. QueueOK(wq)
  BY DEF Init, QueueOK, IsInjective
<1>4. Placed
  <2>1. \A t \in Threads : at[t] = IF t \in Streams THEN "off" ELSE "idle"
    BY DEF Init
  <2>2. \A t \in Threads : at[t] \in PlacesOf(t)
    BY <2>1, Names DEF Threads, UsbPlaces, WqPlaces, PmPlaces, StreamPlaces
  <2>3. \A t \in Threads : at[t] \in Places
    BY <2>2, PlacesArePlaces
  <2>4. at = [t \in Threads |-> at[t]]
    BY DEF Init
  <2> QED
    BY <2>2, <2>3, <2>4 DEF Placed
<1>5. at["usb"] = "idle" /\ at["wq"] = "idle"
  BY Names DEF Init
<1>6. Port
  BY <1>5 DEF Init, Port, PortInOrder, Disconnected, Unplugged, PlugKept, Told, UserSeesState,
     ConnectPlaces, DisconnectPlaces
<1>7. Streaming
  BY DEF Init, Streaming, StreamsUp, GoesDown, HostGone
<1>8. AuthInOrder
  BY <1>5 DEF Init, HdcpInit, AuthInOrder, AuthNeedsHost, CbPlaces
<1> QED
  BY <1>1, <1>2, <1>3, <1>4, <1>6, <1>7, <1>8 DEF Typed

LEMMA NextIInv == IInv /\ [Next]_vars => IInv'
<1> SUFFICES ASSUME Typed, Port, Streaming, AuthInOrder, [Next]_vars
             PROVE  Typed' /\ Port' /\ Streaming' /\ AuthInOrder'
  <2>1. IInv' <=> Typed' /\ Port' /\ Streaming' /\ AuthInOrder'
    BY IInvParts, PTL
  <2> QED
    BY <2>1, IInvParts
<1> QED
  BY TypedStep, PortStep, StreamingStep, AuthKept

\* The inductive invariant holds in every state.
LEMMA DpInvariant == Spec => []IInv
  BY InitIInv, NextIInv, PTL DEF Spec

\* The display, its connection, its host and the authentication keep their
\* types, the work queue holds each work at most once, and every thread is at
\* a place of its own function (dp_display.c, dp_ctrl.c, sde_hdcp_1x.c).
THEOREM DpTypes == Spec => []TypeOK
<1>1. IInv => TypeOK
  BY DEF IInv
<1> QED
  BY <1>1, DpInvariant, PTL

\* HDCP talks to the sink only with the host up, for any number of streams
\* and however plugs, commits and suspends meet: whoever takes the host down
\* waits for a running authentication and turns away the next one
\* (dp_display_host_deinit, sde_hdcp_1x_abort).
THEOREM DpAuthNeedsHost == Spec => []AuthNeedsHost
<1>1. IInv => AuthNeedsHost
  BY DEF IInv, AuthInOrder
<1> QED
  BY <1>1, DpInvariant, PTL

\* At rest the display is what the port and the commits last said: a
\* disconnect sticks, a plug is not lost, user space was told, and an
\* unplugged display without streams is off (dp_display_disconnect_sync,
\* dp_display_process_hpd_high, dp_display_handle_disconnect).
THEOREM DpConnectionSettled == Spec => []ConnectionSettled
<1>1. IInv => ConnectionSettled
  <2> SUFFICES ASSUME IInv PROVE ConnectionSettled
    OBVIOUS
  <2>1. Typed /\ Port /\ Streaming
    BY IInvParts
  <2>2. PortQuiet => DisconnectSticks
    BY <2>1 DEF Port, Disconnected, Unplugged, PortQuiet, DisconnectSticks
  <2>3. PortQuiet => PlugNotLost
    BY <2>1 DEF Port, PlugKept, Queued, PortQuiet, PlugNotLost, DisconnectPlaces
  <2>4. PortQuiet => UserSeesState
    BY <2>1 DEF Port, Told, PortQuiet
  <2>5. AllQuiet => UnpluggedIsOff
    BY <2>1 DEF Streaming, GoesDown, HostGone, Unplugged, PortQuiet, AllQuiet, UnpluggedIsOff
  <2> QED
    BY <2>2, <2>3, <2>4, <2>5 DEF ConnectionSettled
<1> QED
  BY <1>1, DpInvariant, PTL

-----------------------------------------------------------------------------
(* The link of a running stream.                                           *)

LEMMA LinkStep ==
  ASSUME Typed, Next, host.active \cap host'.active # {}, host.ctrl_on
  PROVE  host'.ctrl_on \/ at["pm"] = "off"
<1>0. host \in HostType
  BY DEF Typed, DataOK
<1>1. ASSUME NEW t, CleanUp(t) PROVE host'.ctrl_on
  <2>1. host.active # {}
    OBVIOUS
  <2> QED
    BY <1>1, <2>1 DEF CleanUp, SetHost
<1>2. ASSUME NEW t, HandleDisconnect(t) PROVE host'.ctrl_on
  BY <1>0, <1>1, <1>2 DEF HandleDisconnect, HdcpOff, HdcpOffBegin, HdcpOffEnd, HpdLow,
     NotifyLow, HostType
<1>3. CASE Usb
  <2>1. CASE Configure
    <3>1. host' = HostInit(host)
      BY <2>1 DEF Configure, SetHost
    <3> QED
      BY <1>0, <3>1, BroughtUp
  <2>2. CASE ~Configure
    BY <1>0, <1>2, <1>3, <2>2 DEF Usb, UsbStep, Plug, AttentionHigh, AttentionLow, Unplug,
       BeginDisconnect, CancelConnect, CancelAttention, FlushQueue, EndDisconnect, HostType
  <2> QED
    BY <2>1, <2>2
<1>4. CASE ResetPanel
  <2>1. CASE ResetByCommit
    <3>1. host' = [host EXCEPT !.cancelled = FALSE]
      BY <1>4, <2>1 DEF ResetPanel, SetHost
    <3> QED
      BY <1>0, <3>1 DEF HostType
  <2>2. CASE ~ResetByCommit
    <3>1. host' = HostDeinit(Clean(host))
      BY <1>4, <2>2 DEF ResetPanel, SetHost
    <3>2. host'.active = {}
      BY <1>0, <3>1, TakenDown
    <3> QED
      BY <3>2
  <2> QED
    BY <2>1, <2>2
<1>5. CASE HpdHigh \/ Train \/ Retrain
  <2>1. CASE HpdHigh
    <3>1. host' = host \/ host' = HostInit(host)
      BY <2>1 DEF HpdHigh, SetHost
    <3> QED
      BY <1>0, <3>1, BroughtUp
  <2>2. CASE Train \/ Retrain
    BY <1>0, <2>2, TrainKeeps DEF Trained
  <2> QED
    BY <1>5, <2>1, <2>2
<1>6. CASE StartConnect \/ NotifyHigh \/ ModeChange \/ ModeChanged
  BY <1>0, <1>6 DEF StartConnect, NotifyHigh, ModeChange, ModeChanged, HostType
<1>7. CASE AttentionWork
  BY <1>2, <1>5, <1>7 DEF AttentionWork, StartAttention, SinkRequest, Reconnect, SinkReauth
<1>8. CASE CbWork \/ AuthWork \/ Isr
  BY <1>8 DEF CbWork, StartCb, CbOff, CbAct, CbAuthenticate, AuthWork, Isr
<1>9. ASSUME NEW s \in Streams, Stream(s) PROVE host'.ctrl_on
  <2>1. CASE Prepare(s)
    <3>1. PICK h : Trained(host, h) /\ SetHost(h)
      BY <1>0, <2>1, PrepareKeeps
    <3> QED
      BY <3>1 DEF Trained, SetHost
  <2>2. CASE Unprepare(s) \/ Unwind(s)
    <3>1. host' = Released /\ host.active # {}
      BY <2>2 DEF Unprepare, Unwind, SetHost
    <3> QED
      BY <1>0, <3>1, ReleasedHost
  <2>3. CASE ~Prepare(s) /\ ~Unprepare(s) /\ ~Unwind(s)
    BY <1>0, <1>9, <2>3 DEF Stream, TurnOn, TurnOff, StreamStep, Enable, PostEnable, HdcpOff,
       HdcpOffBegin, HdcpOffEnd, PreDisable, Disable, HostType
  <2> QED
    BY <2>1, <2>2, <2>3
<1>10. CASE Pm
  BY <1>0, <1>10 DEF Pm, Suspend, PmOff, Resume, HostType
<1> QED
  BY <1>3, <1>4, <1>5, <1>6, <1>7, <1>8, <1>9, <1>10 DEF Next, WqStep, ConnectWork

\* No step takes the link down under a stream that runs before and after it,
\* but for PM, which acts on an earlier look at power_on
\* (dp_display_handle_disconnect, dp_display_unprepare, dp_pm_prepare).
THEOREM DpLinkOutlivesStreams == Spec => LinkOutlivesStreams
<1>1. ASSUME IInv, [Next]_vars
      PROVE  [ host.active \cap host'.active # {} =>
                 \/ host.ctrl_on => host'.ctrl_on
                 \/ at["pm"] = "off" ]_vars
  <2>1. CASE Next
    BY <1>1, <2>1, IInvParts, LinkStep
  <2>2. CASE UNCHANGED vars
    BY <2>2
  <2> QED
    BY <1>1, <2>1, <2>2
<1> QED
  BY <1>1, DpInvariant, PTL DEF Spec, LinkOutlivesStreams
=============================================================================
