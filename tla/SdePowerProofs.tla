--------------------------- MODULE SdePowerProofs ---------------------------
(***************************************************************************)
(* Proofs about the two layers that decide when a display has power:       *)
(* resource control of an encoder (SdeEncoderRc), which takes and gives    *)
(* back references on its behalf, and the display RSC (SdeRsc), which the  *)
(* encoders' votes wake up and put to sleep.                               *)
(***************************************************************************)
EXTENDS SdeRsc, SdeEncoderRc, FiniteSetTheorems, TLAPS

(***************************************************************************)
(* The display RSC, for any set of external displays, both revisions and   *)
(* every mix of failures: the block follows the votes, and the count of    *)
(* vsync waits is drained.                                                 *)
(***************************************************************************)

\* A client votes what its kind votes; a display that votes, or is still in
\* its call, has the power handle's vote under it.
VotesOK ==
  /\ \A c \in Client : vote[c] \in Votes(c)
  /\ \A c \in Client : vote[c] # "IDLE" \/ pc[c] # "idle" => vote[PowerHandle] = "CLK"
  /\ pc[PowerHandle] \in {"idle", "sleep"}

\* The lock is held by the call that sleeps, on its way up.
LockOK ==
  \A c \in Client :
    /\ pc[c] = "sleep" <=> client_lock = c
    /\ pc[c] = "sleep" => target[c] \in {"CLK", "VID"}

\* While a call waits for a vsync, the block is up.
UpWhileWaiting ==
  (\E c \in Client : pc[c] # "idle") => current_state # "IDLE" /\ ~power_collapse

\* Every count has a call that will drop it.
CountOK == rsc_vsync_wait <= Cardinality(Droppers)

ClocksOK ==
  /\ resource_refcount = 1 => current_state # "IDLE"
  /\ ClocksFollowState

\* The supply: the software vote is one of the votes on it.
SupplyOK ==
  /\ sw_fs_enabled => fs_votes >= 1
  /\ fault = {} =>
       /\ ~need_hwinit
       /\ fs_votes = IF sw_fs_enabled THEN 1 ELSE 0
       /\ power_collapse => ~sw_fs_enabled

\* The state the block is in, or is about to record.
Settled == IF client_lock = NoClient THEN current_state ELSE target[client_lock]
DecideOK == fault = {} => Settled = Desired(vote) /\ hw = Settled

\* The inductive invariant.
RscInv ==
  /\ RscTypeOK /\ VotesOK /\ LockOK /\ UpWhileWaiting /\ CountOK
  /\ CollapsedIsIdle /\ ClocksOK /\ SupplyOK /\ DecideOK

-----------------------------------------------------------------------------
\* The initial states satisfy the inductive invariant.
LEMMA RscInitInv == RscInit => RscInv
<1> SUFFICES ASSUME RscInit PROVE RscInv
  OBVIOUS
<1>1. RscTypeOK
  <2>1. freezes \in 0 .. MaxFreeze  BY RscAssumption DEF RscInit
  <2>2. resource_refcount \in {0, 1} /\ rsc_vsync_wait \in Nat /\ fs_votes \in Nat
    BY DEF RscInit
  <2>3. /\ vote \in [Client -> State] /\ target \in [Client -> State \cup {"none"}]
        /\ pc \in [Client -> {"idle", "sleep", "vblank", "wait"}]
        /\ wait_refcount \in [Client -> Nat]
    BY DEF RscInit, State
  <2> QED  BY <2>1, <2>2, <2>3 DEF RscInit, RscTypeOK, State
<1> USE DEF RscInit, Client, Display
<1>2. VotesOK  BY DEF VotesOK, Votes, State
<1>3. LockOK  BY RscAssumption DEF LockOK
<1>4. UpWhileWaiting  BY DEF UpWhileWaiting
<1>5. CountOK
  <2>1. Droppers = {}  BY DEF Droppers, Dropper
  <2> QED  BY <2>1, FS_EmptySet DEF CountOK
<1>6. CollapsedIsIdle /\ ClocksOK /\ SupplyOK
  BY DEF CollapsedIsIdle, ClocksOK, ClocksFollowState, SupplyOK
<1>7. DecideOK
  BY DEF DecideOK, Settled, Desired, Multi, VidActive, CmdActive
<1> QED  BY <1>1, <1>2, <1>3, <1>4, <1>5, <1>6, <1>7 DEF RscInv

\* There are finitely many clients, and so a number of droppers.
LEMMA DroppersFinite ==
  /\ IsFiniteSet(Client)
  /\ IsFiniteSet(Droppers) /\ Cardinality(Droppers) \in Nat
<1>1. IsFiniteSet(Client)
  <2>1. IsFiniteSet({Primary}) /\ IsFiniteSet({PowerHandle})  BY FS_Singleton
  <2>2. IsFiniteSet(Display)  BY <2>1, RscAssumption, FS_Union DEF Display
  <2> QED  BY <2>1, <2>2, FS_Union DEF Client
<1>2. Droppers \in SUBSET Client  BY DEF Droppers
<1> QED  BY <1>1, <1>2, FS_Subset, FS_CardinalityType

\* What one call does to the droppers and their number.
LEMMA DroppersStep ==
  ASSUME NEW c \in Client, \A d \in Client \ {c} : Dropper(d)' <=> Dropper(d)
  PROVE  /\ Cardinality(Droppers') \in Nat
         /\ Dropper(c)' /\ ~Dropper(c) => Cardinality(Droppers') = Cardinality(Droppers) + 1
         /\ ~Dropper(c)' /\ Dropper(c) => Cardinality(Droppers') = Cardinality(Droppers) - 1
         /\ (Dropper(c)' <=> Dropper(c)) => Cardinality(Droppers') = Cardinality(Droppers)
<1>1. CASE Dropper(c)' /\ ~Dropper(c)
  <2>1. Droppers' = Droppers \cup {c} /\ c \notin Droppers  BY <1>1 DEF Droppers
  <2>2. Cardinality(Droppers') = Cardinality(Droppers) + 1
    BY <2>1, DroppersFinite, FS_AddElement
  <2> QED  BY <1>1, <2>2, DroppersFinite
<1>2. CASE ~Dropper(c)' /\ Dropper(c)
  <2>1. Droppers' = Droppers \ {c} /\ c \in Droppers  BY <1>2 DEF Droppers
  <2>2. Droppers' \in SUBSET Client  BY DEF Droppers
  <2>3. Cardinality(Droppers') \in Nat
    BY <2>2, DroppersFinite, FS_Subset, FS_CardinalityType
  <2> QED  BY <1>2, <2>1, <2>3, DroppersFinite, FS_RemoveElement
<1>3. CASE Dropper(c)' <=> Dropper(c)
  <2>1. Droppers' = Droppers  BY <1>3 DEF Droppers
  <2> QED  BY <1>3, <2>1, DroppersFinite
<1> QED  BY <1>1, <1>2, <1>3

(***************************************************************************)
(* The decision: a vote that is accepted leads to the state the votes add  *)
(* up to, one that is refused or finds the block there already changes     *)
(* nothing that the votes decide.                                          *)
(***************************************************************************)
LEMMA TargetIsDesired ==
  ASSUME RscTypeOK, VotesOK, NEW c \in Client, NEW s \in Votes(c), s \in State,
         NEW v, v = [vote EXCEPT ![c] = s],
         c = PowerHandle /\ s = "IDLE" => \A d \in Display : vote[d] = "IDLE",
         c # PowerHandle /\ s # "IDLE" => vote[PowerHandle] = "CLK",
         current_state = Desired(vote)
  PROVE  /\ Target(s, v) # "none" => Target(s, v) = Desired(v)
         /\ Target(s, v) = "none" => Desired(v) = current_state
         /\ current_state = s => Desired(v) = s
<1>1. CASE version = 3
  <2>1. Target(s, v) = IF s = "IDLE" THEN IdleV3(v) ELSE IF s = "CMD" THEN CmdV3(v)
                       ELSE IF s = "VID" THEN VidV3(v) ELSE ClkV3(v)
    BY <1>1 DEF Target, State
  <2> QED
    BY <1>1, <2>1, RscAssumption
    DEF RscTypeOK, VotesOK, Votes, State, Client, Display, Desired, Multi,
        VidActive, CmdActive, ClkClient, IdleV3, CmdV3, VidV3, ClkV3
<1>2. CASE version = 2
  <2>1. Target(s, v) = IF s = "IDLE" THEN IdleV2(v) ELSE IF s = "CMD" THEN CmdV2(v)
                       ELSE IF s = "VID" THEN VidV2(v) ELSE ClkV2(v)
    BY <1>2 DEF Target, State
  <2> QED
    BY <1>2, <2>1, RscAssumption
    DEF RscTypeOK, VotesOK, Votes, State, Client, Display, Desired, Multi,
        VidActive, CmdActive, ClkClient, IdleV2, CmdV2, VidV2, ClkV2
<1> QED
  BY <1>1, <1>2, RscAssumption DEF RscTypeOK

\* A switch leads to a state or is refused; it leads to idle only without a
\* vote of the power handle, and it waits for a vsync only on the way up.
LEMMA TargetFacts ==
  ASSUME RscTypeOK, NEW v \in [Client -> State], NEW s \in State
  PROVE  /\ Target(s, v) \in State \cup {"none"}
         /\ Target(s, v) = "IDLE" => v[PowerHandle] # "CLK"
         /\ Counted(Target(s, v)) => Target(s, v) \in {"CLK", "VID"}
  BY RscAssumption
  DEF RscTypeOK, State, Client, Target, Multi, VidActive, CmdActive, ClkClient,
      IdleV3,
      IdleV2, CmdV3, VidV3, ClkV3, CmdV2, VidV2, ClkV2, Counted

\* The caller's order: who may vote, and what is voted then.
LEMMA CallerVotes ==
  ASSUME RscInv, NEW c \in Client, NEW s \in State, CallerMay(c, s), pc[c] = "idle",
         NEW v, v = [vote EXCEPT ![c] = s]
  PROVE  /\ v \in [Client -> State] /\ \A d \in Client : v[d] \in Votes(d)
         /\ \A d \in Client : v[d] # "IDLE" \/ pc[d] # "idle" => v[PowerHandle] = "CLK"
  BY RscAssumption
  DEF RscInv, RscTypeOK, VotesOK, CallerMay, Votes, Client, Display, State

\* A vote on a block that is there already.
LEMMA NothingToDo ==
  ASSUME RscInv, NEW c \in Client, NEW s \in State, CallerMay(c, s),
         client_lock = NoClient, pc[c] = "idle", current_state = s,
         vote' = [vote EXCEPT ![c] = s],
         UNCHANGED <<version, fault, current_state, power, rsc_vsync_wait, calls>>
  PROVE  RscInv'
<1> DEFINE v == [vote EXCEPT ![c] = s]
<1> USE DEF power, calls
<1>1. /\ v \in [Client -> State] /\ \A d \in Client : v[d] \in Votes(d)
      /\ \A d \in Client : v[d] # "IDLE" \/ pc[d] # "idle" => v[PowerHandle] = "CLK"
  BY CallerVotes
<1>2. RscTypeOK'  BY <1>1 DEF RscInv, RscTypeOK
<1>3. VotesOK' /\ LockOK' /\ UpWhileWaiting'
  BY <1>1 DEF RscInv, VotesOK, Votes, LockOK, UpWhileWaiting
<1>4. CountOK'  BY DEF RscInv, CountOK, Droppers, Dropper
<1>5. CollapsedIsIdle' /\ ClocksOK' /\ SupplyOK'
  BY DEF RscInv, CollapsedIsIdle, ClocksOK, ClocksFollowState, SupplyOK
<1>6. DecideOK'
  <2> SUFFICES ASSUME fault = {} PROVE current_state = Desired(v) /\ hw = current_state
    BY DEF DecideOK, Settled, Desired, Multi, VidActive, CmdActive
  <2>1. current_state = Desired(vote) /\ hw = current_state
    BY DEF RscInv, DecideOK, Settled
  <2>2. Desired(v) = s
    BY <2>1, TargetIsDesired DEF RscInv, CallerMay
  <2> QED  BY <2>1, <2>2
<1> QED  BY <1>2, <1>3, <1>4, <1>5, <1>6 DEF RscInv

\* The switch to t is allowed, and the hardware does it.
Accepted(t, exitOK, entryOK) ==
  t # "none" /\ (Programs(t) => HwSucceeds(t, exitOK, entryOK))

(***************************************************************************)
(* What a vote that reaches the switch does to the power, whatever fails:  *)
(* only an accepted switch away from idle finds the block up.              *)
(***************************************************************************)
LEMMA PowerStep ==
  ASSUME RscInv, NEW s \in State, NEW t \in State \cup {"none"},
         NEW exitOK \in BOOLEAN, NEW entryOK \in BOOLEAN, FsUpdate(s, t, entryOK),
         t = "IDLE" => s = "IDLE",
         IF Programs(t) THEN StateUpdateHw(t, exitOK, entryOK)
                        ELSE UNCHANGED <<hw, power_collapse>>,
         UNCHANGED fault
  PROVE  /\ hw' \in State /\ power_collapse' \in BOOLEAN
         /\ need_hwinit' \in BOOLEAN /\ sw_fs_enabled' \in BOOLEAN /\ fs_votes' \in Nat
         /\ Accepted(t, exitOK, entryOK) /\ t # "IDLE" => ~power_collapse'
         /\ t # "IDLE" /\ ~power_collapse => ~power_collapse'
         /\ power_collapse' => current_state = "IDLE" \/ (Accepted(t, exitOK, entryOK) /\ t = "IDLE")
         /\ exitOK /\ entryOK => (Accepted(t, exitOK, entryOK) <=> t # "none")
         /\ exitOK /\ entryOK /\ Programs(t) => hw' = t
<1>0. /\ power_collapse \in BOOLEAN /\ need_hwinit \in BOOLEAN /\ sw_fs_enabled \in BOOLEAN
      /\ fs_votes \in Nat /\ hw \in State /\ current_state \in State
      /\ (sw_fs_enabled => fs_votes >= 1) /\ (power_collapse => current_state = "IDLE")
  BY DEF RscInv, RscTypeOK, CollapsedIsIdle, SupplyOK
<1>1. need_hwinit' \in BOOLEAN /\ sw_fs_enabled' \in BOOLEAN
  BY <1>0 DEF FsUpdate, HwInit
<1>2. fs_votes' \in Nat
  BY <1>0 DEF FsUpdate, HwInit
<1>3. CASE Programs(t)
  <2>1. /\ power_collapse' = IF t = "IDLE" THEN entryOK \/ (power_collapse /\ ~exitOK)
                                            ELSE power_collapse /\ ~exitOK
        /\ hw' = IF t # "IDLE" \/ entryOK THEN t ELSE hw
        /\ t # "none"
    BY <1>3 DEF StateUpdateHw, Programs
  <2>2. Accepted(t, exitOK, entryOK) <=> IF t = "IDLE" THEN entryOK ELSE ~power_collapse \/ exitOK
    BY <1>3, <2>1 DEF HwSucceeds, Accepted
  <2>3. hw' \in State /\ power_collapse' \in BOOLEAN
    BY <1>0, <2>1
  <2>4. /\ Accepted(t, exitOK, entryOK) /\ t # "IDLE" => ~power_collapse'
        /\ t # "IDLE" /\ ~power_collapse => ~power_collapse'
    BY <2>1, <2>2
  <2>5. power_collapse' => current_state = "IDLE" \/ (Accepted(t, exitOK, entryOK) /\ t = "IDLE")
    BY <1>0, <2>1, <2>2
  <2>6. /\ exitOK /\ entryOK => (Accepted(t, exitOK, entryOK) <=> t # "none")
        /\ exitOK /\ entryOK /\ Programs(t) => hw' = t
    BY <2>1, <2>2
  <2> QED  BY <1>1, <1>2, <2>3, <2>4, <2>5, <2>6
<1>4. CASE ~Programs(t)
  <2>1. UNCHANGED <<hw, power_collapse>> /\ (Accepted(t, exitOK, entryOK) <=> t # "none")
    BY <1>4 DEF Accepted
  <2>2. t # "none" => t \in {"CMD", "VID"} /\ current_state = t
    BY <1>4 DEF Programs
  <2>3. /\ Accepted(t, exitOK, entryOK) /\ t # "IDLE" => ~power_collapse'
        /\ t # "IDLE" /\ ~power_collapse => ~power_collapse'
        /\ power_collapse' => current_state = "IDLE" \/ (Accepted(t, exitOK, entryOK) /\ t = "IDLE")
    BY <1>0, <2>1, <2>2
  <2> QED  BY <1>0, <1>1, <1>2, <1>4, <2>1, <2>3
<1> QED  BY <1>3, <1>4

LEMMA SupplyStep ==
  ASSUME RscInv, NEW s \in State, NEW t \in State \cup {"none"},
         NEW exitOK \in BOOLEAN, NEW entryOK \in BOOLEAN, FsUpdate(s, t, entryOK),
         t = "IDLE" => s = "IDLE",
         fault = {} => exitOK /\ entryOK,
         IF Programs(t) THEN StateUpdateHw(t, exitOK, entryOK)
                        ELSE UNCHANGED <<hw, power_collapse>>,
         UNCHANGED fault
  PROVE  SupplyOK'
<1> DEFINE released == t = "IDLE" /\ entryOK /\ sw_fs_enabled
<1>1. /\ power_collapse \in BOOLEAN /\ need_hwinit \in BOOLEAN /\ sw_fs_enabled \in BOOLEAN
      /\ fs_votes \in Nat /\ (sw_fs_enabled => fs_votes >= 1)
      /\ fault = {} => /\ ~need_hwinit
                       /\ fs_votes = IF sw_fs_enabled THEN 1 ELSE 0
                       /\ power_collapse => ~sw_fs_enabled
  BY DEF RscInv, RscTypeOK, SupplyOK
<1>2. /\ need_hwinit' <=> (need_hwinit /\ ~HwInit(s))
      /\ fs_votes' = IF HwInit(s) THEN fs_votes + 1
                     ELSE IF released THEN fs_votes - 1 ELSE fs_votes
      /\ sw_fs_enabled' <=> ((sw_fs_enabled \/ HwInit(s)) /\ ~released)
      /\ HwInit(s) => need_hwinit /\ s # "IDLE"
  BY DEF FsUpdate, HwInit
<1>3. sw_fs_enabled' => fs_votes' >= 1
  BY <1>1, <1>2
<1>4. ASSUME fault = {}
      PROVE  /\ ~need_hwinit' /\ fs_votes' = (IF sw_fs_enabled' THEN 1 ELSE 0)
             /\ power_collapse' => ~sw_fs_enabled'
  <2>1. ~HwInit(s) /\ ~need_hwinit' /\ exitOK /\ entryOK
    BY <1>1, <1>2, <1>4
  <2>2. power_collapse' => t = "IDLE" \/ power_collapse
    BY <2>1 DEF StateUpdateHw
  <2>3. (sw_fs_enabled' <=> sw_fs_enabled /\ t # "IDLE")
        /\ fs_votes' = IF t = "IDLE" /\ sw_fs_enabled THEN fs_votes - 1 ELSE fs_votes
    BY <1>1, <1>2, <2>1
  <2> QED  BY <1>1, <1>4, <2>1, <2>2, <2>3
<1> QED  BY <1>3, <1>4 DEF SupplyOK

\* A switch to idle is asked for by an idle vote only.
LEMMA IdleByIdle ==
  ASSUME RscTypeOK, NEW v \in [Client -> State], NEW s \in State
  PROVE  Target(s, v) = "IDLE" => s = "IDLE"
  BY RscAssumption
  DEF RscTypeOK, State, Target, CmdV3, VidV3, ClkV3, CmdV2, VidV2, ClkV2

\* A switch away from idle rests on the power handle's vote.
LEMMA UpIsVoted ==
  ASSUME RscTypeOK, NEW c \in Client, NEW s \in State, NEW v \in [Client -> State], v[c] = s,
         \A d \in Client : v[d] # "IDLE" => v[PowerHandle] = "CLK"
  PROVE  Target(s, v) \in {"CLK", "CMD", "VID"} => v[PowerHandle] = "CLK"
  BY RscAssumption
  DEF RscTypeOK, State, Client, Target, Multi, VidActive, CmdActive, ClkClient,
      IdleV3,
      IdleV2

\* sde_rsc_client_state_update.
LEMMA UpdateStep ==
  ASSUME RscInv, NEW c \in Client, NEW s \in State, NEW config \in BOOLEAN,
         ClientStateUpdate(c, s, config)
  PROVE  RscInv'
<1> DEFINE v == [vote EXCEPT ![c] = s]
           t == Target(s, v)
<1>1. /\ client_lock = NoClient /\ pc[c] = "idle" /\ CallerMay(c, s) /\ vote' = v
      /\ UNCHANGED <<version, fault, wait_refcount, freezes>>
  BY DEF ClientStateUpdate
<1>2. /\ v \in [Client -> State] /\ \A d \in Client : v[d] \in Votes(d)
      /\ \A d \in Client : v[d] # "IDLE" \/ pc[d] # "idle" => v[PowerHandle] = "CLK"
  BY <1>1, CallerVotes
<1>3. CASE current_state = s /\ ~config
  BY <1>1, <1>3, NothingToDo DEF ClientStateUpdate, power, calls
<1>4. CASE ~(current_state = s /\ ~config)
  <2>1. PICK enableOK \in Outcomes("enable"), exitOK \in Outcomes("exit"),
             entryOK \in Outcomes("entry") :
       LET ok == t # "none" /\ (Programs(t) => HwSucceeds(t, exitOK, entryOK))
           awaits == ok /\ NeedsVblank(t, config)
       IN
       /\ FsUpdate(s, t, entryOK)
       /\ IF Programs(t) THEN StateUpdateHw(t, exitOK, entryOK)
                         ELSE UNCHANGED <<hw, power_collapse>>
       /\ \/ /\ ~(t # "none" /\ Counted(t) /\ ~awaits /\ rsc_vsync_wait > 0)
             /\ Finish(c, t, ok, ResourceBefore(enableOK), awaits)
          \/ /\ t # "none" /\ Counted(t) /\ ~awaits /\ rsc_vsync_wait > 0
             /\ Sleep(c, t, ResourceBefore(enableOK))
    BY <1>4 DEF ClientStateUpdate
  <2> DEFINE ok == Accepted(t, exitOK, entryOK)
             awaits == ok /\ NeedsVblank(t, config)
             sleeps == t # "none" /\ Counted(t) /\ ~awaits /\ rsc_vsync_wait > 0
             refs == ResourceBefore(enableOK)
  <2>2. /\ FsUpdate(s, t, entryOK)
        /\ IF Programs(t) THEN StateUpdateHw(t, exitOK, entryOK)
                          ELSE UNCHANGED <<hw, power_collapse>>
        /\ \/ ~sleeps /\ Finish(c, t, ok, refs, awaits)
           \/ sleeps /\ Sleep(c, t, refs)
        /\ ok \in BOOLEAN /\ awaits \in BOOLEAN /\ (awaits => ok)
        /\ (awaits => NeedsVblank(t, config))
        /\ (sleeps => t # "none" /\ Counted(t) /\ ~awaits /\ rsc_vsync_wait > 0)
        /\ (ok => t # "none")
    BY <2>1 DEF Accepted
  <2>3. /\ t \in State \cup {"none"} /\ (t = "IDLE" => v[PowerHandle] # "CLK")
        /\ (Counted(t) => t \in {"CLK", "VID"})
        /\ (t = "IDLE" => s = "IDLE")
        /\ (t \in {"CLK", "CMD", "VID"} => v[PowerHandle] = "CLK")
    <3>1. v[c] = s  BY DEF RscInv, RscTypeOK
    <3> QED  BY <1>2, <3>1, TargetFacts, IdleByIdle, UpIsVoted, ZenonT(30) DEF RscInv
  <2>4. enableOK \in BOOLEAN /\ exitOK \in BOOLEAN /\ entryOK \in BOOLEAN
    BY <2>1 DEF Outcomes
  <2>5. fault = {} => enableOK /\ exitOK /\ entryOK
    BY <2>1 DEF Outcomes
  <2>6. "enable" \notin fault => enableOK
    BY <2>1 DEF Outcomes
  <2> HIDE DEF ok, awaits, sleeps, refs, t, v
  <2>8. /\ hw' \in State /\ power_collapse' \in BOOLEAN
        /\ need_hwinit' \in BOOLEAN /\ sw_fs_enabled' \in BOOLEAN /\ fs_votes' \in Nat
        /\ ok /\ t # "IDLE" => ~power_collapse'
        /\ t # "IDLE" /\ ~power_collapse => ~power_collapse'
        /\ power_collapse' => current_state = "IDLE" \/ (ok /\ t = "IDLE")
        /\ exitOK /\ entryOK => (ok <=> t # "none")
        /\ exitOK /\ entryOK /\ Programs(t) => hw' = t
    <3>1. /\ FsUpdate(s, t, entryOK)
          /\ IF Programs(t) THEN StateUpdateHw(t, exitOK, entryOK)
                            ELSE UNCHANGED <<hw, power_collapse>>
          /\ UNCHANGED fault
      BY <1>1, <2>2
    <3> QED  BY <2>3, <2>4, <3>1, PowerStep DEF ok
  <2>9. SupplyOK'
    BY <1>1, <2>2, <2>3, <2>4, <2>5, SupplyStep
  <2>10. refs \in {0, 1} /\ (current_state # "IDLE" => refs = resource_refcount)
         /\ ("enable" \notin fault => refs = 1)
    BY <2>4, <2>6 DEF refs, ResourceBefore, RscInv, RscTypeOK, ClocksOK,
       ClocksFollowState
  \* Waiting calls keep the block up.
  <2>11. (\E d \in Client : pc[d] # "idle") =>
           v[PowerHandle] = "CLK" /\ t # "IDLE" /\ current_state # "IDLE" /\ ~power_collapse
    BY <1>2, <2>3 DEF RscInv, UpWhileWaiting
  <2>12. rsc_vsync_wait > 0 => \E d \in Client : pc[d] # "idle"
    <3>1. Droppers = {} => rsc_vsync_wait <= 0
      BY FS_EmptySet DEF RscInv, CountOK
    <3> QED  BY <3>1 DEF Droppers, Dropper, RscInv, RscTypeOK
  <2>13. CASE ~sleeps
    <3>1. /\ current_state' = IF ok THEN t ELSE current_state
          /\ resource_refcount' = ResourceAfter(refs, current_state')
          /\ UNCHANGED <<client_lock, target>>
          /\ IF awaits /\ c # PowerHandle
             THEN /\ pc' = [pc EXCEPT ![c] = "vblank"]
                  /\ rsc_vsync_wait' = IF Counted(t) THEN rsc_vsync_wait + 1 ELSE rsc_vsync_wait
             ELSE UNCHANGED <<pc, rsc_vsync_wait>>
      BY <2>2, <2>13 DEF Finish
    <3>2. RscTypeOK'
      BY <1>1, <1>2, <2>2, <2>3, <2>8, <2>10, <3>1 DEF RscInv, RscTypeOK, State,
         ResourceAfter
    <3>3. awaits => t # "IDLE" /\ v[PowerHandle] = "CLK"
      <4>1. awaits => t \in {"CLK", "CMD", "VID"} /\ current_state \in {"CMD", "VID"}
        BY <2>2, <2>3 DEF NeedsVblank, State
      <4> QED  BY <2>3, <4>1
    <3>4. VotesOK'
      <4>1. \A d \in Client : vote'[d] \in Votes(d)'
        BY <1>1, <1>2 DEF Votes
      <4>2. pc' = pc \/ (pc' = [pc EXCEPT ![c] = "vblank"] /\ c # PowerHandle
                        /\ v[PowerHandle] = "CLK")
        BY <3>1, <3>3
      <4>3. \A d \in Client : vote'[d] # "IDLE" \/ pc'[d] # "idle" => vote'[PowerHandle] = "CLK"
        BY <1>1, <1>2, <4>2 DEF RscInv, RscTypeOK
      <4>4. pc'[PowerHandle] \in {"idle", "sleep"}
        BY <4>2 DEF RscInv, VotesOK, RscTypeOK, Client
      <4> QED  BY <4>1, <4>3, <4>4 DEF VotesOK
    <3>5. LockOK'
      BY <1>1, <3>1 DEF RscInv, LockOK, RscTypeOK
    <3>6. UpWhileWaiting'
      BY <2>2, <2>8, <2>11, <3>1, <3>3 DEF RscInv, UpWhileWaiting, RscTypeOK
    <3>7. CountOK'
      <4>1. \A d \in Client \ {c} : Dropper(d)' <=> Dropper(d)
        BY <1>1, <3>1 DEF Dropper, RscInv, RscTypeOK
      <4>2. ~Dropper(c)
        BY <1>1 DEF Dropper
      <4>3. \/ rsc_vsync_wait' = rsc_vsync_wait
            \/ rsc_vsync_wait' = rsc_vsync_wait + 1 /\ Dropper(c)'
        <5>1. CASE awaits /\ c # PowerHandle
          <6>1. pc'[c] = "vblank"  BY <3>1, <5>1 DEF RscInv, RscTypeOK
          <6> QED  BY <3>1, <5>1, <6>1 DEF Dropper
        <5>2. CASE ~(awaits /\ c # PowerHandle)
          BY <3>1, <5>2
        <5> QED  BY <5>1, <5>2
      <4> QED  BY <4>1, <4>2, <4>3, DroppersStep, DroppersFinite DEF CountOK, RscInv, RscTypeOK
    <3>8. CollapsedIsIdle'
      BY <2>2, <2>8, <3>1 DEF CollapsedIsIdle
    <3>9. ClocksOK'
      BY <1>1, <2>2, <2>10, <3>1 DEF ClocksOK, ClocksFollowState, ResourceAfter,
         RscInv, RscTypeOK
    <3>10. DecideOK'
      <4> SUFFICES ASSUME fault = {} PROVE current_state' = Desired(v) /\ hw' = current_state'
        BY <1>1, <3>1 DEF DecideOK, Settled, Desired, Multi, VidActive, CmdActive
      <4>1. current_state = Desired(vote) /\ hw = current_state
        BY <1>1 DEF RscInv, DecideOK, Settled
      <4>2. /\ t # "none" => t = Desired(v)
            /\ t = "none" => Desired(v) = current_state
        BY <1>1, <4>1, TargetIsDesired DEF RscInv, CallerMay, t, v
      <4>3. ok <=> t # "none"
        BY <2>5, <2>8
      <4>4. hw' = current_state'
        BY <2>2, <2>5, <2>8, <3>1, <4>1, <4>3 DEF Programs
      <4> QED  BY <3>1, <4>2, <4>3, <4>4
    <3> QED
      BY <2>9, <3>2, <3>4, <3>5, <3>6, <3>7, <3>8, <3>9, <3>10 DEF RscInv
  <2>14. CASE sleeps
    <3>1. /\ client_lock' = c /\ pc' = [pc EXCEPT ![c] = "sleep"]
          /\ target' = [target EXCEPT ![c] = t] /\ resource_refcount' = refs
          /\ UNCHANGED <<current_state, rsc_vsync_wait>>
      BY <2>2, <2>14 DEF Sleep
    <3>2. /\ t \in {"CLK", "VID"} /\ rsc_vsync_wait > 0
          /\ v[PowerHandle] = "CLK" /\ current_state # "IDLE" /\ ~power_collapse
      BY <2>2, <2>3, <2>11, <2>12, <2>14
    <3>3. RscTypeOK'
      BY <1>1, <1>2, <2>3, <2>8, <2>10, <3>1 DEF RscInv, RscTypeOK, State
    <3>4. VotesOK'
      <4>1. \A d \in Client : vote'[d] \in Votes(d)'
        BY <1>1, <1>2 DEF Votes
      <4> QED  BY <1>1, <1>2, <3>1, <3>2, <4>1 DEF RscInv, VotesOK, RscTypeOK
    <3>5. LockOK'
      BY <1>1, <3>1, <3>2, RscAssumption DEF RscInv, LockOK, RscTypeOK
    <3>6. UpWhileWaiting' /\ CollapsedIsIdle'
      BY <2>8, <3>1, <3>2 DEF UpWhileWaiting, CollapsedIsIdle
    <3>7. CountOK'
      <4>1. \A d \in Client : Dropper(d)' <=> Dropper(d)
        BY <1>1, <3>1 DEF Dropper, RscInv, RscTypeOK
      <4>2. Cardinality(Droppers') = Cardinality(Droppers)
        BY <4>1, DroppersStep
      <4> QED  BY <3>1, <4>2 DEF CountOK, RscInv
    <3>8. ClocksOK'
      BY <1>1, <2>10, <3>1, <3>2 DEF ClocksOK, ClocksFollowState, RscInv
    <3>9. DecideOK'
      <4> SUFFICES ASSUME fault = {} PROVE t = Desired(v) /\ hw' = t
        <5>1. target'[c] = t  BY <3>1 DEF RscInv, RscTypeOK
        <5> QED  BY <1>1, <3>1, <5>1, RscAssumption
                 DEF DecideOK, Settled, Desired, Multi, VidActive, CmdActive
      <4>1. current_state = Desired(vote) /\ hw = current_state
        BY <1>1 DEF RscInv, DecideOK, Settled
      <4>2. t = Desired(v)
        BY <1>1, <3>2, <4>1, TargetIsDesired DEF RscInv, CallerMay, t, v
      <4>3. hw' = t
        BY <2>2, <2>5, <2>8, <3>2, <4>1 DEF Programs
      <4> QED  BY <4>2, <4>3
    <3> QED  BY <2>9, <3>3, <3>4, <3>5, <3>6, <3>7, <3>8, <3>9 DEF RscInv
  <2> QED  BY <2>13, <2>14
<1> QED  BY <1>3, <1>4

\* The end of a sleep with the lock held.
LEMMA EndSleepStep ==
  ASSUME RscInv, NEW c \in Client, NEW woken \in BOOLEAN, EndSleep(c, woken)
  PROVE  RscInv'
<1>1. /\ pc[c] = "sleep" /\ client_lock = c /\ target[c] \in {"CLK", "VID"}
      /\ current_state # "IDLE" /\ ~power_collapse /\ client_lock' = NoClient
      /\ pc' = [pc EXCEPT ![c] = "idle"] /\ target' = [target EXCEPT ![c] = "none"]
      /\ current_state' = (IF woken THEN target[c] ELSE current_state)
      /\ resource_refcount' = ResourceAfter(resource_refcount, current_state')
      /\ ~woken => "timeout" \in fault
  BY DEF EndSleep, RscInv, LockOK, UpWhileWaiting
<1>2. UNCHANGED <<version, fault, vote, hw, power_collapse, need_hwinit, sw_fs_enabled,
                  fs_votes, freezes, rsc_vsync_wait, wait_refcount>>
  BY DEF EndSleep
<1>3. current_state' # "IDLE" /\ resource_refcount' = resource_refcount
  BY <1>1 DEF ResourceAfter
<1>4. RscTypeOK'  BY <1>1, <1>2, <1>3 DEF RscInv, RscTypeOK, State
<1>5. VotesOK'
  <2>1. \A d \in Client : vote'[d] \in Votes(d)'  BY <1>2 DEF RscInv, VotesOK, Votes
  <2>2. vote'[PowerHandle] = "CLK"  BY <1>1, <1>2 DEF RscInv, VotesOK
  <2>3. pc'[PowerHandle] \in {"idle", "sleep"}
    BY <1>1 DEF RscInv, VotesOK, RscTypeOK, Client
  <2> QED  BY <2>1, <2>2, <2>3 DEF VotesOK
<1>6. LockOK'  BY <1>1, RscAssumption DEF RscInv, LockOK, RscTypeOK
<1>7. UpWhileWaiting' /\ CollapsedIsIdle'
  BY <1>1, <1>2, <1>3 DEF UpWhileWaiting, CollapsedIsIdle
<1>8. CountOK'
  <2>1. \A d \in Client : Dropper(d)' <=> Dropper(d)
    BY <1>1, <1>2 DEF Dropper, RscInv, RscTypeOK
  <2>2. Cardinality(Droppers') = Cardinality(Droppers)
    BY <2>1, DroppersStep
  <2> QED  BY <1>2, <2>2 DEF CountOK, RscInv
<1>9. ClocksOK' /\ SupplyOK'
  BY <1>1, <1>2, <1>3 DEF ClocksOK, ClocksFollowState, SupplyOK, RscInv
<1>10. DecideOK'
  <2> SUFFICES ASSUME fault = {} PROVE current_state' = Desired(vote) /\ hw = current_state'
    BY <1>1, <1>2 DEF DecideOK, Settled, Desired, Multi, VidActive, CmdActive
  <2>1. woken  BY <1>1
  <2>2. target[c] = Desired(vote) /\ hw = target[c]
    BY <1>1, RscAssumption DEF RscInv, DecideOK, Settled
  <2> QED  BY <1>1, <2>1, <2>2
<1> QED  BY <1>4, <1>5, <1>6, <1>7, <1>8, <1>9, <1>10 DEF RscInv

\* What the wait for the vblank leaves alone: all but the count and the call.
LEMMA WaitStep ==
  ASSUME RscInv, NEW c \in Client, pc[c] \in {"vblank", "wait"},
         UNCHANGED <<version, fault, vote, current_state, power, client_lock, target>>,
         NEW l \in {"wait", "idle"}, pc' = [pc EXCEPT ![c] = l],
         NEW n \in Nat, wait_refcount' = [wait_refcount EXCEPT ![c] = n],
         rsc_vsync_wait' \in Nat, CountOK'
  PROVE  RscInv'
<1> USE DEF power
<1>1. RscTypeOK'  BY DEF RscInv, RscTypeOK
<1>2. VotesOK'
  <2>1. c # PowerHandle  BY DEF RscInv, VotesOK
  <2>2. \A d \in Client : vote'[d] \in Votes(d)'  BY DEF RscInv, VotesOK, Votes
  <2>3. vote'[PowerHandle] = "CLK"  BY DEF RscInv, VotesOK
  <2>4. pc'[PowerHandle] = pc[PowerHandle]  BY <2>1 DEF RscInv, RscTypeOK, Client
  <2> QED  BY <2>2, <2>3, <2>4 DEF RscInv, VotesOK
<1>3. LockOK'
  BY DEF RscInv, LockOK, RscTypeOK
<1>4. UpWhileWaiting' /\ CollapsedIsIdle' /\ ClocksOK' /\ SupplyOK'
  BY DEF RscInv, UpWhileWaiting, CollapsedIsIdle, ClocksOK, ClocksFollowState,
     SupplyOK
<1>5. DecideOK'
  BY DEF RscInv, DecideOK, Settled, Desired, Multi, VidActive, CmdActive
<1> QED  BY <1>1, <1>2, <1>3, <1>4, <1>5 DEF RscInv

\* The encoder reads the count without the lock.
LEMMA ReadStep ==
  ASSUME RscInv, NEW c \in Client, ReadVsyncRefcount(c)
  PROVE  RscInv'
<1>1. /\ pc[c] = "vblank" /\ pc' = [pc EXCEPT ![c] = "wait"]
      /\ wait_refcount' = [wait_refcount EXCEPT ![c] = rsc_vsync_wait]
      /\ UNCHANGED rsc_vsync_wait
      /\ UNCHANGED <<version, fault, vote, current_state, power, client_lock, target>>
  BY DEF ReadVsyncRefcount
<1>2. CountOK'
  <2>1. \A d \in Client \ {c} : Dropper(d)' <=> Dropper(d)
    BY <1>1 DEF Dropper, RscInv, RscTypeOK
  <2>2. Dropper(c) /\ (Dropper(c)' <=> rsc_vsync_wait > 0)
    BY <1>1 DEF Dropper, RscInv, RscTypeOK
  <2>3. rsc_vsync_wait \in Nat /\ Cardinality(Droppers) \in Nat
    BY DroppersFinite DEF RscInv, RscTypeOK
  <2> QED  BY <1>1, <2>1, <2>2, <2>3, DroppersStep DEF CountOK, RscInv
<1>3. rsc_vsync_wait \in Nat  BY DEF RscInv, RscTypeOK
<1> QED  BY <1>1, <1>2, <1>3, WaitStep

\* The encoder drops the count it believes it has taken.
LEMMA ResetStep ==
  ASSUME RscInv, NEW c \in Client, ResetVsyncRefcount(c)
  PROVE  RscInv'
<1>1. /\ pc[c] = "wait" /\ pc' = [pc EXCEPT ![c] = "idle"]
      /\ wait_refcount' = [wait_refcount EXCEPT ![c] = 0]
      /\ rsc_vsync_wait' = (IF wait_refcount[c] > 0 /\ rsc_vsync_wait > 0
                            THEN rsc_vsync_wait - 1 ELSE rsc_vsync_wait)
      /\ UNCHANGED <<version, fault, vote, current_state, power, client_lock, target>>
  BY DEF ResetVsyncRefcount
<1>2. rsc_vsync_wait' \in Nat
  BY <1>1 DEF RscInv, RscTypeOK
<1>3. CountOK'
  <2>1. \A d \in Client \ {c} : Dropper(d)' <=> Dropper(d)
    BY <1>1 DEF Dropper, RscInv, RscTypeOK
  <2>2. ~Dropper(c)' /\ (Dropper(c) <=> wait_refcount[c] > 0)
    BY <1>1 DEF Dropper, RscInv, RscTypeOK
  <2>3. /\ rsc_vsync_wait \in Nat /\ Cardinality(Droppers) \in Nat
        /\ rsc_vsync_wait <= Cardinality(Droppers)
    BY DroppersFinite DEF RscInv, RscTypeOK, CountOK
  <2>4. /\ Cardinality(Droppers') \in Nat
        /\ Dropper(c) => Cardinality(Droppers') = Cardinality(Droppers) - 1
        /\ ~Dropper(c) => Cardinality(Droppers') = Cardinality(Droppers)
    BY <2>1, <2>2, DroppersStep
  <2>5. CASE wait_refcount[c] > 0
    <3>1. rsc_vsync_wait' = IF rsc_vsync_wait > 0 THEN rsc_vsync_wait - 1 ELSE rsc_vsync_wait
      BY <1>1, <2>5
    <3> QED  BY <2>2, <2>3, <2>4, <2>5, <3>1 DEF CountOK
  <2>6. CASE ~(wait_refcount[c] > 0)
    <3>1. rsc_vsync_wait' = rsc_vsync_wait
      BY <1>1, <2>6
    <3> QED  BY <2>2, <2>3, <2>4, <2>6, <3>1 DEF CountOK
  <2> QED  BY <2>5, <2>6
<1> QED  BY <1>1, <1>2, <1>3, WaitStep

\* Hibernation, with every client idle.
LEMMA FreezeStep ==
  ASSUME RscInv, PmFreezeLate
  PROVE  RscInv'
<1> USE DEF PmFreezeLate, calls
<1>1. RscTypeOK'  BY RscAssumption DEF RscInv, RscTypeOK
<1>2. VotesOK' /\ LockOK'  BY DEF RscInv, VotesOK, Votes, LockOK
<1>3. UpWhileWaiting' /\ CollapsedIsIdle' /\ ClocksOK' /\ SupplyOK'
  BY DEF RscInv, UpWhileWaiting, CollapsedIsIdle, ClocksOK, ClocksFollowState,
     SupplyOK
<1>4. CountOK'  BY DEF RscInv, CountOK, Droppers, Dropper
<1>5. DecideOK'  BY DEF DecideOK
<1> QED  BY <1>1, <1>2, <1>3, <1>4, <1>5 DEF RscInv

\* Every step preserves the inductive invariant.
LEMMA RscNextInv == RscInv /\ [RscNext]_rscvars => RscInv'
<1> SUFFICES ASSUME RscInv, [RscNext]_rscvars  PROVE RscInv'
  OBVIOUS
<1>1. ASSUME NEW c \in Client, NEW s \in State, NEW config \in BOOLEAN,
             ClientStateUpdate(c, s, config)
      PROVE  RscInv'
  BY <1>1, UpdateStep
<1>2. ASSUME NEW c \in Client, NEW woken \in BOOLEAN, EndSleep(c, woken)  PROVE RscInv'
  BY <1>2, EndSleepStep
<1>3. ASSUME NEW c \in Client, ReadVsyncRefcount(c)  PROVE RscInv'
  BY <1>3, ReadStep
<1>4. ASSUME NEW c \in Client, ResetVsyncRefcount(c)  PROVE RscInv'
  BY <1>4, ResetStep
<1>5. CASE PmFreezeLate
  BY <1>5, FreezeStep
<1>6. CASE UNCHANGED rscvars
  <2> USE <1>6 DEF rscvars, power, calls
  <2>1. RscTypeOK' /\ VotesOK' /\ LockOK'  BY DEF RscInv, RscTypeOK, VotesOK, Votes, LockOK
  <2>2. UpWhileWaiting' /\ CollapsedIsIdle' /\ ClocksOK' /\ SupplyOK'
    BY DEF RscInv, UpWhileWaiting, CollapsedIsIdle, ClocksOK, ClocksFollowState,
       SupplyOK
  <2>3. CountOK'  BY DEF RscInv, CountOK, Droppers, Dropper
  <2>4. DecideOK'
    BY DEF RscInv, DecideOK, Settled, Desired, Multi, VidActive, CmdActive
  <2> QED  BY <2>1, <2>2, <2>3, <2>4 DEF RscInv
<1> QED  BY <1>1, <1>2, <1>3, <1>4, <1>5, <1>6 DEF RscNext

LEMMA RscInvariant == RscSpec => []RscInv
  BY RscInitInv, RscNextInv, PTL DEF RscSpec

(***************************************************************************)
(* Whatever the order of the votes, for any set of external displays, both *)
(* revisions and any mix of failures: while nothing fails, no call is in   *)
(* progress and the block is in the state the votes add up to, programmed  *)
(* for it; whatever fails, clocks, collapse and supply agree with that     *)
(* state (sde_rsc_client_state_update).                                    *)
(***************************************************************************)
THEOREM RscFollowsVotes == RscSpec => [](RscTypeOK /\ BlockFollowsVotes)
<1>1. RscInv => RscTypeOK /\ BlockFollowsVotes
  BY DEF RscInv, BlockFollowsVotes, VotesDecide, ClocksOK, DecideOK, Settled,
     SupplyOK,
         GdscReleased
<1> QED  BY RscInvariant, <1>1, PTL

\* Neither the counts nor the votes of the display RSC leave their range:
\* nothing is taken back twice (sde_rsc_resource_disable).
THEOREM RscTypes == RscSpec => []RscTypeOK
<1>1. RscInv => RscTypeOK
  BY DEF RscInv
<1> QED  BY RscInvariant, <1>1, PTL

(***************************************************************************)
(* However many displays count, read and drop vsync waits without the      *)
(* lock, the count is at most the number of calls that will drop one: it   *)
(* may be dropped early but is never leaked                                *)
(* (sde_rsc_client_reset_vsync_refcount, _sde_encoder_update_rsc_client).  *)
(***************************************************************************)
THEOREM VsyncCountDrained == RscSpec => []VsyncWaitDrained
<1>1. RscInv => VsyncWaitDrained
  BY DroppersFinite DEF RscInv, CountOK, RscTypeOK, VsyncWaitDrained
<1> QED  BY RscInvariant, <1>1, PTL

-----------------------------------------------------------------------------
(***************************************************************************)
(* Resource control of an encoder keeps its references balanced and gives  *)
(* every frame its resources, for any set of physical encoders, any        *)
(* scenarios and any number of commits and events.                         *)
(*                                                                         *)
(* What the properties say is not inductive: STOP does not give back what  *)
(* a video panel keeps while idle, EARLY_WAKEUP and PRE_MODESET take the   *)
(* references in any state but the ones they test, and frame events count  *)
(* down whatever the CRTC counts.  RcInv adds where each state can be met: *)
(* which states the disp thread can find at each place of a commit, and    *)
(* what the CRTC's count of pending frames is made of.                     *)
(***************************************************************************)

\* Places at which a disable is past its wait for idle.
Stopping == {"pre_stop", "stop", "crtc_disable"}

\* The states met at each place.  PRE_OFF lies between the two events of a
\* disable, MODESET between those of a mode set unless that failed half-way; a
\* detached encoder is off, and STOP never meets an idle video panel.
StateAtPlace ==
    /\ rc_state = "PRE_OFF" => disp = "stop"
    /\ rc_state = "MODESET" => attached /\ (disp = "mode_set" \/ "rm" \in Fault)
    /\ ~attached => rc_state = "OFF" /\ disp \in {"free", "crtc_disable"}
    /\ disp = "crtc_disable" => ~attached
    /\ disp = "pre_modeset" => rc_state = "ON"
    /\ disp = "stop" =>
         rc_state \in {"OFF", "PRE_OFF"} \/ (rc_state = "IDLE" /\ ~vid)

\* Input events come from command mode panels only.
InputsOfPanels == input_work => display = "cmd"

\* No reference is given back that was not taken, whatever failed.
ClocksHeld == pm >= B(Held) /\ clk >= B(Held)

\* VblankBalanced at every place of a commit.
VblankCounted ==
    "rm" \notin Fault =>
        /\ irq <=> rc_state \in {"ON", "PRE_OFF"}
        /\ vblank_refcount = B(irq) + B(vblank_enabled /\ rc_state # "MODESET")
        /\ vblank_enabled <=> vblank_requested /\ (attached \/ disp = "crtc_disable")

\* What an undisturbed display adds: the encoder is on from the preparation of
\* a frame to its end; nothing is transferred at the places behind a wait; and
\* each frame the CRTC counts is about to start, transferred, or an event.
FramesUndisturbed ==
    Undisturbed =>
        /\ ~suspending
        /\ \A p, q \in done : p = q
        /\ done \cap busy = {}
        /\ disp \in {"flush", "kick", "mode_set"} \cup Stopping => ~Transferring
        /\ ~attached => ~Transferring
        /\ disp \in {"flush", "kick"} => rc_state = "ON"
        /\ disp \in {"prepare", "flush", "kick", "wait"} => phys_on
        /\ attached /\ disp # "enable" => rc_state # "OFF"
        /\ attached /\ disp = "free" => phys_on
        /\ busy # {} => rc_state = "ON"
        /\ frame_pending = fevents + B(Transferring) + B(disp = "kick")

RcInv ==
    /\ TypeOK
    /\ StateAtPlace
    /\ InputsOfPanels
    /\ ClocksHeld
    /\ ClocksBalanced
    /\ VblankCounted
    /\ RscVoteFollows
    /\ FramesUndisturbed

-----------------------------------------------------------------------------
(* Type correctness.                                                       *)

USE DEF B, vid, display, Fault, Actors, rcvars, res, frames, conf, vblank, others

\* The parts of TypeOK but for the reference counts.
Flags ==
    /\ irq \in BOOLEAN /\ rsc \in BOOLEAN /\ off_work \in BOOLEAN
    /\ idle_pc_enabled \in BOOLEAN /\ autorefresh \in BOOLEAN
    /\ attached \in BOOLEAN /\ phys_on \in BOOLEAN
    /\ vblank_requested \in BOOLEAN /\ vblank_enabled \in BOOLEAN
    /\ input_work \in BOOLEAN /\ suspending \in BOOLEAN

Tracking ==
    /\ busy \subseteq Phys /\ done \subseteq Phys
    /\ frame_pending \in Nat /\ fevents \in Nat
    /\ scenario \in Scenarios
    /\ commits \in 0 .. MaxCommits /\ inputs \in 0 .. MaxInputs

Control == rc_state \in RcStates /\ disp \in Places \cup {"pre_modeset"}

LEMMA RcInitInv == Init => RcInv
<1> SUFFICES ASSUME Init PROVE RcInv
  OBVIOUS
<1> USE RcAssumption DEF Init
<1>1. idle_pc_enabled \in BOOLEAN
  OBVIOUS
<1>2. Flags /\ Control
  BY <1>1 DEF Flags, Control, RcStates, Places
<1>3. Tracking
  BY DEF Tracking, MaxCommits, MaxInputs, ScenarioType
<1>4. TypeOK
  BY <1>2, <1>3 DEF TypeOK, Flags, Control, Tracking
<1> QED
  BY <1>4 DEF RcInv, StateAtPlace, InputsOfPanels, ClocksHeld, ClocksBalanced,
     VblankCounted, RscVoteFollows, FramesUndisturbed, Held, Transferring, Undisturbed

\* The reference counts of the encoder stay natural numbers: what HelperOff
\* gives back is held.
LEMMA CountersStep ==
  ASSUME RcInv, Steps, scenario' = scenario
  PROVE  pm' \in Nat /\ clk' \in Nat /\ vblank_refcount' \in Nat
<1> USE DEF RcInv, TypeOK, StateAtPlace, ClocksHeld, Held
<1>1. CASE CommitEnable
  BY <1>1 DEF CommitEnable, Commit, RegisterVblank
<1>2. CASE CommitSeamless
  BY <1>2 DEF CommitSeamless, HelperOn, IrqOn
<1>3. CASE PreModeset
  BY <1>3 DEF PreModeset, VblankDec
<1>4. CASE PostModeset
  BY <1>4 DEF PostModeset
<1>5. CASE VirtEnable
  BY <1>5 DEF VirtEnable, Kickoff, HelperOn, IrqOn
<1>6. CASE PrepareForKickoff
  BY <1>6 DEF PrepareForKickoff, Kickoff, HelperOn, IrqOn
<1>7. CASE VirtDisable
  BY <1>7 DEF VirtDisable, Kickoff, HelperOn, IrqOn
<1>8. CASE VirtDisablePreStop
  BY <1>8 DEF VirtDisablePreStop, PreStop, IrqOn
<1>9. CASE VirtDisableStop
  BY <1>9 DEF VirtDisableStop, Stop, HelperOff, IrqOff, VblankDec
<1>10. CASE CrtcDisable
  BY <1>10 DEF CrtcDisable, UnregisterVblank, VblankDec
<1>11. CASE OffWork
  BY <1>11 DEF OffWork, EnterIdle, HelperOff, IrqOff, VblankDec
<1>12. CASE InputEventWork
  BY <1>12 DEF InputEventWork, EarlyWakeup, HelperOn, IrqOn
<1>13. CASE CrtcVblank
  BY <1>13 DEF CrtcVblank, RegisterVblank, UnregisterVblank, VblankDec
<1>14. CASE EsdTrigger
  BY <1>14 DEF EsdTrigger, Kickoff, HelperOn, IrqOn, RcUnlocked
<1>15. CASE SuspendIdle
  BY <1>15 DEF SuspendIdle, EnterIdle, HelperOff, IrqOff, VblankDec, RcUnlocked
<1>16. CASE CommitFrame \/ CommitDisable \/ CommitKickoff \/ EncoderKickoff
         \/ WaitForCommitDone \/ InputEvent
         \/ (\E p \in Phys : FrameDoneBegin(p) \/ FrameDoneEnd(p))
         \/ FrameEventWork \/ SuspendWait \/ Quiet
  BY <1>16 DEF CommitFrame, Commit, CommitDisable, CommitKickoff,
              EncoderKickoff, WaitForCommitDone, InputEvent, FrameDoneBegin,
              FrameDoneEnd, FrameDoneEvent, FrameEventWork, SuspendWait, Quiet
<1> QED
  BY <1>1, <1>2, <1>3, <1>4, <1>5, <1>6, <1>7, <1>8, <1>9, <1>10, <1>11, <1>12,
     <1>13, <1>14, <1>15, <1>16
     DEF Steps, CommitStep

LEMMA FlagsStep ==
  ASSUME RcInv, Steps, scenario' = scenario
  PROVE  Flags'
<1> USE DEF RcInv, TypeOK, Flags
<1>1. CASE CommitEnable
  BY <1>1 DEF CommitEnable, Commit, RegisterVblank
<1>2. CASE CommitFrame
  BY <1>2 DEF CommitFrame, Commit
<1>3. CASE CommitDisable
  BY <1>3 DEF CommitDisable, Commit
<1>4. CASE CommitSeamless
  BY <1>4, ZenonT(30) DEF CommitSeamless, HelperOn, IrqOn
<1>5. CASE PreModeset
  BY <1>5, ZenonT(30) DEF PreModeset, VblankDec
<1>6. CASE PostModeset
  BY <1>6 DEF PostModeset
<1>7. CASE VirtEnable
  BY <1>7, ZenonT(30) DEF VirtEnable, Kickoff, HelperOn, IrqOn
<1>8. CASE PrepareForKickoff
  BY <1>8, ZenonT(30) DEF PrepareForKickoff, Kickoff, HelperOn, IrqOn
<1>9. CASE VirtDisable
  BY <1>9 DEF VirtDisable, Kickoff, HelperOn, IrqOn
<1>10. CASE VirtDisablePreStop
  BY <1>10, ZenonT(30) DEF VirtDisablePreStop, PreStop, IrqOn
<1>11. CASE VirtDisableStop
  BY <1>11 DEF VirtDisableStop, Stop, HelperOff, IrqOff, VblankDec
<1>12. CASE CrtcDisable
  BY <1>12 DEF CrtcDisable, UnregisterVblank, VblankDec
<1>13. CASE OffWork
  BY <1>13 DEF OffWork, EnterIdle, HelperOff, IrqOff, VblankDec
<1>14. CASE InputEvent
  BY <1>14 DEF InputEvent
<1>15. CASE InputEventWork
  BY <1>15 DEF InputEventWork, EarlyWakeup, HelperOn, IrqOn
<1>16. CASE CrtcVblank
  BY <1>16 DEF CrtcVblank, RegisterVblank, UnregisterVblank, VblankDec
<1>17. CASE \E p \in Phys : FrameDoneBegin(p) \/ FrameDoneEnd(p)
  BY <1>17, ZenonT(30) DEF FrameDoneBegin, FrameDoneEnd, FrameDoneEvent
<1>18. CASE EsdTrigger
  BY <1>18 DEF EsdTrigger, Kickoff, HelperOn, IrqOn, RcUnlocked
<1>19. CASE SuspendWait
  BY <1>19 DEF SuspendWait
<1>20. CASE SuspendIdle
  BY <1>20 DEF SuspendIdle, EnterIdle, HelperOff, IrqOff, VblankDec, RcUnlocked
<1>21. CASE Quiet
  BY <1>21 DEF Quiet
<1>22. CASE CommitKickoff \/ EncoderKickoff \/ WaitForCommitDone
         \/ FrameEventWork
  BY <1>22 DEF CommitKickoff, EncoderKickoff, WaitForCommitDone, FrameEventWork
<1> QED
  BY <1>1, <1>2, <1>3, <1>4, <1>5, <1>6, <1>7, <1>8, <1>9, <1>10, <1>11, <1>12,
     <1>13, <1>14, <1>15, <1>16, <1>17, <1>18, <1>19, <1>20, <1>21, <1>22
     DEF Steps, CommitStep

LEMMA TrackingStep ==
  ASSUME RcInv, Steps, scenario' = scenario
  PROVE  Tracking'
<1> USE DEF RcInv, TypeOK, Tracking, MaxCommits, MaxInputs
<1>0. scenario.commits \in Nat /\ scenario.inputs \in Nat
  BY RcAssumption DEF ScenarioType
<1>1. CASE CommitEnable
  BY <1>0, <1>1 DEF CommitEnable, Commit, RegisterVblank
<1>2. CASE CommitFrame
  BY <1>0, <1>2 DEF CommitFrame, Commit
<1>3. CASE CommitDisable
  BY <1>0, <1>3 DEF CommitDisable, Commit
<1>4. CASE CommitSeamless
  BY <1>0, <1>4 DEF CommitSeamless, HelperOn, IrqOn
<1>5. CASE CommitKickoff
  BY <1>5 DEF CommitKickoff
<1>6. CASE EncoderKickoff
  BY <1>6 DEF EncoderKickoff
<1>7. CASE CrtcDisable
  BY <1>7 DEF CrtcDisable, UnregisterVblank
<1>8. CASE InputEvent
  BY <1>0, <1>8 DEF InputEvent
<1>9. CASE \E p \in Phys : FrameDoneBegin(p) \/ FrameDoneEnd(p)
  BY <1>9 DEF FrameDoneBegin, FrameDoneEnd, FrameDoneEvent
<1>10. CASE FrameEventWork
  BY <1>10 DEF FrameEventWork
<1>11. CASE PreModeset \/ PostModeset \/ VirtEnable \/ PrepareForKickoff
         \/ WaitForCommitDone \/ VirtDisable \/ VirtDisablePreStop
         \/ VirtDisableStop \/ OffWork \/ InputEventWork \/ CrtcVblank
         \/ EsdTrigger \/ SuspendWait \/ SuspendIdle \/ Quiet
  BY <1>11 DEF PreModeset, PostModeset, VirtEnable, Kickoff, HelperOn, IrqOn,
              PrepareForKickoff, WaitForCommitDone, VirtDisable,
              VirtDisablePreStop, PreStop, VirtDisableStop, Stop, HelperOff,
              OffWork, EnterIdle, InputEventWork, EarlyWakeup, CrtcVblank,
              RegisterVblank, UnregisterVblank, EsdTrigger, RcUnlocked,
              SuspendWait, SuspendIdle, Quiet
<1> QED
  BY <1>1, <1>2, <1>3, <1>4, <1>5, <1>6, <1>7, <1>8, <1>9, <1>10, <1>11
     DEF Steps, CommitStep

LEMMA ControlStep ==
  ASSUME RcInv, Steps, scenario' = scenario
  PROVE  Control'
<1> USE DEF RcInv, TypeOK, Control, RcStates, Places
<1>1. CASE CommitEnable
  BY <1>1 DEF CommitEnable, Commit, RegisterVblank
<1>2. CASE CommitSeamless
  BY <1>2 DEF CommitSeamless, HelperOn, IrqOn
<1>3. CASE PreModeset
  BY <1>3 DEF PreModeset
<1>4. CASE PostModeset
  BY <1>4 DEF PostModeset
<1>5. CASE VirtEnable
  BY <1>5 DEF VirtEnable, Kickoff, HelperOn, IrqOn
<1>6. CASE PrepareForKickoff
  BY <1>6 DEF PrepareForKickoff, Kickoff, HelperOn, IrqOn
<1>7. CASE VirtDisable
  BY <1>7 DEF VirtDisable, Kickoff, HelperOn, IrqOn
<1>8. CASE VirtDisablePreStop
  BY <1>8 DEF VirtDisablePreStop, PreStop, IrqOn
<1>9. CASE VirtDisableStop
  BY <1>9 DEF VirtDisableStop, Stop, HelperOff
<1>10. CASE OffWork
  BY <1>10 DEF OffWork, EnterIdle, HelperOff
<1>11. CASE InputEventWork
  BY <1>11 DEF InputEventWork, EarlyWakeup, HelperOn, IrqOn
<1>12. CASE EsdTrigger
  BY <1>12 DEF EsdTrigger, Kickoff, HelperOn, IrqOn, RcUnlocked
<1>13. CASE SuspendIdle
  BY <1>13 DEF SuspendIdle, EnterIdle, HelperOff, RcUnlocked
<1>14. CASE CommitFrame \/ CommitDisable \/ CommitKickoff \/ EncoderKickoff
         \/ WaitForCommitDone \/ CrtcDisable \/ InputEvent \/ CrtcVblank
         \/ (\E p \in Phys : FrameDoneBegin(p) \/ FrameDoneEnd(p))
         \/ FrameEventWork \/ SuspendWait \/ Quiet
  BY <1>14 DEF CommitFrame, Commit, CommitDisable, CommitKickoff,
              EncoderKickoff, WaitForCommitDone, CrtcDisable, UnregisterVblank,
              InputEvent, CrtcVblank, RegisterVblank, FrameDoneBegin,
              FrameDoneEnd, FrameDoneEvent, FrameEventWork, SuspendWait, Quiet
<1> QED
  BY <1>1, <1>2, <1>3, <1>4, <1>5, <1>6, <1>7, <1>8, <1>9, <1>10, <1>11, <1>12,
     <1>13, <1>14
     DEF Steps, CommitStep

LEMMA TypeStep ==
  ASSUME RcInv, Steps, scenario' = scenario
  PROVE  TypeOK'
  BY CountersStep, FlagsStep, TrackingStep, ControlStep DEF TypeOK, Flags, Tracking,
     Control

-----------------------------------------------------------------------------
(* One lemma per part of the invariant, one step per action that touches   *)
(* it; the last case collects the actions that leave it alone.             *)

\* Where the states can be met.
LEMMA StateStep ==
  ASSUME RcInv, Steps, scenario' = scenario
  PROVE  StateAtPlace'
<1> USE DEF RcInv, TypeOK, StateAtPlace, RcStates
<1>1. CASE CommitSeamless
  BY <1>1 DEF CommitSeamless, HelperOn, IrqOn
<1>2. CASE PreModeset
  BY <1>2 DEF PreModeset, VblankDec
<1>3. CASE PostModeset
  BY <1>3 DEF PostModeset
<1>4. CASE VirtEnable
  BY <1>4 DEF VirtEnable, Kickoff, HelperOn, IrqOn
<1>5. CASE PrepareForKickoff
  BY <1>5 DEF PrepareForKickoff, Kickoff, HelperOn, IrqOn
<1>6. CASE VirtDisable
  BY <1>6 DEF VirtDisable, Kickoff, HelperOn, IrqOn
<1>7. CASE VirtDisablePreStop
  BY <1>7 DEF VirtDisablePreStop, PreStop, IrqOn
<1>8. CASE VirtDisableStop
  BY <1>8 DEF VirtDisableStop, Stop, HelperOff, IrqOff, VblankDec
<1>9. CASE CrtcDisable
  BY <1>9 DEF CrtcDisable, UnregisterVblank, VblankDec
<1>10. CASE OffWork
  BY <1>10 DEF OffWork, EnterIdle, HelperOff, IrqOff, VblankDec
<1>11. CASE InputEventWork
  BY <1>11 DEF InputEventWork, EarlyWakeup, HelperOn, IrqOn
<1>12. CASE EsdTrigger
  BY <1>12 DEF EsdTrigger, Kickoff, HelperOn, IrqOn, RcUnlocked
<1>13. CASE SuspendIdle
  BY <1>13 DEF SuspendIdle, EnterIdle, HelperOff, IrqOff, VblankDec, RcUnlocked
<1>14. CASE CommitEnable \/ CommitFrame \/ CommitDisable \/ CommitKickoff
         \/ EncoderKickoff \/ WaitForCommitDone \/ InputEvent \/ CrtcVblank
         \/ (\E p \in Phys : FrameDoneBegin(p) \/ FrameDoneEnd(p))
         \/ FrameEventWork \/ SuspendWait \/ Quiet
  BY <1>14 DEF CommitEnable, Commit, RegisterVblank, CommitFrame,
              CommitDisable, CommitKickoff, EncoderKickoff, WaitForCommitDone,
              InputEvent, CrtcVblank, UnregisterVblank, VblankDec,
              FrameDoneBegin, FrameDoneEnd, FrameDoneEvent, FrameEventWork,
              SuspendWait, Quiet
<1> QED
  BY <1>1, <1>2, <1>3, <1>4, <1>5, <1>6, <1>7, <1>8, <1>9, <1>10, <1>11, <1>12,
     <1>13, <1>14
     DEF Steps, CommitStep

\* Input work is queued for command mode panels only.
LEMMA InputsStep ==
  ASSUME RcInv, Steps, scenario' = scenario
  PROVE  InputsOfPanels'
<1> USE DEF RcInv, InputsOfPanels
<1>1. CASE InputEvent
  BY <1>1 DEF InputEvent
<1>2. CASE InputEventWork
  BY <1>2 DEF InputEventWork
<1>3. CASE CommitEnable \/ CommitFrame \/ CommitDisable \/ CommitSeamless
        \/ PreModeset \/ PostModeset \/ VirtEnable \/ PrepareForKickoff
        \/ CommitKickoff \/ EncoderKickoff \/ WaitForCommitDone \/ VirtDisable
        \/ VirtDisablePreStop \/ VirtDisableStop \/ CrtcDisable \/ OffWork
        \/ CrtcVblank
        \/ (\E p \in Phys : FrameDoneBegin(p) \/ FrameDoneEnd(p))
        \/ FrameEventWork \/ EsdTrigger \/ SuspendWait \/ SuspendIdle \/ Quiet
  BY <1>3 DEF CommitEnable, Commit, CommitFrame, CommitDisable, CommitSeamless,
             PreModeset, PostModeset, VirtEnable, PrepareForKickoff,
             CommitKickoff, EncoderKickoff, WaitForCommitDone, VirtDisable,
             VirtDisablePreStop, VirtDisableStop, CrtcDisable, OffWork,
             CrtcVblank, FrameDoneBegin, FrameDoneEnd, FrameDoneEvent,
             FrameEventWork, EsdTrigger, SuspendWait, SuspendIdle, Quiet
<1> QED
  BY <1>1, <1>2, <1>3
     DEF Steps, CommitStep

\* HelperOff runs only in states that hold the references.
LEMMA HeldStep ==
  ASSUME RcInv, Steps, scenario' = scenario
  PROVE  ClocksHeld'
<1> USE DEF RcInv, TypeOK, StateAtPlace, ClocksHeld, Held, RcStates
<1>1. CASE CommitSeamless
  BY <1>1 DEF CommitSeamless, HelperOn, IrqOn
<1>2. CASE PreModeset
  BY <1>2 DEF PreModeset, VblankDec
<1>3. CASE PostModeset
  BY <1>3 DEF PostModeset
<1>4. CASE VirtEnable
  BY <1>4 DEF VirtEnable, Kickoff, HelperOn, IrqOn
<1>5. CASE PrepareForKickoff
  BY <1>5 DEF PrepareForKickoff, Kickoff, HelperOn, IrqOn
<1>6. CASE VirtDisable
  BY <1>6 DEF VirtDisable, Kickoff, HelperOn, IrqOn
<1>7. CASE VirtDisablePreStop
  BY <1>7 DEF VirtDisablePreStop, PreStop, IrqOn
<1>8. CASE VirtDisableStop
  BY <1>8 DEF VirtDisableStop, Stop, HelperOff, IrqOff, VblankDec
<1>9. CASE OffWork
  BY <1>9 DEF OffWork, EnterIdle, HelperOff, IrqOff, VblankDec
<1>10. CASE InputEventWork
  BY <1>10 DEF InputEventWork, EarlyWakeup, HelperOn, IrqOn
<1>11. CASE EsdTrigger
  BY <1>11 DEF EsdTrigger, Kickoff, HelperOn, IrqOn, RcUnlocked
<1>12. CASE SuspendIdle
  BY <1>12 DEF SuspendIdle, EnterIdle, HelperOff, IrqOff, VblankDec, RcUnlocked
<1>13. CASE CommitEnable \/ CommitFrame \/ CommitDisable \/ CommitKickoff
         \/ EncoderKickoff \/ WaitForCommitDone \/ CrtcDisable \/ InputEvent
         \/ CrtcVblank
         \/ (\E p \in Phys : FrameDoneBegin(p) \/ FrameDoneEnd(p))
         \/ FrameEventWork \/ SuspendWait \/ Quiet
  BY <1>13 DEF CommitEnable, Commit, RegisterVblank, CommitFrame,
              CommitDisable, CommitKickoff, EncoderKickoff, WaitForCommitDone,
              CrtcDisable, UnregisterVblank, VblankDec, InputEvent, CrtcVblank,
              FrameDoneBegin, FrameDoneEnd, FrameDoneEvent, FrameEventWork,
              SuspendWait, Quiet
<1> QED
  BY <1>1, <1>2, <1>3, <1>4, <1>5, <1>6, <1>7, <1>8, <1>9, <1>10, <1>11, <1>12,
     <1>13
     DEF Steps, CommitStep

\* HelperOn runs only in states that hold none.
LEMMA BalancedStep ==
  ASSUME RcInv, Steps, scenario' = scenario
  PROVE  ClocksBalanced'
<1> USE DEF RcInv, TypeOK, StateAtPlace, InputsOfPanels, ClocksHeld,
            ClocksBalanced, Held, RcStates
<1>1. CASE CommitSeamless
  <2> SUFFICES ASSUME Fault \cap {"pm", "rm"} = {}, "vidswitch" \notin Actors
               PROVE  pm' = B(Held') /\ clk' = B(Held')
    OBVIOUS
  <2>1. disp = "free" /\ rc_state \in {"OFF", "ON", "IDLE"} /\ ~vid
    BY <1>1 DEF CommitSeamless
  <2>2. CASE rc_state \in {"OFF", "ON"}
    BY <1>1, <2>1, <2>2 DEF CommitSeamless
  <2>3. CASE rc_state = "IDLE"
    <3>1. PICK o \in {"ok", "pm", "clk"} : HelperOn(o)
      BY <1>1, <2>3 DEF CommitSeamless
    <3> QED
      BY <2>1, <2>3, <3>1 DEF HelperOn, IrqOn
  <2> QED
    BY <2>1, <2>2, <2>3
<1>2. CASE PreModeset
  BY <1>2 DEF PreModeset, VblankDec
<1>3. CASE PostModeset
  BY <1>3 DEF PostModeset
<1>4. CASE VirtEnable
  BY <1>4 DEF VirtEnable, Kickoff, HelperOn, IrqOn
<1>5. CASE PrepareForKickoff
  BY <1>5 DEF PrepareForKickoff, Kickoff, HelperOn, IrqOn
<1>6. CASE VirtDisable
  BY <1>6 DEF VirtDisable, Kickoff, HelperOn, IrqOn
<1>7. CASE VirtDisablePreStop
  BY <1>7 DEF VirtDisablePreStop, PreStop, IrqOn
<1>8. CASE VirtDisableStop
  BY <1>8 DEF VirtDisableStop, Stop, HelperOff, IrqOff, VblankDec
<1>9. CASE OffWork
  BY <1>9 DEF OffWork, EnterIdle, HelperOff, IrqOff, VblankDec
<1>10. CASE InputEventWork
  BY <1>10 DEF InputEventWork, EarlyWakeup, HelperOn, IrqOn
<1>11. CASE EsdTrigger
  BY <1>11 DEF EsdTrigger, Kickoff, HelperOn, IrqOn, RcUnlocked
<1>12. CASE SuspendIdle
  BY <1>12 DEF SuspendIdle, EnterIdle, HelperOff, IrqOff, VblankDec, RcUnlocked
<1>13. CASE CommitEnable \/ CommitFrame \/ CommitDisable \/ CommitKickoff
         \/ EncoderKickoff \/ WaitForCommitDone \/ CrtcDisable \/ InputEvent
         \/ CrtcVblank
         \/ (\E p \in Phys : FrameDoneBegin(p) \/ FrameDoneEnd(p))
         \/ FrameEventWork \/ SuspendWait \/ Quiet
  BY <1>13 DEF CommitEnable, Commit, RegisterVblank, CommitFrame,
              CommitDisable, CommitKickoff, EncoderKickoff, WaitForCommitDone,
              CrtcDisable, UnregisterVblank, VblankDec, InputEvent, CrtcVblank,
              FrameDoneBegin, FrameDoneEnd, FrameDoneEvent, FrameEventWork,
              SuspendWait, Quiet
<1> QED
  BY <1>1, <1>2, <1>3, <1>4, <1>5, <1>6, <1>7, <1>8, <1>9, <1>10, <1>11, <1>12,
     <1>13
     DEF Steps, CommitStep

\* Interrupts and the count of the vblank interrupt.
LEMMA VblankStep ==
  ASSUME RcInv, Steps, scenario' = scenario
  PROVE  VblankCounted'
<1> USE DEF RcInv, TypeOK, StateAtPlace, VblankCounted, RcStates
<1>1. CASE CommitEnable
  BY <1>1 DEF CommitEnable, Commit, RegisterVblank
<1>2. CASE CommitFrame
  BY <1>2 DEF CommitFrame, Commit
<1>3. CASE CommitDisable
  BY <1>3 DEF CommitDisable, Commit
<1>4. CASE CommitSeamless
  BY <1>4 DEF CommitSeamless, HelperOn, IrqOn
<1>5. CASE PreModeset
  BY <1>5 DEF PreModeset, VblankDec
<1>6. CASE PostModeset
  BY <1>6 DEF PostModeset
<1>7. CASE VirtEnable
  BY <1>7 DEF VirtEnable, Kickoff, HelperOn, IrqOn
<1>8. CASE PrepareForKickoff
  BY <1>8 DEF PrepareForKickoff, Kickoff, HelperOn, IrqOn
<1>9. CASE VirtDisable
  BY <1>9 DEF VirtDisable, Kickoff, HelperOn, IrqOn
<1>10. CASE VirtDisablePreStop
  BY <1>10 DEF VirtDisablePreStop, PreStop, IrqOn
<1>11. CASE VirtDisableStop
  BY <1>11 DEF VirtDisableStop, Stop, HelperOff, IrqOff, VblankDec
<1>12. CASE CrtcDisable
  BY <1>12 DEF CrtcDisable, UnregisterVblank, VblankDec
<1>13. CASE OffWork
  BY <1>13 DEF OffWork, EnterIdle, HelperOff, IrqOff, VblankDec
<1>14. CASE InputEventWork
  BY <1>14 DEF InputEventWork, EarlyWakeup, HelperOn, IrqOn
<1>15. CASE CrtcVblank
  <2>1. rc_state' = rc_state /\ irq' = irq /\ attached' = attached /\ disp' = disp
    BY <1>15 DEF CrtcVblank
  <2>2. "rm" \notin Fault => rc_state # "MODESET" /\ disp = "free"
    BY <1>15 DEF CrtcVblank
  <2>3. CASE attached /\ vblank_requested
    <3>1. ~vblank_requested' /\ UnregisterVblank
      BY <1>15, <2>3 DEF CrtcVblank
    <3> QED
      BY <2>1, <2>2, <2>3, <3>1 DEF UnregisterVblank, VblankDec
  <2>4. CASE attached /\ ~vblank_requested
    <3>1. vblank_requested' /\ RegisterVblank
      BY <1>15, <2>4 DEF CrtcVblank
    <3> QED
      BY <2>1, <2>2, <2>4, <3>1 DEF RegisterVblank
  <2>5. CASE ~attached
    BY <1>15, <2>1, <2>2, <2>5 DEF CrtcVblank
  <2> QED
    BY <2>3, <2>4, <2>5
<1>16. CASE EsdTrigger
  BY <1>16 DEF EsdTrigger, Kickoff, HelperOn, IrqOn, RcUnlocked
<1>17. CASE SuspendIdle
  BY <1>17 DEF SuspendIdle, EnterIdle, HelperOff, IrqOff, VblankDec, RcUnlocked
<1>18. CASE CommitKickoff \/ EncoderKickoff \/ WaitForCommitDone \/ InputEvent
         \/ (\E p \in Phys : FrameDoneBegin(p) \/ FrameDoneEnd(p))
         \/ FrameEventWork \/ SuspendWait \/ Quiet
  BY <1>18 DEF CommitKickoff, EncoderKickoff, WaitForCommitDone, InputEvent,
              FrameDoneBegin, FrameDoneEnd, FrameDoneEvent, FrameEventWork,
              SuspendWait, Quiet
<1> QED
  BY <1>1, <1>2, <1>3, <1>4, <1>5, <1>6, <1>7, <1>8, <1>9, <1>10, <1>11, <1>12,
     <1>13, <1>14, <1>15, <1>16, <1>17, <1>18
     DEF Steps, CommitStep

\* The vote of the RSC client.
LEMMA RscStep ==
  ASSUME RcInv, Steps, scenario' = scenario
  PROVE  RscVoteFollows'
<1> USE DEF RcInv, TypeOK, StateAtPlace, RscVoteFollows, RcStates
<1>1. CASE CommitSeamless
  BY <1>1 DEF CommitSeamless, HelperOn, IrqOn
<1>2. CASE PreModeset
  BY <1>2 DEF PreModeset, VblankDec
<1>3. CASE PostModeset
  BY <1>3 DEF PostModeset
<1>4. CASE VirtEnable
  BY <1>4 DEF VirtEnable, Kickoff, HelperOn, IrqOn
<1>5. CASE PrepareForKickoff
  BY <1>5 DEF PrepareForKickoff, Kickoff, HelperOn, IrqOn
<1>6. CASE VirtDisable
  BY <1>6 DEF VirtDisable, Kickoff, HelperOn, IrqOn
<1>7. CASE VirtDisablePreStop
  BY <1>7 DEF VirtDisablePreStop, PreStop, IrqOn
<1>8. CASE VirtDisableStop
  BY <1>8 DEF VirtDisableStop, Stop, HelperOff, IrqOff, VblankDec
<1>9. CASE OffWork
  BY <1>9 DEF OffWork, EnterIdle, HelperOff, IrqOff, VblankDec
<1>10. CASE InputEventWork
  BY <1>10 DEF InputEventWork, EarlyWakeup, HelperOn, IrqOn
<1>11. CASE EsdTrigger
  BY <1>11 DEF EsdTrigger, Kickoff, HelperOn, IrqOn, RcUnlocked
<1>12. CASE SuspendIdle
  BY <1>12 DEF SuspendIdle, EnterIdle, HelperOff, IrqOff, VblankDec, RcUnlocked
<1>13. CASE CommitEnable \/ CommitFrame \/ CommitDisable \/ CommitKickoff
         \/ EncoderKickoff \/ WaitForCommitDone \/ CrtcDisable \/ InputEvent
         \/ CrtcVblank
         \/ (\E p \in Phys : FrameDoneBegin(p) \/ FrameDoneEnd(p))
         \/ FrameEventWork \/ SuspendWait \/ Quiet
  BY <1>13 DEF CommitEnable, Commit, RegisterVblank, CommitFrame,
              CommitDisable, CommitKickoff, EncoderKickoff, WaitForCommitDone,
              CrtcDisable, UnregisterVblank, VblankDec, InputEvent, CrtcVblank,
              FrameDoneBegin, FrameDoneEnd, FrameDoneEvent, FrameEventWork,
              SuspendWait, Quiet
<1> QED
  BY <1>1, <1>2, <1>3, <1>4, <1>5, <1>6, <1>7, <1>8, <1>9, <1>10, <1>11, <1>12,
     <1>13
     DEF Steps, CommitStep

\* Frames of an undisturbed display.
LEMMA FramesStep ==
  ASSUME RcInv, Steps, scenario' = scenario
  PROVE  FramesUndisturbed'
<1> USE DEF RcInv, TypeOK, StateAtPlace, FramesUndisturbed, RcStates,
            Undisturbed, Transferring, Stopping, TxTimedOut
<1>1. CASE CommitEnable
  BY <1>1 DEF CommitEnable, Commit, RegisterVblank
<1>2. CASE CommitFrame
  BY <1>2 DEF CommitFrame, Commit
<1>3. CASE CommitDisable
  BY <1>3 DEF CommitDisable, Commit
<1>4. CASE CommitSeamless
  BY <1>4 DEF CommitSeamless, HelperOn, IrqOn
<1>5. CASE PreModeset
  BY <1>5 DEF PreModeset, VblankDec
<1>6. CASE PostModeset
  BY <1>6 DEF PostModeset
<1>7. CASE VirtEnable
  BY <1>7 DEF VirtEnable, Kickoff, HelperOn, IrqOn
<1>8. CASE PrepareForKickoff
  BY <1>8 DEF PrepareForKickoff, Kickoff, HelperOn, IrqOn
<1>9. CASE CommitKickoff
  BY <1>9 DEF CommitKickoff
<1>10. CASE EncoderKickoff
  BY <1>10, RcAssumption DEF EncoderKickoff
<1>11. CASE WaitForCommitDone
  BY <1>11 DEF WaitForCommitDone
<1>12. CASE VirtDisable
  BY <1>12 DEF VirtDisable, Kickoff, HelperOn, IrqOn
<1>13. CASE VirtDisablePreStop
  BY <1>13 DEF VirtDisablePreStop, PreStop, IrqOn
<1>14. CASE VirtDisableStop
  BY <1>14 DEF VirtDisableStop, Stop, HelperOff, IrqOff, VblankDec
<1>15. CASE CrtcDisable
  BY <1>15 DEF CrtcDisable, UnregisterVblank, VblankDec
<1>16. CASE OffWork
  BY <1>16 DEF OffWork, EnterIdle, HelperOff, IrqOff, VblankDec
<1>17. CASE InputEventWork
  BY <1>17 DEF InputEventWork, EarlyWakeup, HelperOn, IrqOn
<1>18. CASE \E p \in Phys : FrameDoneBegin(p) \/ FrameDoneEnd(p)
  BY <1>18 DEF FrameDoneBegin, FrameDoneEnd, FrameDoneEvent
<1>19. CASE FrameEventWork
  BY <1>19 DEF FrameEventWork
<1>20. CASE EsdTrigger
  BY <1>20 DEF EsdTrigger, Kickoff, HelperOn, IrqOn, RcUnlocked
<1>21. CASE SuspendIdle
  BY <1>21 DEF SuspendIdle, EnterIdle, HelperOff, IrqOff, VblankDec, RcUnlocked
<1>22. CASE InputEvent \/ CrtcVblank \/ SuspendWait \/ Quiet
  BY <1>22 DEF InputEvent, CrtcVblank, RegisterVblank, UnregisterVblank,
              VblankDec, SuspendWait, Quiet
<1> QED
  BY <1>1, <1>2, <1>3, <1>4, <1>5, <1>6, <1>7, <1>8, <1>9, <1>10, <1>11, <1>12,
     <1>13, <1>14, <1>15, <1>16, <1>17, <1>18, <1>19, <1>20, <1>21, <1>22
     DEF Steps, CommitStep

-----------------------------------------------------------------------------
(* The theorems.                                                           *)

LEMMA RcStepInv == RcInv /\ [Next]_vars => RcInv'
<1> SUFFICES ASSUME RcInv, [Next]_vars PROVE RcInv'
  OBVIOUS
<1>1. CASE Next
  <2>1. Steps /\ scenario' = scenario
    BY <1>1 DEF Next
  <2> QED
    BY <2>1, TypeStep, StateStep, InputsStep, HeldStep, BalancedStep, VblankStep,
       RscStep, FramesStep DEF RcInv
<1>2. CASE UNCHANGED vars
  BY <1>2 DEF vars, RcInv, TypeOK, StateAtPlace, InputsOfPanels, ClocksHeld,
     ClocksBalanced, VblankCounted, RscVoteFollows, FramesUndisturbed, Held,
     Transferring, Undisturbed, MaxCommits, MaxInputs
<1> QED
  BY <1>1, <1>2

LEMMA RcInvariant == Spec => []RcInv
  BY RcInitInv, RcStepInv, PTL DEF Spec

(***************************************************************************)
(* The references that resource control takes and gives back follow its    *)
(* state (sde_encoder_resource_control): runtime PM, DSI clocks, the       *)
(* vblank interrupt and the RSC vote, for commits, idle, wake-up, mode     *)
(* set, stop, dead panels and suspend in any order and any number.         *)
(***************************************************************************)
THEOREM RcReferences == Spec => [](TypeOK /\ ReferencesBalanced)
<1>1. RcInv => TypeOK /\ ReferencesBalanced
  BY DEF RcInv, ReferencesBalanced, VblankBalanced, VblankCounted, StateAtPlace
<1> QED
  BY <1>1, RcInvariant, PTL

\* No reference count of resource control drops below zero, whatever fails
\* and whatever comes twice (_sde_encoder_resource_control_helper).
THEOREM RcTypes == Spec => []TypeOK
<1>1. RcInv => TypeOK
  BY DEF RcInv
<1> QED
  BY <1>1, RcInvariant, PTL

(***************************************************************************)
(* A frame in transfer keeps its clocks, interrupts and RSC vote: neither  *)
(* the off work nor a mode switch nor a stop takes them away               *)
(* (SDE_ENC_RC_EVENT_ENTER_IDLE, PRE_MODESET and PRE_STOP).                *)
(***************************************************************************)
THEOREM RcFrameResources == Spec => []FrameHasResources
<1>1. RcInv => FrameHasResources
  BY DEF RcInv, FrameHasResources, FramesUndisturbed, VblankCounted, RscVoteFollows,
         Undisturbed
<1> QED
  BY <1>1, RcInvariant, PTL

(***************************************************************************)
(* The CRTC counts a frame as pending until its transfer is over           *)
(* (sde_crtc_commit_kickoff, sde_crtc_frame_event_work): no event of an    *)
(* earlier frame, nor of the display before it was disabled, counts it     *)
(* down.                                                                   *)
(***************************************************************************)
THEOREM RcFramePending == Spec => []PendingWhileBusy
<1>1. RcInv => PendingWhileBusy
  BY DEF RcInv, TypeOK, PendingWhileBusy, FramesUndisturbed, Transferring
<1> QED
  BY <1>1, RcInvariant, PTL
=============================================================================
