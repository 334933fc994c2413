------------------------------- MODULE SdeRm -------------------------------
(***************************************************************************)
(* Reservation of hardware blocks for displays (msm/sde/sde_rm.c).  A      *)
(* state of the resource manager maps every block to the encoder that has  *)
(* reserved it; the atomic check works on a copy that becomes the state of *)
(* the device when the commit is swapped in.                               *)
(*                                                                         *)
(* Searches go through the blocks in catalog order and take the first fit. *)
(* ROI MISR, QDSS, ping-pong split and concurrent writeback requirements   *)
(* are left out, and so are the interfaces, which are fixed per encoder.   *)
(***************************************************************************)
EXTENDS Integers, FiniteSets, SequencesExt

CONSTANTS
    Display,      \* encoders, each with its CRTC and connector
    LmList,       \* layer mixers in catalog order
    LmCfg,        \* LM |-> [pp, dspp, ds, pair: peers, pref]
    CtlList,      \* CTLs in catalog order
    CtlCfg,       \* CTL |-> [split, pref]
    DscList,      \* DSC encoders in catalog order
    DscPair,      \* DSC |-> peers
    CdmList,      \* chroma down modules
    NeedsCdm,     \* displays with a chroma down module
    WantsDspp,    \* displays that ask for a DSPP
    WantsDs,      \* displays that ask for a destination scaler
    Primary,      \* displays that are primary
    TopologyTbl,  \* name |-> [num_lm, num_ctl, num_comp_enc, needs_split_display]
    None

Connected(lm) == {lm, LmCfg[lm].pp, LmCfg[lm].dspp, LmCfg[lm].ds} \ {None}

Blk == (UNION {Connected(lm) : lm \in ToSet(LmList)})
           \cup ToSet(CtlList) \cup ToSet(DscList) \cup ToSet(CdmList)

\* The catalog lists blocks by type: a block has one type, and every mixer and
\* compressor is a block of its own.
ASSUME RmAssumption ==
    /\ LmList \in Seq(Blk) /\ CtlList \in Seq(Blk)
    /\ DscList \in Seq(Blk) /\ CdmList \in Seq(Blk)
    /\ None \notin Display /\ None \notin ToSet(LmList)
    /\ \A lm \in ToSet(LmList) :
         Connected(lm) \cap ToSet(LmList) = {lm} /\ Connected(lm) \cap ToSet(DscList) = {}
    /\ (ToSet(LmList) \cup ToSet(DscList)) \cap (ToSet(CtlList) \cup ToSet(CdmList)) = {}
    /\ ToSet(LmList) \cap ToSet(DscList) = {}

State == [Blk -> Display \cup {None}]

ReservedByOther(s, e, b) == s[b] \notin {None, e}

BlocksOf(s, e) == {b \in Blk : s[b] = e}

Reserve(s, e, blks) == [b \in Blk |-> IF b \in blks THEN e ELSE s[b]]

\* _sde_rm_populate_requirements.
Requirements(e, name) ==
    [topology |-> TopologyTbl[name], dspp |-> e \in WantsDspp, ds |-> e \in WantsDs,
     primary |-> e \in Primary]

-----------------------------------------------------------------------------
\* _sde_rm_check_lm_and_get_connected_blks; primary is None for a first mixer.
CheckLm(s, e, r, lm, primary) ==
    /\ primary # None => lm \in LmCfg[primary].pair
    /\ IF LmCfg[lm].pref THEN r.primary
       ELSE (LmCfg[lm].dspp # None) = r.dspp /\ (LmCfg[lm].ds # None) = r.ds
    /\ \A b \in Connected(lm) : ~ReservedByOther(s, e, b)

\* The first entry of a list, given the places of those that fit.
First(list, places) == list[CHOOSE i \in places : \A j \in places : i <= j]

\* A mixer that fits is taken together with the first peer that fits, or left
\* if it needs a peer and has none.
LmStep(s, e, r, taken, lm) ==
    LET num == r.topology.num_lm
        peers == {i \in DOMAIN LmList :
                    /\ LmList[i] # lm /\ LmList[i] \notin taken
                    /\ CheckLm(s, e, r, LmList[i], lm)}
    IN IF Cardinality(taken) = num \/ lm \in taken \/ ~CheckLm(s, e, r, lm, None)
         THEN taken
       ELSE IF Cardinality(taken) + 1 = num THEN taken \cup {lm}
       ELSE IF peers # {} THEN taken \cup {lm, First(LmList, peers)}
       ELSE taken

\* One pass through the mixers.
LmPass(s, e, r, taken) ==
    LET upto[n \in 0 .. Len(LmList)] ==
            IF n = 0 THEN taken ELSE LmStep(s, e, r, upto[n - 1], LmList[n])
    IN upto[Len(LmList)]

\* _sde_rm_reserve_lms: mixers without DSPP and scaler are given away first.
FindLms(s, e, r) ==
    LET dspp == [r EXCEPT !.dspp = TRUE]
        low == LmPass(s, e, r, {})
        mid == IF r.dspp THEN low ELSE LmPass(s, e, dspp, low)
    IN IF r.ds THEN mid ELSE LmPass(s, e, [dspp EXCEPT !.ds = TRUE], mid)

\* _sde_rm_reserve_ctls: the first that fit; none is reserved if too few do.
ReserveCtls(s, e, r) ==
    LET fits == {i \in DOMAIN CtlList :
                   /\ ~ReservedByOther(s, e, CtlList[i])
                   /\ IF CtlCfg[CtlList[i]].pref THEN r.primary
                      ELSE CtlCfg[CtlList[i]].split = r.topology.needs_split_display}
        num == r.topology.num_ctl
        ctls == {i \in fits : Cardinality({j \in fits : j < i}) < num}
    IN IF Cardinality(fits) < num THEN s ELSE Reserve(s, e, {CtlList[i] : i \in ctls})

\* DSC encoders are taken one by one, in pairs like the mixers.
DscStep(s, e, num, taken, dsc) ==
    LET peers == {i \in DOMAIN DscList :
                    /\ DscList[i] # dsc /\ DscList[i] \notin taken
                    /\ DscList[i] \in DscPair[dsc]
                    /\ ~ReservedByOther(s, e, DscList[i])}
    IN IF Cardinality(taken) = num \/ dsc \in taken \/ ReservedByOther(s, e, dsc)
         THEN taken
       ELSE IF Cardinality(taken) + 1 = num THEN taken \cup {dsc}
       ELSE IF peers # {} THEN taken \cup {dsc, First(DscList, peers)}
       ELSE taken

\* _sde_rm_reserve_dsc.
FindDscs(s, e, num) ==
    LET upto[n \in 0 .. Len(DscList)] ==
            IF n = 0 THEN {} ELSE DscStep(s, e, num, upto[n - 1], DscList[n])
    IN upto[Len(DscList)]

\* _sde_rm_reserve_cdm.
FindCdms(s, e) ==
    IF e \in NeedsCdm
      THEN {i \in DOMAIN CdmList : ~ReservedByOther(s, e, CdmList[i])} ELSE {}

\* _sde_rm_make_next_rsvp: the new state, or None if a block is missing.  The
\* result of _sde_rm_reserve_ctls is not looked at.
MakeNextRsvp(s, e, name) ==
    LET r == Requirements(e, name)
        lms == FindLms(s, e, r)
        s1 == Reserve(s, e, UNION {Connected(lm) : lm \in lms})
        s2 == ReserveCtls(s1, e, r)
        cdms == FindCdms(s2, e)
        s3 == Reserve(s2, e, IF cdms = {} THEN {} ELSE {First(CdmList, cdms)})
        dscs == FindDscs(s3, e, r.topology.num_comp_enc)
    IN IF \/ Cardinality(lms) # r.topology.num_lm
          \/ e \in NeedsCdm /\ cdms = {}
          \/ Cardinality(dscs) # r.topology.num_comp_enc
         THEN None
       ELSE Reserve(s3, e, dscs)

\* _sde_rm_release_rsvp.
ReleaseRsvp(s, es) == [b \in Blk |-> IF s[b] \in es THEN None ELSE s[b]]

\* Mutant: the blocks the displays give up are not in the mask.
ResourceMaskNew(old, new, es) == {b \in Blk : new[b] \in es}

\* sde_rm_atomic_get_resource_mask for the displays with a mode set.
ResourceMask(old, new, es) == {b \in Blk : old[b] \in es \/ new[b] \in es}
=============================================================================
