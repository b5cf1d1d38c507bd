------------------------------- MODULE SmfQos -------------------------------
(***************************************************************************)
(* How a QoS decision of the PCF becomes PDRs and QERs of the UPF.         *)
(*                                                                         *)
(* One PDU session (one SMContext of the SMF, one UPF, one data path node  *)
(* per data path).  The PCF keeps the policy decision of the session,      *)
(* changes it for the requests of application functions, and sends         *)
(* notifications in goroutines of their own.  The SMF applies a            *)
(* notification under SMLock: it creates and marks data paths              *)
(* (ApplyPccRules), sends one PFCP request (ActivateUPFSession) and frees  *)
(* what was marked (PostRemoveDataPath).  The iterations of its loops over *)
(* Go maps are steps of their own, taken in any order.                     *)
(*                                                                         *)
(* Abstracted: a QoS datum is its rate; a data path is one PDR (the uplink *)
(* and the downlink PDR with their FARs change together); traffic control  *)
(* and charging data are left out; path and QER ids come from generators   *)
(* over 2^16 or 2^32 numbers, so a fresh id is one nobody still holds.     *)
(***************************************************************************)
EXTENDS Integers, FiniteSets, FiniteSetsExt

CONSTANTS
    InitRules,      \* PCC rules of the decision that creates the session
    AfRules,        \* ids PccRuleIdGenerator gives to rules of app sessions
    InfluenceRules, \* ... and to rules of traffic influence data
    BadRules,       \* influence rules whose AppID matches no configured PFD
    DefRule,        \* the PCC rule of precedence 255, if the decision has it
    Qos,            \* ids of QoS data
    NoQos,          \* stands for the empty RefQosDataID
    RefQos,         \* the QoS datum a rule refers to
    Gbr,            \* QoS data whose 5QI is a GBR one
    Rates,          \* bit rates of QoS data
    AmbrRate,       \* session AMBR
    InitQos,        \* QosDecs of the first decision
    PathIds, QerIds, MaxQFI,
    Sequential,     \* a request waits until the one before it took effect
    LossyN4,        \* a PFCP modification may fail
    PartialPcf      \* the PCF may send a QoS datum without its rules

Rules == InitRules \cup AfRules \cup InfluenceRules
QFIs == 0..MaxQFI
RateOr0 == Rates \cup {0}
States == {"none", "INITIAL", "CREATE", "REMOVE"}

ASSUME ConstantsOK ==
    /\ Rules \subseteq Nat \ {0}
    /\ InitRules \cap (AfRules \cup InfluenceRules) = {}
    /\ AfRules \cap InfluenceRules = {}
    /\ BadRules \subseteq InfluenceRules
    /\ NoQos \notin Qos
    /\ RefQos \in [Rules -> Qos \cup {NoQos}]
    /\ Gbr \subseteq Qos
    /\ Rates \subseteq Nat \ {0}
    /\ AmbrRate \in Nat \ {0}
    /\ InitQos \in [Qos -> RateOr0]
    /\ PathIds \subseteq Nat \ {0}
    /\ QerIds \subseteq Nat \ {0} /\ IsFiniteSet(QerIds)
    /\ MaxQFI \in Nat \ {0, 1}
    /\ {Sequential, LossyN4, PartialPcf} \subseteq BOOLEAN

VARIABLES
    \* the PCF
    pcfRules, pcfQos,  \* PolicyDecision.PccRules and .QosDecs
    usedIds,           \* rule ids handed out so far
    posting,           \* POSTs whose goroutine has not yet read the decision
    net,               \* notifications sent and not yet received
    \* the handler that holds SMLock
    pc, dec, todo,
    \* the SMContext
    PCCRules, finalPccRules,
    QosDatas, finalQosDatas,
    qosDataToQFI, qfiOffset,
    ctx,               \* data paths, QERs and the maps over them
    est,               \* the PFCP session is established
    \* the UPF
    upf

pcfVars == <<pcfRules, pcfQos, usedIds, posting>>
ruleVars == <<PCCRules, finalPccRules, QosDatas, finalQosDatas,
              qosDataToQFI, qfiOffset>>
vars == <<pcfVars, net, pc, dec, todo, ruleVars, ctx, est, upf>>

NoRule == [path |-> 0, qfi |-> 0]
NoPath == [rule |-> 0, qers |-> {}, default |-> FALSE, pdr |-> "none"]
NoQer == [qfi |-> 0, rate |-> 0, state |-> "none", pooled |-> FALSE]
NoDec == [of |-> 0, kind |-> "none", inst |-> {}, del |-> {},
          qos |-> [q \in Qos |-> 0], qdel |-> {}]

PathRec == [rule : Rules \cup {0}, qers : SUBSET QerIds,
            default : BOOLEAN, pdr : States]
QerRec == [qfi : QFIs, rate : Nat, state : States, pooled : BOOLEAN]
RuleRec == [path : PathIds \cup {0}, qfi : QFIs]
CtxRec == [pool : [PathIds -> PathRec], doomed : SUBSET PathIds,
           qer : [QerIds -> QerRec], qerUpfMap : [QFIs -> QerIds \cup {0}],
           ambr : QerIds \cup {0}, flows : SUBSET QFIs]
UpfRec == [pdrs : SUBSET PathIds, refs : [PathIds -> SUBSET QerIds],
           qer : [QerIds -> Nat]]
DecRec == [of : Rules \cup {0},
           kind : {"none", "create", "post", "patch", "delete", "qos"},
           inst : SUBSET Rules, del : SUBSET Rules,
           qos : [Qos -> RateOr0], qdel : SUBSET Qos]

-----------------------------------------------------------------------------
(* The data paths of a context c                                            *)

Pool(c) == {p \in PathIds : c.pool[p].pdr # "none"}

\* QERs that some data path object refers to
Held(c) == UNION {c.pool[p].qers : p \in PathIds}

FreshPaths(c) == {p \in PathIds \ Pool(c) : p \notin upf.pdrs}
FreshQers(c) ==
    {d \in QerIds : ~c.qer[d].pooled /\ d \notin Held(c) /\ upf.qer[d] = 0}

GetDefaultPath(c) == {p \in Pool(c) : c.pool[p].default}

NewQer(qfi, rate) ==
    [qfi |-> qfi, rate |-> rate, state |-> "INITIAL", pooled |-> TRUE]

\* AddQER for the session AMBR, once per UPF
AmbrQer(c) ==
    IF c.ambr # 0 THEN c
    ELSE LET d == Min(FreshQers(c))
         IN  [c EXCEPT !.ambr = d, !.qer[d] = NewQer(1, AmbrRate)]

\* Activate data path p: its PDR exists and, for a non-GBR flow, refers to
\* the AMBR QER if that is still in the pool.
ActivateTunnelAndPDR(c, p, r, default, gbr) ==
    LET a == AmbrQer(c)
    IN  [a EXCEPT !.pool[p] =
            [rule |-> r, default |-> default, pdr |-> "INITIAL",
             qers |-> IF a.qer[a.ambr].pooled /\ ~gbr THEN {a.ambr} ELSE {}]]

\* Faulty variant: a QER that exists already is not attached.
AddQoS_OnlyNew(c, p, qfi, rate) ==
    LET d == Min(FreshQers(c))
    IN  IF rate = 0 \/ c.qerUpfMap[qfi] # 0 THEN c
        ELSE [c EXCEPT !.qer[d] = NewQer(qfi, rate),
                       !.qerUpfMap[qfi] = d,
                       !.pool[p].qers = @ \cup {d}]

\* The QER of a QFI is created once and found again through QerUpfMap; the
\* rates of a QER that is found again are left as they are.
AddQoS(c, p, qfi, rate) ==
    LET known == c.qerUpfMap[qfi]
        d     == Min(FreshQers(c))
    IN  CASE rate = 0 -> c
          [] rate # 0 /\ known = 0 ->
               [c EXCEPT !.qer[d] = NewQer(qfi, rate),
                         !.qerUpfMap[qfi] = d,
                         !.pool[p].qers = @ \cup {d}]
          [] rate # 0 /\ known # 0 ->
               [c EXCEPT !.pool[p].qers =
                            IF c.qer[known].pooled THEN @ \cup {known} ELSE @]

AddQosFlow(c, qfi, rate) ==
    IF rate = 0 THEN c ELSE [c EXCEPT !.flows = @ \cup {qfi}]

CreatePccRuleDataPath(c, p, r, qfi, rate) ==
    LET q       == RefQos[r]
        default == GetDefaultPath(c) = {} /\ r = DefRule
        a       == ActivateTunnelAndPDR(c, p, r, default, rate # 0 /\ q \in Gbr)
    IN  IF q = NoQos THEN a
        ELSE AddQosFlow(AddQoS(a, p, qfi, rate), qfi, rate)

\* Faulty variant: no QER is ever marked.
refreshQERRemovalState_Never(c) == c

\* Faulty variant: sharing is not looked at.
refreshQERRemovalState_Unconditional(c) ==
    LET going == UNION {c.pool[p].qers : p \in c.doomed}
    IN  [c EXCEPT !.qer = [d \in QerIds |->
            IF d \in going THEN [c.qer[d] EXCEPT !.state = "REMOVE"]
            ELSE c.qer[d]]]

\* A QER of the paths to be removed is marked REMOVE, unless a path that
\* stays holds a QER of the same QFI.
refreshQERRemovalState(c) ==
    LET going == UNION {c.pool[p].qers : p \in c.doomed}
        kept  == UNION {c.pool[p].qers : p \in Pool(c) \ c.doomed}
    IN  [c EXCEPT !.qer = [d \in QerIds |->
            IF d \notin going THEN c.qer[d]
            ELSE [c.qer[d] EXCEPT !.state =
                    IF \E k \in kept : c.qer[k].qfi = c.qer[d].qfi
                    THEN "CREATE" ELSE "REMOVE"]]]

\* Mark data path p (0: the rule has none).
PreRemoveDataPath(c, p) ==
    IF p = 0 THEN c
    ELSE refreshQERRemovalState(
            [c EXCEPT !.pool[p].pdr = "REMOVE", !.doomed = @ \cup {p}])

\* Faulty variant: QerUpfMap keeps the key of a removed QER.
PostRemoveDataPath_KeepsMap(c) ==
    LET gone == {d \in UNION {c.pool[p].qers : p \in c.doomed} :
                    c.qer[d].state = "REMOVE"}
    IN  [c EXCEPT
            !.qer = [d \in QerIds |->
                IF d \in gone THEN [c.qer[d] EXCEPT !.pooled = FALSE]
                ELSE c.qer[d]],
            !.pool = [p \in PathIds |->
                IF p \in c.doomed THEN NoPath ELSE c.pool[p]],
            !.doomed = {}]

\* The QERs of the marked paths that no other path shares leave QerUpfMap and
\* the pool of the UPF object; the paths leave the pool of the tunnel.
PostRemoveDataPath(c) ==
    LET gone == {d \in UNION {c.pool[p].qers : p \in c.doomed} :
                    c.qer[d].state = "REMOVE"}
    IN  [c EXCEPT
            !.qerUpfMap = [f \in QFIs |->
                IF \E d \in gone : c.qer[d].qfi = f THEN 0 ELSE c.qerUpfMap[f]],
            !.qer = [d \in QerIds |->
                IF d \in gone THEN [c.qer[d] EXCEPT !.pooled = FALSE]
                ELSE c.qer[d]],
            !.pool = [p \in PathIds |->
                IF p \in c.doomed THEN NoPath ELSE c.pool[p]],
            !.doomed = {}]

-----------------------------------------------------------------------------
(* QFIs                                                                      *)

\* idgenerator: the next unused number from the offset on, cyclically
FreeQFIs == (2..MaxQFI) \ {qosDataToQFI[q] : q \in Qos}

NextQFI ==
    LET ahead == {f \in FreeQFIs : f >= qfiOffset}
    IN  IF ahead # {} THEN Min(ahead) ELSE Min(FreeQFIs)

\* The QFI of a QoS datum; 0 when there is none left
AssignQFI(q) ==
    CASE q = NoQos                               -> 0
      [] q # NoQos /\ qosDataToQFI[q] # 0         -> qosDataToQFI[q]
      [] q # NoQos /\ qosDataToQFI[q] = 0 /\ FreeQFIs = {} -> 0
      [] q # NoQos /\ qosDataToQFI[q] = 0 /\ FreeQFIs # {} -> NextQFI

\* Faulty variant: the offset does not wrap.
NextOffset_NoWrap(q) ==
    LET f == AssignQFI(q)
    IN  IF q = NoQos \/ f = 0 \/ qosDataToQFI[q] # 0 THEN qfiOffset ELSE f + 1

NextOffset(q) ==
    LET f == AssignQFI(q)
    IN  IF q = NoQos \/ f = 0 \/ qosDataToQFI[q] # 0 THEN qfiOffset
        ELSE IF f = MaxQFI THEN 2 ELSE f + 1

-----------------------------------------------------------------------------
(* The PCF                                                                   *)

\* nothing is on its way from the PCF to the UPF
Quiet == posting = {} /\ net = {} /\ pc = "idle"

\* The bound on ids: what lost requests leave in the UPF uses them up.
Room ==
    LossyN4 => /\ Cardinality(FreshPaths(ctx)) > Cardinality(Rules)
               /\ Cardinality(FreshQers(ctx)) > Cardinality(Qos) + 1

MayRequest == Room /\ (Sequential => Quiet)

Fresh(S) == S \ usedIds # {}
FreshId(S) == Min(S \ usedIds)

Notify(of, kind, inst, del, qos, qdel) ==
    [of |-> of, kind |-> kind, inst |-> inst, del |-> del,
     qos |-> qos, qdel |-> qdel]

NoQosDecs == [q \in Qos |-> 0]

\* A new app session: one rule with a QoS datum of its own.  The goroutine
\* gets a pointer to the decision and reads it later.
postAppSessCtx(rate) ==
    /\ MayRequest /\ Fresh(AfRules)
    /\ LET r == FreshId(AfRules) IN
        /\ pcfRules' = pcfRules \cup {r}
        /\ pcfQos' = [pcfQos EXCEPT ![RefQos[r]] = rate]
        /\ usedIds' = usedIds \cup {r}
        /\ posting' = posting \cup {r}
    /\ UNCHANGED <<net, pc, dec, todo, ruleVars, ctx, est, upf>>

\* The goroutine of a POST (or of new influence data) marshals the decision.
SendSMPolicyUpdateNotification(r) ==
    /\ r \in posting
    /\ posting' = posting \ {r}
    /\ net' = net \cup {Notify(r, "post", pcfRules, {}, pcfQos, {})}
    /\ UNCHANGED <<pcfRules, pcfQos, usedIds, pc, dec, todo, ruleVars, ctx,
                   est, upf>>

\* A PATCH replaces the rule and the QoS datum of an app session by new ones.
HandleModAppSessionContext(r, rate) ==
    /\ MayRequest /\ Fresh(AfRules)
    /\ r \in pcfRules \cap AfRules
    /\ LET n == FreshId(AfRules) IN
        /\ pcfRules' = (pcfRules \ {r}) \cup {n}
        /\ pcfQos' = [pcfQos EXCEPT ![RefQos[r]] = 0, ![RefQos[n]] = rate]
        /\ usedIds' = usedIds \cup {n}
        /\ net' = net \cup
             {Notify(n, "patch", pcfRules', {r}, pcfQos', {RefQos[r]} \cap Qos)}
    /\ UNCHANGED <<posting, pc, dec, todo, ruleVars, ctx, est, upf>>

\* RemovePccRule names the rule in the notification, not its QoS datum.
Remove(r) ==
    /\ pcfRules' = pcfRules \ {r}
    /\ pcfQos' = IF RefQos[r] = NoQos THEN pcfQos
                 ELSE [pcfQos EXCEPT ![RefQos[r]] = 0]
    /\ net' = net \cup {Notify(r, "delete", {}, {r}, NoQosDecs, {})}
    /\ UNCHANGED <<usedIds, posting, pc, dec, todo, ruleVars, ctx, est, upf>>

HandleDeleteAppSessionContext(r) ==
    /\ MayRequest
    /\ r \in pcfRules \cap AfRules
    /\ Remove(r)

\* Traffic influence data: a rule with an AppID, no flow and no QoS datum
NewInfluenceData ==
    /\ MayRequest /\ Fresh(InfluenceRules)
    /\ LET r == FreshId(InfluenceRules) IN
        /\ pcfRules' = pcfRules \cup {r}
        /\ usedIds' = usedIds \cup {r}
        /\ posting' = posting \cup {r}
    /\ UNCHANGED <<pcfQos, net, pc, dec, todo, ruleVars, ctx, est, upf>>

RemoveInfluenceData(r) ==
    /\ MayRequest
    /\ r \in pcfRules \cap InfluenceRules
    /\ Remove(r)

\* A PCF that sends a changed QoS datum alone: this one does not, the branch
\* "PccRules not in decision" of ApplyPccRules is there for it.
UpdateQosData(q, rate) ==
    /\ PartialPcf /\ MayRequest
    /\ pcfQos[q] \notin {0, rate}
    /\ pcfQos' = [pcfQos EXCEPT ![q] = rate]
    /\ net' = net \cup {Notify(0, "qos", {}, {}, [NoQosDecs EXCEPT ![q] = rate], {})}
    /\ UNCHANGED <<pcfRules, usedIds, posting, pc, dec, todo, ruleVars, ctx,
                   est, upf>>

PcfNext ==
    \/ \E rate \in Rates : postAppSessCtx(rate)
    \/ \E r \in Rules : SendSMPolicyUpdateNotification(r)
    \/ \E r \in Rules, rate \in Rates : HandleModAppSessionContext(r, rate)
    \/ \E r \in Rules : HandleDeleteAppSessionContext(r)
    \/ NewInfluenceData
    \/ \E r \in Rules : RemoveInfluenceData(r)
    \/ \E q \in Qos, rate \in Rates : UpdateQosData(q, rate)

-----------------------------------------------------------------------------
(* The SMF, under SMLock                                                     *)

\* Faulty variant: only deletions are looked at.
HandleSMPolicyUpdateNotify_OnlyDeletes(n) ==
    /\ pc = "idle"
    /\ n \in net
    /\ net' = net \ {n}
    /\ pc' = "inDecision"
    /\ dec' = n
    /\ todo' = n.del
    /\ finalPccRules' = [r \in Rules |-> NoRule]
    /\ finalQosDatas' = NoQosDecs
    /\ UNCHANGED <<pcfVars, PCCRules, QosDatas, qosDataToQFI, qfiOffset, ctx,
                   est, upf>>

\* Take a notification; QoS data that are nil in it give up their QFI.
HandleSMPolicyUpdateNotify(n) ==
    /\ pc = "idle"
    /\ n \in net
    /\ net' = net \ {n}
    /\ pc' = "inDecision"
    /\ dec' = n
    /\ todo' = n.inst \cup n.del
    /\ qosDataToQFI' =
         [q \in Qos |-> IF q \in n.qdel THEN 0 ELSE qosDataToQFI[q]]
    /\ ctx' = [ctx EXCEPT !.flows =
                 @ \ ({qosDataToQFI[q] : q \in n.qdel} \ {0})]
    /\ finalPccRules' = [r \in Rules |-> NoRule]
    /\ finalQosDatas' = NoQosDecs
    /\ UNCHANGED <<pcfVars, PCCRules, QosDatas, qfiOffset, est, upf>>

\* the QoS datum a rule has, and the one it will have: the decision's or the same
SourceQos(q) == IF q = NoQos THEN 0 ELSE QosDatas[q]
TargetQos(q) ==
    IF q # NoQos /\ dec.qos[q] # 0 THEN dec.qos[q] ELSE SourceQos(q)

\* Faulty variant: the rule goes, its data path stays.
RemovePccRule_NoPreRemove(r) ==
    /\ pc = "inDecision"
    /\ r \in todo \cap dec.del
    /\ PCCRules' = [PCCRules EXCEPT ![r] = NoRule]
    /\ todo' = todo \ {r}
    /\ UNCHANGED <<pcfVars, net, pc, dec, finalPccRules, QosDatas,
                   finalQosDatas, qosDataToQFI, qfiOffset, ctx, est, upf>>

RemovePccRule(r) ==
    /\ pc = "inDecision"
    /\ r \in todo \cap dec.del
    /\ ctx' = PreRemoveDataPath(ctx, PCCRules[r].path)
    /\ PCCRules' = [PCCRules EXCEPT ![r] = NoRule]
    /\ todo' = todo \ {r}
    /\ UNCHANGED <<pcfVars, net, pc, dec, finalPccRules, QosDatas,
                   finalQosDatas, qosDataToQFI, qfiOffset, est, upf>>

\* Faulty variant: the old data path is not marked.
NewThenOld_NoPreRemove(p, r) ==
    CreatePccRuleDataPath(ctx, p, r, AssignQFI(RefQos[r]), TargetQos(RefQos[r]))

\* The new data path exists before the old one is marked.
NewThenOld(p, r) ==
    PreRemoveDataPath(
        CreatePccRuleDataPath(ctx, p, r, AssignQFI(RefQos[r]), TargetQos(RefQos[r])),
        PCCRules[r].path)

SetQFI(r) ==
    /\ qosDataToQFI' = [q \in Qos |->
         IF q = RefQos[r] THEN AssignQFI(q) ELSE qosDataToQFI[q]]
    /\ qfiOffset' = NextOffset(RefQos[r])

InstallPccRule(r) ==
    /\ pc = "inDecision"
    /\ r \in (todo \cap dec.inst) \ BadRules
    /\ FreshPaths(ctx) # {} /\ Cardinality(FreshQers(ctx)) > 1
    /\ LET p == Min(FreshPaths(ctx)) IN
        /\ ctx' = NewThenOld(p, r)
        /\ finalPccRules' = [finalPccRules EXCEPT ![r] =
             [path |-> p, qfi |-> AssignQFI(RefQos[r])]]
    /\ finalQosDatas' = [q \in Qos |->
         IF q = RefQos[r] THEN TargetQos(q) ELSE finalQosDatas[q]]
    /\ SetQFI(r)
    /\ PCCRules' = [PCCRules EXCEPT ![r] = NoRule]
    /\ todo' = todo \ {r}
    /\ UNCHANGED <<pcfVars, net, pc, dec, QosDatas, est, upf>>

\* applyFlowInfoOrPFD fails after the data path was created: ApplyPccRules
\* returns with the rules it has handled already taken out of PCCRules, and the
\* notification handler returns without a PFCP request.
InstallPccRuleFails(r) ==
    /\ pc = "inDecision"
    /\ r \in todo \cap dec.inst \cap BadRules
    /\ FreshPaths(ctx) # {} /\ Cardinality(FreshQers(ctx)) > 1
    /\ ctx' = NewThenOld(Min(FreshPaths(ctx)), r)
    /\ SetQFI(r)
    /\ todo' = {}
    /\ pc' = "idle"
    /\ UNCHANGED <<pcfVars, net, dec, PCCRules, finalPccRules, QosDatas,
                   finalQosDatas, est, upf>>

\* Faulty variant: a rule the decision does not name is forgotten.
EndInDecision_Forgets ==
    /\ pc = "inDecision" /\ todo = {}
    /\ pc' = "notInDecision"
    /\ UNCHANGED <<pcfVars, net, dec, todo, ruleVars, ctx, est, upf>>

EndInDecision ==
    /\ pc = "inDecision" /\ todo = {}
    /\ pc' = "notInDecision"
    /\ todo' = {r \in Rules : PCCRules[r] # NoRule}
    /\ UNCHANGED <<pcfVars, net, dec, ruleVars, ctx, est, upf>>

Keep(r, rule) ==
    /\ finalPccRules' = [finalPccRules EXCEPT ![r] = rule]
    /\ finalQosDatas' = [q \in Qos |->
         IF q = RefQos[r] THEN TargetQos(q) ELSE finalQosDatas[q]]
    /\ todo' = todo \ {r}
    /\ UNCHANGED <<pcfVars, net, pc, dec, PCCRules, QosDatas, qosDataToQFI,
                   qfiOffset, est, upf>>

SameQos(r) == TargetQos(RefQos[r]) = SourceQos(RefQos[r])

KeepPccRule(r) ==
    /\ pc = "notInDecision" /\ r \in todo
    /\ SameQos(r)
    /\ Keep(r, PCCRules[r])
    /\ UNCHANGED ctx

\* The old data path is marked before the new one exists.
ChangePccRule(r) ==
    /\ pc = "notInDecision" /\ r \in todo
    /\ ~SameQos(r)
    /\ FreshPaths(ctx) # {} /\ Cardinality(FreshQers(ctx)) > 1
    /\ LET p == Min(FreshPaths(ctx)) IN
        /\ ctx' = CreatePccRuleDataPath(
                     PreRemoveDataPath(ctx, PCCRules[r].path),
                     p, r, PCCRules[r].qfi, TargetQos(RefQos[r]))
        /\ Keep(r, [PCCRules[r] EXCEPT !.path = p])

\* SelectDefaultDataPath, part of the creation of the session only
SelectDefaultDataPath(c) ==
    IF GetDefaultPath(c) # {} THEN c
    ELSE ActivateTunnelAndPDR(c, Min(FreshPaths(c)), 0, TRUE, FALSE)

EndApplyPccRules ==
    /\ pc = "notInDecision" /\ todo = {}
    /\ ~est => FreshPaths(ctx) # {} /\ Cardinality(FreshQers(ctx)) > 1
    /\ PCCRules' = finalPccRules
    /\ QosDatas' = finalQosDatas
    /\ ctx' = IF est THEN ctx ELSE SelectDefaultDataPath(ctx)
    /\ pc' = "activate"
    /\ UNCHANGED <<pcfVars, net, dec, todo, finalPccRules, finalQosDatas,
                   qosDataToQFI, qfiOffset, est, upf>>

\* the PDRs and the QERs a request is built from, by state
Asked(c, state) == {p \in PathIds : c.pool[p].pdr = state}
AskedQers(c, state) == {d \in Held(c) : c.qer[d].state = state}

\* What BuildPfcpSessionModificationRequest leaves of the rule states: a PDR
\* counts as created whatever was asked, a QER marked REMOVE keeps its mark.
Sent(c) ==
    LET created == IF est THEN AskedQers(c, "INITIAL") ELSE Held(c)
    IN  [c EXCEPT
            !.pool = [p \in PathIds |->
                IF p \in Pool(c) THEN [c.pool[p] EXCEPT !.pdr = "CREATE"]
                ELSE c.pool[p]],
            !.qer = [d \in QerIds |->
                IF d \in created THEN [c.qer[d] EXCEPT !.state = "CREATE"]
                ELSE c.qer[d]]]

\* The UPF creates first and removes afterwards; an establishment only creates.
Applied(c) ==
    LET newP  == Asked(c, "INITIAL")
        newQ  == AskedQers(c, "INITIAL")
        goneP == IF est THEN Asked(c, "REMOVE") ELSE {}
        goneQ == IF est THEN AskedQers(c, "REMOVE") ELSE {}
    IN  [pdrs |-> (upf.pdrs \cup newP) \ goneP,
         refs |-> [p \in PathIds |->
            CASE p \in goneP -> {}
              [] p \in newP  -> c.pool[p].qers
              [] p \notin goneP \cup newP -> upf.refs[p]],
         qer |-> [d \in QerIds |->
            CASE d \in goneQ -> 0
              [] d \in newQ  -> c.qer[d].rate
              [] d \notin goneQ \cup newQ -> upf.qer[d]]]

ActivateUPFSession ==
    /\ pc = "activate"
    /\ upf' = Applied(ctx)
    /\ ctx' = Sent(ctx)
    /\ est' = TRUE
    /\ pc' = "postRemove"
    /\ UNCHANGED <<pcfVars, net, dec, todo, ruleVars>>

\* waitAllPfcpRsp drops the result of a failed modification: the handler of a
\* notification passes no function to report it to.
ModificationFails ==
    /\ pc = "activate" /\ est /\ LossyN4
    /\ ctx' = Sent(ctx)
    /\ pc' = "postRemove"
    /\ UNCHANGED <<pcfVars, net, dec, todo, ruleVars, est, upf>>

EndNotification ==
    /\ pc = "postRemove"
    /\ ctx' = PostRemoveDataPath(ctx)
    /\ pc' = "idle"
    /\ UNCHANGED <<pcfVars, net, dec, todo, ruleVars, est, upf>>

SmfNext ==
    \/ \E n \in net : HandleSMPolicyUpdateNotify(n)
    \/ \E r \in todo : \/ RemovePccRule(r)
                       \/ InstallPccRule(r)
                       \/ InstallPccRuleFails(r)
                       \/ KeepPccRule(r)
                       \/ ChangePccRule(r)
    \/ EndInDecision
    \/ EndApplyPccRules
    \/ ActivateUPFSession
    \/ ModificationFails
    \/ EndNotification

-----------------------------------------------------------------------------

\* HandlePDUSessionSMContextCreate has the first decision and is about to
\* apply it.
Init ==
    /\ pcfRules = InitRules
    /\ pcfQos = InitQos
    /\ usedIds = {}
    /\ posting = {}
    /\ net = {}
    /\ pc = "inDecision"
    /\ dec = Notify(0, "create", InitRules, {}, InitQos, {})
    /\ todo = InitRules
    /\ PCCRules = [r \in Rules |-> NoRule]
    /\ finalPccRules = [r \in Rules |-> NoRule]
    /\ QosDatas = NoQosDecs
    /\ finalQosDatas = NoQosDecs
    /\ qosDataToQFI = [q \in Qos |-> 0]
    /\ qfiOffset = 2
    /\ ctx = [pool |-> [p \in PathIds |-> NoPath], doomed |-> {},
              qer |-> [d \in QerIds |-> NoQer],
              qerUpfMap |-> [f \in QFIs |-> 0], ambr |-> 0, flows |-> {}]
    /\ est = FALSE
    /\ upf = [pdrs |-> {}, refs |-> [p \in PathIds |-> {}],
              qer |-> [d \in QerIds |-> 0]]

\* nobody asks for anything
Rest == Quiet /\ UNCHANGED vars

Next == PcfNext \/ SmfNext \/ Rest

Spec == Init /\ [][Next]_vars

\* The goroutines of the PCF run and the SMF's handler goes on.
Fairness ==
    /\ WF_vars(SmfNext)
    /\ WF_vars(\E r \in Rules : SendSMPolicyUpdateNotification(r))

FairSpec == Spec /\ Fairness

-----------------------------------------------------------------------------
(* Properties                                                                *)

\* Every variable holds what its Go counterpart may hold; the offset of the
\* QFI generator stays within 2..MaxQFI.
TypeOK ==
    /\ pcfRules \subseteq Rules
    /\ pcfQos \in [Qos -> RateOr0]
    /\ usedIds \subseteq Rules
    /\ posting \subseteq Rules
    /\ net \subseteq DecRec
    /\ pc \in {"inDecision", "notInDecision", "activate", "postRemove", "idle"}
    /\ dec \in DecRec
    /\ todo \subseteq Rules
    /\ PCCRules \in [Rules -> RuleRec]
    /\ finalPccRules \in [Rules -> RuleRec]
    /\ QosDatas \in [Qos -> RateOr0]
    /\ finalQosDatas \in [Qos -> RateOr0]
    /\ qosDataToQFI \in [Qos -> QFIs]
    /\ qfiOffset \in 2..MaxQFI
    /\ ctx \in CtxRec
    /\ est \in BOOLEAN
    /\ upf \in UpfRec

\* no handler runs and the session exists
AtRest == pc = "idle" /\ est

\* the rules the SMF has installed
Installed == {r \in Rules : PCCRules[r] # NoRule}

\* Between two notifications the UPF holds exactly the PDRs of the SMF's data
\* paths, each with the QERs of its path, and no QER that no path refers to
\* (refreshQERRemovalState, PostRemoveDataPath: no residual QER).
UpfMatchesPool ==
    AtRest =>
        /\ upf.pdrs = Pool(ctx)
        /\ \A p \in Pool(ctx) : upf.refs[p] = ctx.pool[p].qers
        /\ \A d \in QerIds : upf.qer[d] # 0 <=> d \in Held(ctx)

\* The PDR of every installed rule refers to a QER that the UPF holds with the
\* rate of the rule's QoS datum (AddQoS finds QERs again by QFI).
RatesInstalled ==
    AtRest => \A r \in Installed :
        LET q == RefQos[r]
        IN  q # NoQos /\ QosDatas[q] # 0 =>
                \E d \in upf.refs[PCCRules[r].path] : upf.qer[d] = QosDatas[q]

\* A QER the next request asks the UPF to remove is not referred to by a path
\* that stays (the comment of refreshQERRemovalState).
QerRemovalUnshared ==
    pc = "activate" => \A d \in AskedQers(ctx, "REMOVE") :
        \A p \in Pool(ctx) \ ctx.doomed : d \notin ctx.pool[p].qers

\* what QerMapLive says of a context
MapLive(c) ==
    \A f \in QFIs : c.qerUpfMap[f] # 0 =>
        /\ c.qer[c.qerUpfMap[f]].pooled
        /\ c.qer[c.qerUpfMap[f]].qfi = f

\* Whatever fails, QerUpfMap names only QERs that are still in the pool of the
\* UPF object, under their own QFI: AddQoS would attach none for another.
QerMapLive == MapLive(ctx)

\* Whatever fails, the UPF keeps the session AMBR QER once it has it.
AmbrInstalled == est => upf.qer[ctx.ambr] = AmbrRate

\* Between two notifications a data path is the default one or that of an
\* installed rule: nothing is left that no later decision can name.
NoOrphanPath ==
    AtRest => \A p \in Pool(ctx) :
        \/ ctx.pool[p].default
        \/ \E r \in Installed : PCCRules[r].path = p

\* When nothing is on its way, the SMF has installed the rules of the PCF's
\* decision, with the PCF's rates.
RulesConverge ==
    Quiet =>
        /\ Installed = pcfRules
        /\ \A r \in Installed :
              RefQos[r] # NoQos => QosDatas[RefQos[r]] = pcfQos[RefQos[r]]

\* A rule the PCF has deleted eventually has no data path.
DeletedRuleGone ==
    \A r \in AfRules :
        r \in usedIds \ pcfRules ~> \A p \in PathIds : ctx.pool[p].rule # r

\* A rule of the PCF's decision is eventually installed, unless withdrawn.
EventuallyInstalled ==
    \A r \in AfRules : r \in pcfRules ~> (r \in Installed \/ r \notin pcfRules)

=============================================================================
