------------------------------- MODULE PcfPolicy -------------------------------
(***************************************************************************)
(* The SM policy of one PDU session in the PCF: the PCC rules that AF       *)
(* requests and UE requests put into its decision, the guaranteed bit rate  *)
(* they reserve out of the aggregate of the DNN, the application sessions    *)
(* that name them, and what the SMF has been told.                           *)
(*                                                                          *)
(* The handlers of npcf-policyauthorization run concurrently and take no    *)
(* lock.  A request is one step to begin, one step for each media component *)
(* (the loops range over Go maps, so in any order) and one step to end; two *)
(* requests interleave between these steps.  The finer interleavings are    *)
(* unsynchronised accesses to Go maps and are not modelled.                 *)
(*                                                                          *)
(* A media component has one sub-component, as the NEF builds it from one   *)
(* flow info.  A bit rate 0 stands for an absent one.                       *)
(***************************************************************************)
EXTENDS Integers, FiniteSets, FiniteSetsExt, Functions

CONSTANTS
    Workers,     \* requests in progress at a time
    CompNs,      \* keys of a request's MedComponents
    Comps,       \* media components: [flows, qi, min, max]
    UpFlows,     \* the flows described by "permit in", the others are downlink
    UeQos,       \* UE requests: [flows, qi, min]
    Aggregate,   \* the aggregate GBR of the DNN, per direction
    MaxReq,      \* bound: requests in all
    Sponsored    \* whether requests may carry sponsored connectivity data

Dirs == {"ul", "dl"}

ASSUME PcfAssumption ==
    /\ IsFiniteSet(Comps) /\ IsFiniteSet(CompNs)
    /\ MaxReq \in Nat /\ Sponsored \in BOOLEAN
    /\ Aggregate \in [Dirs -> Nat]
    /\ \A c \in Comps : c.qi \in Nat /\ c.min \in [Dirs -> Nat] /\ c.max \in [Dirs -> Nat]
    /\ \A q \in UeQos : q.qi \in Nat /\ q.min \in [Dirs -> Nat]

Empty == << >>
Partial(V) == UNION {[ns -> V] : ns \in SUBSET CompNs}
Requests == Partial(Comps) \ {Empty}
Rule == [flows : SUBSET UNION {q.flows : q \in Comps \cup UeQos}, qi : Nat, rate : [Dirs -> Nat]]

VARIABLES
    rules,     \* PolicyDecision.PccRules with their QosDecs: id -> [flows, qi, rate]
    gen,       \* PccRuleIdGenerator
    remain,    \* RemainGbrUL, RemainGbrDL
    sess,      \* AppSessionData by number: [live, related, comps]
    told,      \* the rules the SMF holds, notifications applied as they are sent
    policy,    \* whether ue.SmPolicyData has the policy
    work,      \* the request each worker is serving
    reqs       \* requests so far

vars == <<rules, gen, remain, sess, told, policy, work, reqs>>
data == <<rules, gen, remain>>

Idle == [op |-> "idle"]

Ids == 1 .. gen - 1
Posts == [op : {"post"}, todo : Partial(Comps), comps : Requests, new : Partial(Ids)]
Patches == [op : {"patch"}, id : DOMAIN sess, todo : Partial(Comps), comps : Requests,
            new : Partial(Ids), prev : SUBSET Ids]

TypeOK ==
    /\ gen \in Nat \ {0}
    /\ DOMAIN rules \subseteq Ids /\ rules \in [DOMAIN rules -> Rule]
    /\ remain \in [Dirs -> Nat]
    /\ IsFiniteSet(DOMAIN sess) /\ DOMAIN sess = 1 .. Cardinality(DOMAIN sess)
    /\ \A s \in DOMAIN sess :
         sess[s] \in [live : BOOLEAN, related : Partial(Ids), comps : Partial(Comps)]
    /\ told \subseteq Ids
    /\ policy \in BOOLEAN
    /\ work \in [Workers -> {Idle} \cup Posts \cup Patches]

------------------------------------------------------------------------------
(* Bit rates. *)

\* Guaranteed bit rate applies to 5QI 1 to 4.
Gbr(qi) == qi <= 4

\* ulExist and dlExist: the directions of the flow descriptions.
Directions(comp) == {IF f \in UpFlows THEN "ul" ELSE "dl" : f \in comp.flows}

Exceeds_OffByOne(comp, d, rem) == comp.min[d] > rem[d] + 1

\* The comparison of DecreaseRamainBitRate.
Exceeds(comp, d, rem) == comp.min[d] > rem[d]

\* The GBR of the QoS data: the requested one; without one the MBR, or what is left of the aggregate.
Granted(comp, rem) ==
    [d \in Dirs |-> IF d \in Directions(comp) /\ comp.min[d] = 0
                    THEN Min({comp.max[d], rem[d]})
                    ELSE comp.min[d]]

\* Uplink first; when the downlink is refused the uplink rate is added back.
modifyRemainBitRate_KeepsUplink(comp, rem) ==
    LET dirs == Directions(comp)
        rate == Granted(comp, rem)
    IN IF \E d \in dirs : Exceeds(comp, d, rem)
       THEN [ok |-> FALSE, rate |-> rate, rem |-> [rem EXCEPT !["ul"] = @ + rate["ul"]]]
       ELSE [ok |-> TRUE, rate |-> rate,
             rem |-> [d \in Dirs |-> IF d \in dirs THEN rem[d] - rate[d] ELSE rem[d]]]

modifyRemainBitRate(comp, rem) ==
    LET dirs == Directions(comp)
        rate == Granted(comp, rem)
        ulTaken == IF "ul" \in dirs THEN rate["ul"] ELSE 0
    IN IF "ul" \in dirs /\ Exceeds(comp, "ul", rem)
       THEN [ok |-> FALSE, rate |-> rate, rem |-> rem]
       ELSE IF "dl" \in dirs /\ Exceeds(comp, "dl", rem)
       THEN [ok |-> FALSE, rate |-> rate, rem |-> [rem EXCEPT !["ul"] = (@ - ulTaken) + rate["ul"]]]
       ELSE [ok |-> TRUE, rate |-> rate,
             rem |-> [d \in Dirs |-> IF d \in dirs THEN rem[d] - rate[d] ELSE rem[d]]]

\* The rates of a removed rule go back, in both directions.
IncreaseRemainGBR(rule, rem) ==
    IF Gbr(rule.qi) THEN [d \in Dirs |-> rem[d] + rule.rate[d]] ELSE rem

------------------------------------------------------------------------------
(* The decision.  A state of it is a record d = [rules, gen, remain].        *)

Decision == [rules |-> rules, gen |-> gen, remain |-> remain]
SetDecision(d) == rules' = d.rules /\ gen' = d.gen /\ remain' = d.remain

Put(f, k, v) == [x \in DOMAIN f \cup {k} |-> IF x = k THEN v ELSE f[x]]
Without(f, ks) == [k \in DOMAIN f \ ks |-> f[k]]

\* A rule that is not there is only logged.
RemovePccRule(d, id) ==
    IF id \notin DOMAIN d.rules THEN d
    ELSE [d EXCEPT !.rules = Without(@, {id}),
                   !.remain = IncreaseRemainGBR(d.rules[id], @)]

\* A rule matches when all of its flows are among the requested ones.
GetPccRuleByFlowInfos(d, flows) == {r \in DOMAIN d.rules : d.rules[r].flows \subseteq flows}

NewRule_SameId(d, comp, rate, rem) ==
    [rules |-> Put(d.rules, d.gen, [flows |-> comp.flows, qi |-> comp.qi, rate |-> rate]),
     gen |-> 1 + Max({0} \cup DOMAIN d.rules), remain |-> rem]

NewRule(d, comp, rate, rem) ==
    [rules |-> Put(d.rules, d.gen, [flows |-> comp.flows, qi |-> comp.qi, rate |-> rate]),
     gen |-> d.gen + 1, remain |-> rem]

Zero == [d \in Dirs |-> 0]

(* The possible outcomes of a sub-component: [ok, id, d].  A matching rule   *)
(* of the same 5QI takes the new rates, and what it had is not given back.   *)
handleMediaSubComponent(d, comp) ==
    LET matching == GetPccRuleByFlowInfos(d, comp.flows)
        m == modifyRemainBitRate(comp, d.remain)
    IN IF matching = {}
       THEN {IF ~Gbr(comp.qi) THEN [ok |-> TRUE, id |-> d.gen, d |-> NewRule(d, comp, Zero, d.remain)]
             ELSE IF m.ok THEN [ok |-> TRUE, id |-> d.gen, d |-> NewRule(d, comp, m.rate, m.rem)]
             ELSE [ok |-> FALSE, id |-> 0, d |-> [d EXCEPT !.remain = m.rem]]}
       ELSE {IF d.rules[r].qi # comp.qi \/ ~Gbr(comp.qi) THEN [ok |-> TRUE, id |-> r, d |-> d]
             ELSE IF m.ok THEN [ok |-> TRUE, id |-> r,
                                d |-> [d EXCEPT !.rules[r].rate = m.rate, !.remain = m.rem]]
             ELSE [ok |-> FALSE, id |-> 0, d |-> [d EXCEPT !.remain = m.rem]] : r \in matching}

------------------------------------------------------------------------------
(* The SMF's rules after a notification, which it refuses without a session. *)

Notify(adds, drops) == told' = IF policy THEN (told \ drops) \cup adds ELSE told

------------------------------------------------------------------------------
(* Creating and modifying an application session. *)

Begin(w, request) ==
    /\ work[w] = Idle
    /\ reqs < MaxReq
    /\ reqs' = reqs + 1
    /\ work' = [work EXCEPT ![w] = request]

(* POST: the session binding is made when the request begins.               *)
PostBegin(w) ==
    /\ policy
    /\ \E r \in Requests :
         Begin(w, [op |-> "post", todo |-> r, comps |-> r, new |-> Empty])
    /\ UNCHANGED <<data, sess, told, policy>>

PatchBegin(w) ==
    /\ \E s \in DOMAIN sess, r \in Requests :
         /\ sess[s].live
         /\ Begin(w, [op |-> "patch", id |-> s, todo |-> r, comps |-> r, new |-> Empty,
                      prev |-> DOMAIN rules])
    /\ UNCHANGED <<data, sess, told, policy>>

(* removeMediaComp: the component must be among those of the last request,  *)
(* and its rule is removed when it had a sub-component.                      *)
Removable(s, n) ==
    /\ n \in DOMAIN sess[s].comps
    /\ sess[s].comps[n].flows # {}
    /\ n \in DOMAIN sess[s].related

removeMediaComp(s, n) ==
    [d |-> IF Removable(s, n) THEN RemovePccRule(Decision, sess[s].related[n]) ELSE Decision,
     app |-> [sess[s] EXCEPT !.related = IF Removable(s, n) THEN Without(@, {n}) ELSE @,
                             !.comps = Without(@, {n})]]

(* One component of the request.  A POST without flows is refused (there is *)
(* no AfAppId); a PATCH without flows only removes.  A refusal ends the     *)
(* request where it is.                                                      *)
Served(w, n, d) ==
    LET comp == work[w].todo[n]
    IN IF comp.flows = {}
       THEN /\ SetDecision(d)
            /\ work' = [work EXCEPT ![w] = IF work[w].op = "post" THEN Idle
                                           ELSE [work[w] EXCEPT !.todo = Without(@, {n})]]
       ELSE \E o \in handleMediaSubComponent(d, comp) :
              /\ SetDecision(o.d)
              /\ work' = [work EXCEPT ![w] =
                            IF ~o.ok THEN Idle
                            ELSE [work[w] EXCEPT !.todo = Without(@, {n}), !.new = Put(@, n, o.id)]]

PostComponent(w) ==
    /\ work[w].op = "post"
    /\ \E n \in DOMAIN work[w].todo : Served(w, n, Decision)
    /\ UNCHANGED <<sess, told, policy, reqs>>

PatchComponent(w) ==
    /\ work[w].op = "patch"
    /\ \E n \in DOMAIN work[w].todo :
         LET removed == removeMediaComp(work[w].id, n)
         IN /\ Served(w, n, removed.d)
            /\ sess' = [sess EXCEPT ![work[w].id] = removed.app]
    /\ UNCHANGED <<told, policy, reqs>>

(* The sponsored connectivity data of a request is checked last.            *)
SponsorRefused(w) ==
    /\ Sponsored
    /\ work[w].op \in {"post", "patch"}
    /\ work[w].todo = Empty
    /\ work' = [work EXCEPT ![w] = Idle]
    /\ UNCHANGED <<data, sess, told, policy, reqs>>

PostEnd(w) ==
    /\ work[w].op = "post"
    /\ work[w].todo = Empty
    /\ sess' = Put(sess, Cardinality(DOMAIN sess) + 1,
                   [live |-> TRUE, related |-> work[w].new, comps |-> work[w].comps])
    /\ Notify(DOMAIN rules, {})
    /\ work' = [work EXCEPT ![w] = Idle]
    /\ UNCHANGED <<data, policy, reqs>>

(* The rule ids of before the request win over the new ones; the stored     *)
(* components are those of this request alone.                               *)
PatchEnd(w) ==
    /\ work[w].op = "patch"
    /\ work[w].todo = Empty
    /\ LET old == sess[work[w].id]
           ids == [n \in DOMAIN old.related \cup DOMAIN work[w].new |->
                     IF n \in DOMAIN old.related THEN old.related[n] ELSE work[w].new[n]]
       IN sess' = [sess EXCEPT ![work[w].id] =
                     [live |-> old.live, related |-> ids, comps |-> work[w].comps]]
    /\ IF work[w].new # Empty
       THEN Notify(DOMAIN rules, work[w].prev \ DOMAIN rules)
       ELSE UNCHANGED told
    /\ work' = [work EXCEPT ![w] = Idle]
    /\ UNCHANGED <<data, policy, reqs>>

------------------------------------------------------------------------------
(* Deleting an application session, UE requests, the end of the policy.     *)

HandleDeleteAppSessionContext ==
    /\ \E s \in DOMAIN sess :
         LET ids == {sess[s].related[n] : n \in DOMAIN sess[s].related} \cap DOMAIN rules
         IN /\ sess[s].live
            /\ sess' = [sess EXCEPT ![s].live = FALSE]
            /\ SetDecision(FoldSet(LAMBDA id, d : RemovePccRule(d, id), Decision, ids))
            /\ Notify({}, ids)
    /\ UNCHANGED <<policy, work, reqs>>

(* The SMF never names a rule in a request of the UE, so only its creation  *)
(* of a rule takes effect: downlink first, and an uplink refusal keeps what *)
(* the downlink took.                                                        *)
HandleUpdateSmPolicyContextRequest ==
    /\ policy
    /\ reqs < MaxReq
    /\ reqs' = reqs + 1
    /\ \E q \in UeQos :
         LET dl == [remain EXCEPT !["dl"] = @ - q.min["dl"]]
             both == [dl EXCEPT !["ul"] = @ - q.min["ul"]]
         IN \/ /\ ~Gbr(q.qi)
               /\ SetDecision(NewRule(Decision, q, Zero, remain))
               /\ Notify(DOMAIN rules', {})
            \/ /\ Gbr(q.qi) /\ Exceeds(q, "dl", remain)
               /\ UNCHANGED <<data, told>>
            \/ /\ Gbr(q.qi) /\ ~Exceeds(q, "dl", remain) /\ Exceeds(q, "ul", remain)
               /\ remain' = dl /\ UNCHANGED <<rules, gen, told>>
            \/ /\ Gbr(q.qi) /\ ~Exceeds(q, "dl", remain) /\ ~Exceeds(q, "ul", remain)
               /\ SetDecision(NewRule(Decision, q, q.min, both))
               /\ Notify(DOMAIN rules', {})
    /\ UNCHANGED <<sess, policy, work>>

HandleDeleteSmPolicyContextRequest ==
    /\ policy
    /\ policy' = FALSE
    /\ sess' = [s \in DOMAIN sess |-> [sess[s] EXCEPT !.live = FALSE]]
    /\ told' = {}
    /\ UNCHANGED <<data, work, reqs>>

Init ==
    /\ rules = Empty /\ gen = 1 /\ remain = Aggregate
    /\ sess = Empty /\ told = {} /\ policy = TRUE
    /\ work = [w \in Workers |-> Idle] /\ reqs = 0

Next ==
    \/ \E w \in Workers :
         \/ PostBegin(w) \/ PostComponent(w) \/ PostEnd(w)
         \/ PatchBegin(w) \/ PatchComponent(w) \/ PatchEnd(w)
         \/ SponsorRefused(w)
    \/ HandleDeleteAppSessionContext
    \/ HandleUpdateSmPolicyContextRequest
    \/ HandleDeleteSmPolicyContextRequest

Spec == Init /\ [][Next]_vars

------------------------------------------------------------------------------
Reserved(d) == SumFunction([r \in DOMAIN rules |-> rules[r].rate[d]])

(* What is reserved and what remains never add up to more than the aggregate *)
(* of the DNN, whatever requests are refused half-way, share a rule or       *)
(* overtake each other.                                                      *)
NoOverReservation == \A d \in Dirs : remain[d] + Reserved(d) <= Aggregate[d]

(* The rates guaranteed to the rules of the session stay within the         *)
(* aggregate: "Request BitRate exceed Dnn Aggregate BitRate of UE" is what   *)
(* DecreaseRamainBitRate refuses a request with.                             *)
AggregateHeld == \A d \in Dirs : Reserved(d) <= Aggregate[d]

(* A rule id that the SMF may still hold never comes to mean other flows: a  *)
(* refused PATCH leaves the SMF with a rule the PCF has dropped, and the id  *)
(* is not given to another rule.                                             *)
RuleNeverReborn ==
    [][\A r \in told : r \notin DOMAIN rules => r \notin DOMAIN rules']_vars

=============================================================================
