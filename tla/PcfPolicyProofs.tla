--------------------------- MODULE PcfPolicyProofs ---------------------------
(***************************************************************************)
(* Proofs about PcfPolicy for every set of requests and concurrent workers: *)
(* its types, that a rule id is never reused, and, when no component names a *)
(* rate for a direction it has no flow in, that the aggregate is never       *)
(* reserved beyond what it is.                                                *)
(***************************************************************************)
EXTENDS PcfPolicy, FiniteSums

(* A component states no minimum for a direction none of its flows has.      *)
RatesMatchFlows ==
    \A c \in Comps : c.flows # {} /\ Gbr(c.qi) =>
        \A k \in Dirs \ Directions(c) : c.min[k] = 0

(* The decisions of the handlers, before they are assigned.                  *)
DecisionType(d) ==
    /\ d = [rules |-> d.rules, gen |-> d.gen, remain |-> d.remain]
    /\ d.gen \in Nat \ {0}
    /\ DOMAIN d.rules \subseteq 1 .. d.gen - 1
    /\ d.rules \in [DOMAIN d.rules -> Rule]
    /\ d.remain \in [Dirs -> Nat]

Rates(rs, k) == [r \in DOMAIN rs |-> rs[r].rate[k]]

Held(d) == \A k \in Dirs : d.remain[k] + SumFunction(Rates(d.rules, k)) <= Aggregate[k]

(* From d to e only the rule numbered d.gen may be new.                      *)
Grows(d, e) ==
    /\ d.gen <= e.gen
    /\ DOMAIN e.rules \subseteq DOMAIN d.rules \cup {d.gen}

(* The lesser of two naturals.                                               *)
LEMMA MinOfTwo ==
    ASSUME NEW a \in Nat, NEW b \in Nat
    PROVE  Min({a, b}) \in Nat /\ Min({a, b}) <= a /\ Min({a, b}) <= b
<1>1. \E x \in {a, b} : \A y \in {a, b} : x <= y
  OBVIOUS
<1> QED  BY <1>1 DEF Min

(* What modifyRemainBitRate grants is a rate that is left.                   *)
LEMMA ModifyType ==
    ASSUME NEW c \in Comps, NEW rem \in [Dirs -> Nat]
    PROVE  LET m == modifyRemainBitRate(c, rem)
           IN  /\ m.ok \in BOOLEAN
               /\ m.rate \in [Dirs -> Nat]
               /\ m.rem \in [Dirs -> Nat]
<1>1. c.min \in [Dirs -> Nat] /\ c.max \in [Dirs -> Nat]
  BY PcfAssumption
<1>2. ASSUME NEW k \in Dirs
      PROVE  /\ Granted(c, rem)[k] \in Nat
             /\ k \in Directions(c) /\ ~Exceeds(c, k, rem) => Granted(c, rem)[k] <= rem[k]
  BY <1>1, MinOfTwo DEF Granted, Exceeds
<1>3. Granted(c, rem) \in [Dirs -> Nat]
  BY <1>2 DEF Granted
<1> DEFINE g == Granted(c, rem)
<1>4. \A k \in Dirs : g[k] \in Nat /\ rem[k] \in Nat /\ (k \in Directions(c) /\ ~Exceeds(c, k, rem) => g[k] <= rem[k])
  BY <1>2
<1>5. "ul" \in Dirs /\ "dl" \in Dirs /\ \A k \in Dirs : k = "ul" \/ k = "dl"
  BY DEF Dirs
<1> HIDE DEF g
<1> QED  BY <1>3, <1>4, <1>5 DEF modifyRemainBitRate, g

(* Granting takes from what is left what it puts into the rate; refusing     *)
(* takes nothing.                                                            *)
LEMMA ModifyConserves ==
    ASSUME RatesMatchFlows, NEW c \in Comps, c.flows # {}, Gbr(c.qi),
           NEW rem \in [Dirs -> Nat], NEW k \in Dirs
    PROVE  LET m == modifyRemainBitRate(c, rem)
           IN  IF m.ok THEN m.rem[k] + m.rate[k] = rem[k] ELSE m.rem[k] = rem[k]
<1> DEFINE g == Granted(c, rem)
<1>1. c.min \in [Dirs -> Nat] /\ c.max \in [Dirs -> Nat]
  BY PcfAssumption
<1>2. ASSUME NEW j \in Dirs
      PROVE  g[j] \in Nat /\ rem[j] \in Nat /\ (j \notin Directions(c) => g[j] = 0)
  BY <1>1, MinOfTwo DEF Granted, RatesMatchFlows
<1>3. "ul" \in Dirs /\ "dl" \in Dirs /\ \A j \in Dirs : j = "ul" \/ j = "dl"
  BY DEF Dirs
<1> HIDE DEF g
<1> QED  BY <1>2, <1>3 DEF modifyRemainBitRate, g

(* Removing a rule gives its rates back.                                     *)
LEMMA RemoveType ==
    ASSUME NEW d, DecisionType(d), NEW id
    PROVE  LET e == RemovePccRule(d, id)
           IN  /\ DecisionType(e)
               /\ e.gen = d.gen
               /\ DOMAIN e.rules = DOMAIN d.rules \ {id}
               /\ \A r \in DOMAIN e.rules : e.rules[r] = d.rules[r]
               /\ id \in DOMAIN d.rules => \A k \in Dirs :
                    e.remain[k] = d.remain[k] + (IF Gbr(d.rules[id].qi) THEN d.rules[id].rate[k] ELSE 0)
<1>1. CASE id \notin DOMAIN d.rules
  BY <1>1 DEF RemovePccRule
<1>2. CASE id \in DOMAIN d.rules
  <2> DEFINE e == RemovePccRule(d, id)
             rem == IncreaseRemainGBR(d.rules[id], d.remain)
  <2>1. d.rules[id].rate \in [Dirs -> Nat]
    BY <1>2 DEF DecisionType, Rule
  <2>2. rem \in [Dirs -> Nat] /\ \A k \in Dirs :
          rem[k] = d.remain[k] + (IF Gbr(d.rules[id].qi) THEN d.rules[id].rate[k] ELSE 0)
    BY <2>1 DEF IncreaseRemainGBR, DecisionType
  <2>3. d = [rules |-> d.rules, gen |-> d.gen, remain |-> d.remain]
    BY DEF DecisionType
  <2> HIDE DEF rem
  <2>4. e = [rules |-> Without(d.rules, {id}), gen |-> d.gen, remain |-> rem]
    BY <1>2, <2>3 DEF RemovePccRule, rem
  <2> HIDE DEF e
  <2>5. /\ DOMAIN e.rules = DOMAIN d.rules \ {id}
        /\ \A r \in DOMAIN e.rules : e.rules[r] = d.rules[r]
        /\ e.rules \in [DOMAIN e.rules -> Rule]
    BY <2>4 DEF Without, DecisionType
  <2>6. DecisionType(e) /\ e.gen = d.gen /\ e.remain = rem
    BY <2>2, <2>4, <2>5 DEF DecisionType
  <2> QED  BY <1>2, <2>2, <2>5, <2>6 DEF e
<1> QED  BY <1>1, <1>2

(* The rates of a decision's rules are naturals, one for each of finitely    *)
(* many rules.                                                               *)
LEMMA RatesType ==
    ASSUME NEW d, DecisionType(d), NEW k \in Dirs
    PROVE  /\ IsFiniteSet(DOMAIN d.rules)
           /\ Rates(d.rules, k) \in [DOMAIN d.rules -> Nat]
           /\ SumFunction(Rates(d.rules, k)) \in Nat
<1>1. IsFiniteSet(DOMAIN d.rules)
  <2>1. 1 \in Int /\ d.gen - 1 \in Int /\ DOMAIN d.rules \in SUBSET (1 .. d.gen - 1)
    BY DEF DecisionType
  <2>2. IsFiniteSet(1 .. d.gen - 1)
    BY <2>1, FS_Interval
  <2> QED  BY <2>1, <2>2, FS_Subset
<1>2. Rates(d.rules, k) \in [DOMAIN d.rules -> Nat]
  BY DEF DecisionType, Rates, Rule
<1> QED  BY <1>1, <1>2, SumType

(* Removing a rule never reserves more than the aggregate.                   *)
LEMMA RemoveHeld ==
    ASSUME NEW d, DecisionType(d), Held(d), NEW id
    PROVE  Held(RemovePccRule(d, id))
<1>1. CASE id \notin DOMAIN d.rules
  BY <1>1 DEF RemovePccRule
<1>2. CASE id \in DOMAIN d.rules
  <2> DEFINE e == RemovePccRule(d, id)
  <2>1. SUFFICES ASSUME NEW k \in Dirs
                 PROVE  e.remain[k] + SumFunction(Rates(e.rules, k)) <= Aggregate[k]
    BY DEF Held
  <2>2. /\ DecisionType(e)
        /\ DOMAIN e.rules = DOMAIN d.rules \ {id}
        /\ \A r \in DOMAIN e.rules : e.rules[r] = d.rules[r]
        /\ e.remain[k] = d.remain[k] + (IF Gbr(d.rules[id].qi) THEN d.rules[id].rate[k] ELSE 0)
    BY <1>2, RemoveType
  <2> DEFINE h == Rates(d.rules, k)
             S == DOMAIN e.rules
  <2>3. IsFiniteSet(S) /\ SumFunction(Rates(e.rules, k)) \in Nat
    BY <2>2, RatesType
  <2>4. h \in [DOMAIN d.rules -> Nat] /\ SumFunction(h) \in Nat
    BY RatesType
  <2>5. DOMAIN d.rules = S \cup {id} /\ id \notin S
    BY <1>2, <2>2
  <2>6. /\ Rates(e.rules, k) \in [S -> Nat]
        /\ \A r \in S : h[r] = Rates(e.rules, k)[r]
    BY <2>2, RatesType DEF Rates
  <2>7. h[id] = d.rules[id].rate[k] /\ h[id] \in Nat
    BY <1>2, <2>4 DEF Rates
  <2> HIDE DEF e, h, S
  <2>8. SumFunction(h) = h[id] + SumFunction(Rates(e.rules, k))
    BY <2>3, <2>4, <2>5, <2>6, SumExtend
  <2>9. d.remain[k] + SumFunction(h) <= Aggregate[k]
    BY DEF Held, h
  <2>10. d.remain[k] \in Nat /\ Aggregate[k] \in Nat
    BY PcfAssumption DEF DecisionType
  <2> QED  BY <2>2, <2>3, <2>4, <2>7, <2>8, <2>9, <2>10
<1> QED  BY <1>1, <1>2

(* A new rule takes the next id.                                             *)
LEMMA NewType ==
    ASSUME NEW d, DecisionType(d), NEW q \in Comps \cup UeQos,
           NEW rate \in [Dirs -> Nat], NEW rem \in [Dirs -> Nat]
    PROVE  LET e == NewRule(d, q, rate, rem)
           IN  /\ DecisionType(e)
               /\ e.gen = d.gen + 1 /\ e.remain = rem
               /\ DOMAIN e.rules = DOMAIN d.rules \cup {d.gen}
               /\ d.gen \notin DOMAIN d.rules
               /\ e.rules[d.gen].rate = rate
               /\ \A r \in DOMAIN d.rules : e.rules[r] = d.rules[r]
<1> DEFINE e == NewRule(d, q, rate, rem)
           new == [flows |-> q.flows, qi |-> q.qi, rate |-> rate]
           rs == Put(d.rules, d.gen, new)
<1>1. new \in Rule
  BY PcfAssumption DEF Rule
<1>2. d.gen \notin DOMAIN d.rules
  BY DEF DecisionType
<1>3. rs = [r \in DOMAIN d.rules \cup {d.gen} |-> IF r = d.gen THEN new ELSE d.rules[r]]
  BY DEF Put
<1>4. e = [rules |-> rs, gen |-> d.gen + 1, remain |-> rem]
  BY DEF NewRule
<1>5. new.rate = rate
  OBVIOUS
<1> HIDE DEF new, rs, e
<1>6. DOMAIN rs = DOMAIN d.rules \cup {d.gen} /\ DOMAIN rs \subseteq 1 .. (d.gen + 1) - 1
  BY <1>3 DEF DecisionType
<1>7. rs \in [DOMAIN rs -> Rule]
  BY <1>1, <1>3 DEF DecisionType
<1>8. DecisionType(e)
  BY <1>4, <1>6, <1>7 DEF DecisionType
<1>9. rs[d.gen] = new /\ \A r \in DOMAIN d.rules : rs[r] = d.rules[r]
  BY <1>2, <1>3
<1> QED  BY <1>2, <1>4, <1>5, <1>6, <1>8, <1>9 DEF e

(* A new rule reserves what it takes from what is left.                      *)
LEMMA NewHeld ==
    ASSUME NEW d, DecisionType(d), Held(d), NEW q \in Comps \cup UeQos,
           NEW rate \in [Dirs -> Nat], NEW rem \in [Dirs -> Nat],
           \A k \in Dirs : rem[k] + rate[k] <= d.remain[k]
    PROVE  Held(NewRule(d, q, rate, rem))
<1> DEFINE e == NewRule(d, q, rate, rem)
<1>1. SUFFICES ASSUME NEW k \in Dirs
               PROVE  e.remain[k] + SumFunction(Rates(e.rules, k)) <= Aggregate[k]
  BY DEF Held
<1>2. /\ DecisionType(e) /\ e.remain = rem
      /\ DOMAIN e.rules = DOMAIN d.rules \cup {d.gen}
      /\ d.gen \notin DOMAIN d.rules
      /\ e.rules[d.gen].rate = rate
      /\ \A r \in DOMAIN d.rules : e.rules[r] = d.rules[r]
  BY NewType
<1> DEFINE S == DOMAIN d.rules
           h == Rates(e.rules, k)
<1>3. IsFiniteSet(S) /\ SumFunction(Rates(d.rules, k)) \in Nat
  BY RatesType
<1> HIDE DEF e
<1>4. h \in [S \cup {d.gen} -> Nat]
  BY <1>2, RatesType
<1>5. /\ Rates(d.rules, k) \in [S -> Nat]
      /\ \A r \in S : h[r] = Rates(d.rules, k)[r]
  BY <1>2, RatesType DEF Rates
<1>6. h[d.gen] = rate[k]
  BY <1>2 DEF Rates
<1> HIDE DEF h, S
<1>7. SumFunction(h) = h[d.gen] + SumFunction(Rates(d.rules, k))
  <2>1. d.gen \notin S
    BY <1>2 DEF S
  <2> QED  BY ONLY <2>1, <1>3, <1>4, <1>5, SumExtend
<1>8. d.remain[k] + SumFunction(Rates(d.rules, k)) <= Aggregate[k]
  BY DEF Held
<1>9. /\ d.remain[k] \in Nat /\ Aggregate[k] \in Nat /\ rem[k] \in Nat /\ rate[k] \in Nat
      /\ rem[k] + rate[k] <= d.remain[k]
  BY PcfAssumption DEF DecisionType
<1> QED  BY <1>2, <1>3, <1>6, <1>7, <1>8, <1>9 DEF h

(* New rates of a rule.                                                      *)
Rerated(d, r, rate, rem) == [d EXCEPT !.rules[r].rate = rate, !.remain = rem]

(* A rule that gets another rate leaves a decision that is well-formed.      *)
LEMMA RerateType ==
    ASSUME NEW d, DecisionType(d), NEW r \in DOMAIN d.rules,
           NEW rate \in [Dirs -> Nat], NEW rem \in [Dirs -> Nat]
    PROVE  LET e == Rerated(d, r, rate, rem)
           IN  /\ DecisionType(e)
               /\ e.gen = d.gen /\ e.remain = rem
               /\ DOMAIN e.rules = DOMAIN d.rules
               /\ e.rules[r].rate = rate
               /\ \A t \in DOMAIN d.rules \ {r} : e.rules[t] = d.rules[t]
<1> DEFINE e == Rerated(d, r, rate, rem)
           rs == [d.rules EXCEPT ![r].rate = rate]
<1>1. d = [rules |-> d.rules, gen |-> d.gen, remain |-> d.remain]
  BY DEF DecisionType
<1>2. e = [rules |-> rs, gen |-> d.gen, remain |-> rem]
  <2> DEFINE d1 == [d EXCEPT !.rules = rs]
  <2>1. e = [d1 EXCEPT !.remain = rem]
    BY DEF Rerated
  <2>2. d1 = [rules |-> rs, gen |-> d.gen, remain |-> d.remain]
    <3> HIDE DEF rs
    <3> QED  BY <1>1
  <2> HIDE DEF d1, e, rs
  <2> QED  BY <2>1, <2>2
<1>3. DOMAIN rs = DOMAIN d.rules /\ \A t \in DOMAIN d.rules \ {r} : rs[t] = d.rules[t]
  OBVIOUS
<1>4. rs[r] \in Rule /\ rs[r].rate = rate
  <2>1. d.rules[r] \in Rule
    BY DEF DecisionType
  <2> QED  BY <2>1 DEF Rule
<1>5. rs \in [DOMAIN rs -> Rule]
  BY <1>4 DEF DecisionType
<1> HIDE DEF rs, e
<1>6. DecisionType(e) /\ e.gen = d.gen /\ e.remain = rem
  BY <1>2, <1>3, <1>5 DEF DecisionType
<1> QED  BY <1>2, <1>3, <1>4, <1>6 DEF e

(* What a rule had is not given back when it takes new rates.                *)
LEMMA RerateHeld ==
    ASSUME NEW d, DecisionType(d), Held(d), NEW r \in DOMAIN d.rules,
           NEW rate \in [Dirs -> Nat], NEW rem \in [Dirs -> Nat],
           \A k \in Dirs : rem[k] + rate[k] <= d.remain[k]
    PROVE  Held(Rerated(d, r, rate, rem))
<1> DEFINE e == Rerated(d, r, rate, rem)
<1>1. SUFFICES ASSUME NEW k \in Dirs
               PROVE  e.remain[k] + SumFunction(Rates(e.rules, k)) <= Aggregate[k]
  BY DEF Held
<1>2. /\ DecisionType(e) /\ e.remain = rem
      /\ DOMAIN e.rules = DOMAIN d.rules
      /\ e.rules[r].rate = rate
      /\ \A t \in DOMAIN d.rules \ {r} : e.rules[t] = d.rules[t]
  BY RerateType
<1> DEFINE S == DOMAIN d.rules
           f == Rates(d.rules, k)
           h == Rates(e.rules, k)
<1> HIDE DEF e
<1>3. /\ IsFiniteSet(S) /\ r \in S
      /\ f \in [S -> Nat] /\ h \in [S -> Nat]
      /\ SumFunction(f) \in Nat /\ SumFunction(h) \in Nat
  BY <1>2, RatesType
<1>4. \A t \in S \ {r} : h[t] = f[t]
  BY <1>2 DEF Rates
<1>5. h[r] = rate[k] /\ f[r] \in Nat
  BY <1>2, <1>3 DEF Rates
<1>6. d.remain[k] + SumFunction(f) <= Aggregate[k]
  BY DEF Held
<1> HIDE DEF S, f, h
<1>7. SumFunction(h) + f[r] = SumFunction(f) + h[r]
  BY ONLY <1>3, <1>4, SumUpdate
<1>8. /\ d.remain[k] \in Nat /\ Aggregate[k] \in Nat /\ rem[k] \in Nat /\ rate[k] \in Nat
      /\ rem[k] + rate[k] <= d.remain[k]
  BY PcfAssumption DEF DecisionType
<1> QED  BY <1>2, <1>3, <1>5, <1>6, <1>7, <1>8 DEF h

(* The outcomes of a sub-component: refused, with what remained; without a   *)
(* rule of its own; a new rule; new rates for a rule.                        *)
LEMMA Outcomes ==
    ASSUME NEW d, DecisionType(d), NEW c \in Comps,
           NEW o \in handleMediaSubComponent(d, c)
    PROVE  LET m == modifyRemainBitRate(c, d.remain)
           IN  \/ /\ ~o.ok /\ Gbr(c.qi) /\ ~m.ok
                  /\ o.d = [d EXCEPT !.remain = m.rem]
               \/ /\ o.ok /\ o.id \in DOMAIN d.rules /\ o.d = d
               \/ /\ o.ok /\ o.id = d.gen
                  /\ \/ o.d = NewRule(d, c, Zero, d.remain)
                     \/ Gbr(c.qi) /\ m.ok /\ o.d = NewRule(d, c, m.rate, m.rem)
               \/ /\ o.ok /\ o.id \in DOMAIN d.rules /\ Gbr(c.qi) /\ m.ok
                  /\ o.d = Rerated(d, o.id, m.rate, m.rem)
<1> DEFINE m == modifyRemainBitRate(c, d.remain)
           matching == GetPccRuleByFlowInfos(d, c.flows)
<1>1. m.ok \in BOOLEAN /\ matching \subseteq DOMAIN d.rules
  BY ModifyType DEF DecisionType, GetPccRuleByFlowInfos
<1> HIDE DEF m, matching
<1>2. CASE matching = {}
  BY <1>1, <1>2 DEF handleMediaSubComponent, m, matching
<1>3. CASE matching # {}
  <2>1. PICK r \in matching :
          o = IF d.rules[r].qi # c.qi \/ ~Gbr(c.qi) THEN [ok |-> TRUE, id |-> r, d |-> d]
              ELSE IF m.ok THEN [ok |-> TRUE, id |-> r, d |-> Rerated(d, r, m.rate, m.rem)]
              ELSE [ok |-> FALSE, id |-> 0, d |-> [d EXCEPT !.remain = m.rem]]
    BY <1>3 DEF handleMediaSubComponent, m, matching, Rerated
  <2> QED  BY <1>1, <2>1 DEF m
<1> QED  BY <1>2, <1>3

(* Only what remains changes.                                                *)
LEMMA RemainType ==
    ASSUME NEW d, DecisionType(d), NEW rem \in [Dirs -> Nat]
    PROVE  LET e == [d EXCEPT !.remain = rem]
           IN  DecisionType(e) /\ e.rules = d.rules /\ e.gen = d.gen /\ e.remain = rem
<1> DEFINE e == [d EXCEPT !.remain = rem]
<1>1. d = [rules |-> d.rules, gen |-> d.gen, remain |-> d.remain]
  BY DEF DecisionType
<1>2. e = [rules |-> d.rules, gen |-> d.gen, remain |-> rem]
  BY <1>1
<1> HIDE DEF e
<1>3. DecisionType(e)
  BY <1>2 DEF DecisionType
<1> QED  BY <1>2, <1>3 DEF e

(* A sub-component leaves a decision, in which the id it names is a rule's.  *)
LEMMA HandleType ==
    ASSUME NEW d, DecisionType(d), NEW c \in Comps,
           NEW o \in handleMediaSubComponent(d, c)
    PROVE  /\ DecisionType(o.d) /\ Grows(d, o.d)
           /\ o.ok => o.id \in 1 .. o.d.gen - 1
<1> DEFINE m == modifyRemainBitRate(c, d.remain)
<1>1. d.remain \in [Dirs -> Nat] /\ d.gen \in Nat \ {0} /\ DOMAIN d.rules \subseteq 1 .. d.gen - 1
  BY DEF DecisionType
<1>2. m.rate \in [Dirs -> Nat] /\ m.rem \in [Dirs -> Nat]
  BY <1>1, ModifyType
<1>3. Zero \in [Dirs -> Nat]
  BY DEF Zero
<1> HIDE DEF m
<1>4. CASE ~o.ok /\ o.d = [d EXCEPT !.remain = m.rem]
  BY <1>1, <1>2, <1>4, RemainType DEF Grows
<1>5. CASE o.ok /\ o.id \in DOMAIN d.rules /\ o.d = d
  BY <1>1, <1>5 DEF Grows
<1>6. CASE o.ok /\ o.id = d.gen /\ o.d = NewRule(d, c, Zero, d.remain)
  BY <1>1, <1>3, <1>6, NewType DEF Grows
<1>7. CASE o.ok /\ o.id = d.gen /\ o.d = NewRule(d, c, m.rate, m.rem)
  BY <1>1, <1>2, <1>7, NewType DEF Grows
<1>8. CASE o.ok /\ o.id \in DOMAIN d.rules /\ o.d = Rerated(d, o.id, m.rate, m.rem)
  BY <1>1, <1>2, <1>8, RerateType DEF Grows
<1> QED  BY <1>4, <1>5, <1>6, <1>7, <1>8, Outcomes DEF m

(* A sub-component never reserves more than what is left.                    *)
LEMMA HandleHeld ==
    ASSUME RatesMatchFlows, NEW d, DecisionType(d), Held(d),
           NEW c \in Comps, c.flows # {}, NEW o \in handleMediaSubComponent(d, c)
    PROVE  Held(o.d)
<1> DEFINE m == modifyRemainBitRate(c, d.remain)
<1>1. d.remain \in [Dirs -> Nat]
  BY DEF DecisionType
<1>2. m.rate \in [Dirs -> Nat] /\ m.rem \in [Dirs -> Nat]
  BY <1>1, ModifyType
<1>3. Gbr(c.qi) => \A k \in Dirs :
        IF m.ok THEN m.rem[k] + m.rate[k] = d.remain[k] ELSE m.rem[k] = d.remain[k]
  BY <1>1, ModifyConserves
<1>4. Zero \in [Dirs -> Nat] /\ \A k \in Dirs : d.remain[k] + Zero[k] <= d.remain[k]
  BY <1>1 DEF Zero
<1> HIDE DEF m
<1>5. ASSUME m.ok, Gbr(c.qi)
      PROVE  \A k \in Dirs : m.rem[k] + m.rate[k] <= d.remain[k]
  BY <1>1, <1>2, <1>3, <1>5
<1>6. CASE Gbr(c.qi) /\ ~m.ok /\ o.d = [d EXCEPT !.remain = m.rem]
  <2>1. m.rem = d.remain
    BY <1>1, <1>2, <1>3, <1>6
  <2>2. o.d.rules = d.rules /\ o.d.remain = m.rem
    BY <1>2, <1>6, RemainType
  <2> QED  BY <2>1, <2>2 DEF Held
<1>7. CASE o.d = d
  BY <1>7
<1>8. CASE o.d = NewRule(d, c, Zero, d.remain)
  BY <1>1, <1>4, <1>8, NewHeld
<1>9. CASE Gbr(c.qi) /\ m.ok /\ o.d = NewRule(d, c, m.rate, m.rem)
  BY <1>2, <1>5, <1>9, NewHeld
<1>10. CASE Gbr(c.qi) /\ m.ok /\ o.id \in DOMAIN d.rules /\ o.d = Rerated(d, o.id, m.rate, m.rem)
  BY <1>2, <1>5, <1>10, RerateHeld
<1> QED  BY <1>6, <1>7, <1>8, <1>9, <1>10, Outcomes DEF m

(* What is given back for a rule.                                            *)
Freed(d, k) == [r \in DOMAIN d.rules |-> IF Gbr(d.rules[r].qi) THEN d.rules[r].rate[k] ELSE 0]

RemoveAll(d, ids) == FoldSet(LAMBDA id, e : RemovePccRule(e, id), d, ids)

(* The fold of HandleDeleteAppSessionContext: in whatever order the rules     *)
(* are removed, they are all gone and their rates are back.                   *)
LEMMA RemoveAllType ==
    ASSUME NEW d, DecisionType(d), NEW ids, ids \subseteq DOMAIN d.rules
    PROVE  LET e == RemoveAll(d, ids)
           IN  /\ DecisionType(e)
               /\ e.gen = d.gen
               /\ DOMAIN e.rules = DOMAIN d.rules \ ids
               /\ Held(d) => Held(e)
<1>1. \A k \in Dirs : Freed(d, k) \in [DOMAIN d.rules -> Nat]
  BY DEF DecisionType, Rule, Freed
<1>2. IsFiniteSet(DOMAIN d.rules) /\ IsFiniteSet(ids)
  <2>1. IsFiniteSet(DOMAIN d.rules)
    BY RatesType DEF Dirs
  <2> QED  BY <2>1, FS_Subset
<1>3. ASSUME NEW k \in Dirs
      PROVE  \E g : Additive(Freed(d, k), DOMAIN d.rules, g)
  BY <1>1, <1>2, AdditiveExists
<1> DEFINE G(k) == CHOOSE g : Additive(Freed(d, k), DOMAIN d.rules, g)
<1>4. \A k \in Dirs : Additive(Freed(d, k), DOMAIN d.rules, G(k))
  BY <1>3
<1> HIDE DEF G
<1> DEFINE rem(T) == [k \in Dirs |-> d.remain[k] + G(k)[T]]
           sol == [T \in SUBSET ids |->
                     [rules |-> Without(d.rules, T), gen |-> d.gen, remain |-> rem(T)]]
<1>5. ASSUME NEW T \in SUBSET ids, NEW x \in ids \ T
      PROVE  sol[T \cup {x}] = RemovePccRule(sol[T], x)
  <2> DEFINE rs == Without(d.rules, T)
  <2>1. /\ sol[T] = [rules |-> rs, gen |-> d.gen, remain |-> rem(T)]
        /\ sol[T \cup {x}] = [rules |-> Without(d.rules, T \cup {x}), gen |-> d.gen,
                              remain |-> rem(T \cup {x})]
    BY <1>5
  <2>2. x \in DOMAIN rs /\ rs[x] = d.rules[x] /\ d.rules[x].rate \in [Dirs -> Nat]
    BY <1>5 DEF Without, DecisionType, Rule
  <2>3. Without(rs, {x}) = Without(d.rules, T \cup {x})
    BY DEF Without
  <2>4. rem(T \cup {x}) = IncreaseRemainGBR(d.rules[x], rem(T))
    <3>1. ASSUME NEW k \in Dirs
          PROVE  /\ G(k)[T \cup {x}] = (IF Gbr(d.rules[x].qi) THEN d.rules[x].rate[k] ELSE 0) + G(k)[T]
                 /\ G(k)[T] \in Nat /\ d.remain[k] \in Nat /\ d.rules[x].rate[k] \in Nat
      <4>1. G(k)[T \cup {x}] = Freed(d, k)[x] + G(k)[T] /\ G(k)[T] \in Nat
        BY <1>4, <1>5 DEF Additive
      <4>2. Freed(d, k)[x] = IF Gbr(d.rules[x].qi) THEN d.rules[x].rate[k] ELSE 0
        BY <1>5 DEF Freed
      <4> QED  BY <2>2, <4>1, <4>2 DEF DecisionType
    <3>2. CASE Gbr(d.rules[x].qi)
      <4>1. ASSUME NEW k \in Dirs
            PROVE  d.remain[k] + G(k)[T \cup {x}] = (d.remain[k] + G(k)[T]) + d.rules[x].rate[k]
        <5>1. G(k)[T \cup {x}] = d.rules[x].rate[k] + G(k)[T]
          BY <3>1, <3>2
        <5>2. G(k)[T] \in Nat /\ d.remain[k] \in Nat /\ d.rules[x].rate[k] \in Nat
          BY <3>1
        <5> QED  BY <5>1, <5>2
      <4>2. IncreaseRemainGBR(d.rules[x], rem(T)) =
              [k \in Dirs |-> rem(T)[k] + d.rules[x].rate[k]]
        BY <3>2 DEF IncreaseRemainGBR
      <4> QED  BY <4>1, <4>2
    <3>3. CASE ~Gbr(d.rules[x].qi)
      <4>1. ASSUME NEW k \in Dirs
            PROVE  d.remain[k] + G(k)[T \cup {x}] = d.remain[k] + G(k)[T]
        <5>1. G(k)[T \cup {x}] = 0 + G(k)[T] /\ G(k)[T] \in Nat
          BY <3>1, <3>3
        <5> QED  BY <5>1
      <4>2. IncreaseRemainGBR(d.rules[x], rem(T)) = rem(T)
        BY <3>3 DEF IncreaseRemainGBR
      <4> QED  BY <4>1, <4>2
    <3> QED  BY <3>2, <3>3
  <2>5. PICK s : s = sol[T]
    OBVIOUS
  <2> HIDE DEF rs, rem, sol
  <2>6. s = [rules |-> rs, gen |-> d.gen, remain |-> rem(T)]
    BY <2>1, <2>5
  <2>7. RemovePccRule(s, x) = [s EXCEPT !.rules = Without(s.rules, {x}),
                                        !.remain = IncreaseRemainGBR(s.rules[x], s.remain)]
    BY <2>2, <2>6 DEF RemovePccRule
  <2>8. RemovePccRule(s, x) = [rules |-> Without(rs, {x}), gen |-> d.gen,
                               remain |-> IncreaseRemainGBR(rs[x], rem(T))]
    BY <2>6, <2>7
  <2> QED  BY <2>1, <2>2, <2>3, <2>4, <2>5, <2>8
<1>6. sol[{}] = d
  <2>1. d = [rules |-> d.rules, gen |-> d.gen, remain |-> d.remain]
    BY DEF DecisionType
  <2>2. rem({}) = d.remain
    BY <1>4 DEF Additive, DecisionType
  <2>3. Without(d.rules, {}) = d.rules
    BY DEF Without, DecisionType
  <2>4. sol[{}] = [rules |-> Without(d.rules, {}), gen |-> d.gen, remain |-> rem({})]
    OBVIOUS
  <2> HIDE DEF sol, rem
  <2> QED  BY <2>1, <2>2, <2>3, <2>4
<1> DEFINE first(s) == CHOOSE x \in s : TRUE
           Rec(it) == it = [s \in SUBSET ids |->
                              IF s = {} THEN d
                              ELSE RemovePccRule(it[s \ {first(s)}], first(s))]
<1>7. ASSUME NEW s \in SUBSET ids, s # {}
      PROVE  first(s) \in s /\ sol[s] = RemovePccRule(sol[s \ {first(s)}], first(s))
  <2>1. first(s) \in s
    BY <1>7
  <2> DEFINE x == first(s)
  <2>2. s \ {x} \in SUBSET ids /\ x \in ids \ (s \ {x}) /\ (s \ {x}) \cup {x} = s
    BY <1>7, <2>1
  <2> HIDE DEF sol, x
  <2> QED  BY <1>5, <2>1, <2>2 DEF x
<1>8. DOMAIN sol = SUBSET ids /\ sol = [T \in SUBSET ids |-> sol[T]]
  OBVIOUS
<1> HIDE DEF sol
<1>9. Rec(sol)
  BY <1>6, <1>7, <1>8
<1>10. ASSUME NEW it, Rec(it)
       PROVE  it[ids] = sol[ids]
  <2> DEFINE Left == {s \in SUBSET ids : it[s] # sol[s]}
  <2>1. SUFFICES ASSUME Left # {}
                 PROVE  FALSE
    OBVIOUS
  <2>2. PICK m \in Left : \A y \in Left : y \subseteq m => y = m
    <3>1. Left \subseteq SUBSET ids
      OBVIOUS
    <3> HIDE DEF Left
    <3> QED  BY <1>2, <2>1, <3>1, MinimalSubset
  <2>3. m # {}
    BY <1>6, <1>10, <2>2
  <2>4. m \ {first(m)} \in SUBSET ids /\ m \ {first(m)} # m /\ m \ {first(m)} \subseteq m
    BY <1>7, <2>2, <2>3
  <2>5. it[m \ {first(m)}] = sol[m \ {first(m)}]
    BY <2>2, <2>4
  <2>6. it[m] = RemovePccRule(it[m \ {first(m)}], first(m))
    BY <1>10, <2>2, <2>3
  <2> QED  BY <1>7, <2>2, <2>3, <2>5, <2>6
<1>11. RemoveAll(d, ids) = sol[ids]
  <2>1. RemoveAll(d, ids) = (CHOOSE it : Rec(it))[ids]
    BY DEF RemoveAll, FoldSet, MapThenFoldSet
  <2> HIDE DEF Rec
  <2> QED  BY <1>9, <1>10, <2>1
<1> DEFINE Gone(T) == /\ DecisionType(sol[T])
                      /\ sol[T].gen = d.gen
                      /\ DOMAIN sol[T].rules = DOMAIN d.rules \ T
                      /\ Held(d) => Held(sol[T])
           P == {T \in SUBSET ids : Gone(T)}
<1>12. {} \in P
  BY <1>6
<1>13. ASSUME NEW T \in SUBSET ids, NEW x \in ids \ T, T \in P
       PROVE  T \cup {x} \in P
  <2> DEFINE e == RemovePccRule(sol[T], x)
  <2>1. Gone(T)
    BY <1>13
  <2>2. DecisionType(e) /\ e.gen = sol[T].gen /\ DOMAIN e.rules = DOMAIN sol[T].rules \ {x}
    BY <2>1, RemoveType
  <2>3. Held(d) => Held(e)
    BY <2>1, RemoveHeld
  <2>4. sol[T \cup {x}] = e
    BY <1>5
  <2> HIDE DEF e
  <2> QED  BY <2>1, <2>2, <2>3, <2>4
<1>14. ids \in P
  <2> HIDE DEF P
  <2> QED  BY <1>2, <1>12, <1>13, SetInduction
<1> QED  BY <1>11, <1>14

------------------------------------------------------------------------------
(* Maps keyed by the components of a request.                                *)
LEMMA PartialIs ==
    ASSUME NEW V, NEW f
    PROVE  f \in Partial(V) <=> f \in [DOMAIN f -> V] /\ DOMAIN f \subseteq CompNs
<1>1. f \in Partial(V) <=> \E ns \in SUBSET CompNs : f \in [ns -> V]
  BY DEF Partial
<1>2. ASSUME NEW ns \in SUBSET CompNs, f \in [ns -> V]
      PROVE  f \in [DOMAIN f -> V] /\ DOMAIN f \subseteq CompNs
  BY <1>2
<1>3. f \in [DOMAIN f -> V] /\ DOMAIN f \subseteq CompNs => f \in Partial(V)
  BY <1>1
<1> QED  BY <1>1, <1>2, <1>3

(* They stay so when a key is added or removed, and over a larger range.     *)
LEMMA PartialOps ==
    ASSUME NEW V, NEW f \in Partial(V)
    PROVE  /\ Empty \in Partial(V)
           /\ \A W : V \subseteq W => f \in Partial(W)
           /\ \A ks : Without(f, ks) \in Partial(V)
           /\ \A n \in CompNs, v \in V : Put(f, n, v) \in Partial(V)
<1>1. f \in [DOMAIN f -> V] /\ DOMAIN f \subseteq CompNs
  BY PartialIs
<1>2. Empty \in Partial(V)
  <2>1. Empty \in [DOMAIN Empty -> V] /\ DOMAIN Empty = {}
    BY DEF Empty
  <2> QED  BY <2>1, PartialIs
<1>3. ASSUME NEW W, V \subseteq W
      PROVE  f \in Partial(W)
  <2>1. f \in [DOMAIN f -> W]
    BY <1>1, <1>3
  <2> QED  BY <1>1, <2>1, PartialIs
<1>4. ASSUME NEW ks
      PROVE  Without(f, ks) \in Partial(V)
  <2> DEFINE g == Without(f, ks)
  <2>1. g \in [DOMAIN g -> V] /\ DOMAIN g \subseteq CompNs
    BY <1>1 DEF Without
  <2> QED  BY <2>1, PartialIs
<1>5. ASSUME NEW n \in CompNs, NEW v \in V
      PROVE  Put(f, n, v) \in Partial(V)
  <2> DEFINE g == Put(f, n, v)
  <2>1. g \in [DOMAIN g -> V] /\ DOMAIN g \subseteq CompNs
    BY <1>1 DEF Put
  <2> QED  BY <2>1, PartialIs
<1> QED  BY <1>2, <1>3, <1>4, <1>5

(* The variables hold a decision.                                            *)
LEMMA DecisionHolds ==
    ASSUME TypeOK
    PROVE  DecisionType(Decision)
BY DEF TypeOK, DecisionType, Decision, Ids

(* A decision that is set is the next one.                                   *)
LEMMA DecisionSet ==
    ASSUME NEW e, DecisionType(e), SetDecision(e)
    PROVE  /\ rules' = e.rules /\ gen' = e.gen /\ remain' = e.remain
           /\ Decision' = e
<1>1. e = [rules |-> e.rules, gen |-> e.gen, remain |-> e.remain]
  BY DEF DecisionType
<1> QED  BY <1>1 DEF SetDecision, Decision

(* A step keeps the types when the next decision has them and what it adds    *)
(* to the sessions, to the SMF's rules and to the requests has them too.      *)
Later == Grows(Decision, Decision') /\ DecisionType(Decision')

(* The rule ids made so far only become more, and the types with them.       *)
LEMMA TypesGrow ==
    ASSUME TypeOK, Later, DOMAIN sess \subseteq DOMAIN sess'
    PROVE  /\ Ids \subseteq Ids'
           /\ Partial(Ids) \subseteq Partial(Ids')
           /\ Posts \subseteq Posts'
           /\ Patches \subseteq Patches'
           /\ [live : BOOLEAN, related : Partial(Ids), comps : Partial(Comps)] \subseteq
                [live : BOOLEAN, related : Partial(Ids'), comps : Partial(Comps)]
<1>1. Ids \subseteq Ids'
  BY DEF TypeOK, Ids, Later, Grows, DecisionType, Decision
<1>2. Partial(Ids) \subseteq Partial(Ids')
  BY <1>1, PartialOps
<1>3. Posts \subseteq Posts'
  BY <1>2 DEF Posts
<1>4. Patches \subseteq Patches'
  BY <1>1, <1>2 DEF Patches
<1> QED  BY <1>1, <1>2, <1>3, <1>4

Apps(ids) == [live : BOOLEAN, related : Partial(ids), comps : Partial(Comps)]

(* What a step has to show for the types.                                    *)
LEMMA KeepTypes ==
    ASSUME TypeOK, Later, DOMAIN sess \subseteq DOMAIN sess',
           IsFiniteSet(DOMAIN sess'), DOMAIN sess' = 1 .. Cardinality(DOMAIN sess'),
           \A s \in DOMAIN sess' : sess'[s] \in Apps(Ids') \/ (s \in DOMAIN sess /\ sess'[s] = sess[s]),
           told' \subseteq Ids', policy' \in BOOLEAN,
           work' \in [Workers -> {Idle} \cup Posts' \cup Patches']
    PROVE  TypeOK'
<1>1. Apps(Ids) \subseteq Apps(Ids')
  BY TypesGrow DEF Apps
<1>2. \A s \in DOMAIN sess' : sess'[s] \in Apps(Ids')
  BY <1>1 DEF TypeOK, Apps
<1>3. /\ gen' \in Nat \ {0}
      /\ DOMAIN rules' \subseteq Ids' /\ rules' \in [DOMAIN rules' -> Rule]
      /\ remain' \in [Dirs -> Nat]
  BY DEF Later, DecisionType, Decision, Ids
<1> QED  BY <1>2, <1>3 DEF TypeOK, Apps

(* A request that is being served keeps its type when ids are added.         *)
LEMMA WorkKept ==
    ASSUME TypeOK, Later, DOMAIN sess \subseteq DOMAIN sess'
    PROVE  \A v \in Workers : work[v] \in {Idle} \cup Posts' \cup Patches'
BY TypesGrow DEF TypeOK

(* The app sessions of a step that leaves them alone.                        *)
LEMMA SessionsKept ==
    ASSUME TypeOK, sess' = sess
    PROVE  /\ DOMAIN sess \subseteq DOMAIN sess'
           /\ IsFiniteSet(DOMAIN sess') /\ DOMAIN sess' = 1 .. Cardinality(DOMAIN sess')
           /\ \A s \in DOMAIN sess' : s \in DOMAIN sess /\ sess'[s] = sess[s]
BY DEF TypeOK

(* The decision of a step that leaves it alone.                              *)
LEMMA DecisionKept ==
    ASSUME TypeOK, UNCHANGED data
    PROVE  Later /\ Decision' = Decision /\ Ids' = Ids
<1>1. Decision' = Decision
  BY DEF data, Decision
<1> QED  BY <1>1, DecisionHolds DEF Later, Grows, DecisionType, data, Ids

(* What a worker serves is a POST or a PATCH with the components it has left. *)
LEMMA WorkIs ==
    ASSUME TypeOK, NEW w \in Workers
    PROVE  /\ work[w].op = "post" => work[w] \in Posts
           /\ work[w].op = "patch" => work[w] \in Patches
<1>1. work[w] \in {Idle} \cup Posts \cup Patches
  BY DEF TypeOK
<1> QED  BY <1>1 DEF Idle, Posts, Patches

(* A component served: the decision that results, the request that goes on.  *)
LEMMA ServedKeeps ==
    ASSUME TypeOK, NEW w \in Workers, work[w].op \in {"post", "patch"},
           NEW n \in DOMAIN work[w].todo,
           NEW d, DecisionType(d), d.gen = gen, DOMAIN d.rules \subseteq DOMAIN rules,
           DOMAIN sess \subseteq DOMAIN sess', Served(w, n, d)
    PROVE  /\ Later
           /\ work' \in [Workers -> {Idle} \cup Posts' \cup Patches']
           /\ RatesMatchFlows /\ Held(d) => Held(Decision')
<1> DEFINE c == work[w].todo[n]
<1>1. /\ work[w] \in Posts \cup Patches
      /\ work[w].todo \in Partial(Comps) /\ work[w].new \in Partial(Ids)
  BY WorkIs DEF Posts, Patches
<1>2. n \in CompNs /\ c \in Comps
  BY <1>1, PartialIs
<1>3. ASSUME NEW e, DecisionType(e), Grows(d, e), SetDecision(e)
      PROVE  Later /\ Decision' = e /\ gen' = e.gen
  BY <1>3, DecisionSet DEF Later, Grows, Decision
<1>4. CASE c.flows = {}
  <2>1. SetDecision(d) /\ Grows(d, d)
    BY <1>4 DEF Served, Grows, DecisionType
  <2>2. Later /\ Decision' = d
    BY <1>3, <2>1
  <2> DEFINE next == IF work[w].op = "post" THEN Idle
                     ELSE [work[w] EXCEPT !.todo = Without(work[w].todo, {n})]
  <2>3. work' = [work EXCEPT ![w] = next]
    BY <1>4 DEF Served
  <2>4. next \in {Idle} \cup Patches
    <3>1. Without(work[w].todo, {n}) \in Partial(Comps)
      BY <1>1, PartialOps
    <3>2. CASE work[w].op = "patch"
      <4>1. work[w] \in Patches
        BY <3>2, WorkIs
      <4> QED  BY <3>1, <3>2, <4>1 DEF Patches
    <3> QED  BY <3>2
  <2> HIDE DEF next
  <2>5. work' \in [Workers -> {Idle} \cup Posts' \cup Patches']
    BY <2>2, <2>3, <2>4, WorkKept, TypesGrow DEF TypeOK
  <2> QED  BY <2>2, <2>5
<1>5. CASE c.flows # {}
  <2>1. PICK o \in handleMediaSubComponent(d, c) :
          /\ SetDecision(o.d)
          /\ work' = [work EXCEPT ![w] =
                         IF ~o.ok THEN Idle
                         ELSE [work[w] EXCEPT !.todo = Without(work[w].todo, {n}),
                                              !.new = Put(work[w].new, n, o.id)]]
    BY <1>5 DEF Served
  <2>2. DecisionType(o.d) /\ Grows(d, o.d) /\ (o.ok => o.id \in 1 .. o.d.gen - 1)
    BY <1>2, HandleType
  <2>3. Later /\ Decision' = o.d /\ gen' = o.d.gen
    BY <1>3, <2>1, <2>2
  <2> DEFINE todo == Without(work[w].todo, {n})
             new == Put(work[w].new, n, o.id)
             next == IF ~o.ok THEN Idle ELSE [work[w] EXCEPT !.todo = todo, !.new = new]
  <2>4. next \in {Idle} \cup Posts' \cup Patches'
    <3>1. CASE ~o.ok
      BY <3>1
    <3>2. CASE o.ok
      <4>1. todo \in Partial(Comps)
        BY <1>1, PartialOps
      <4>2. work[w].new \in Partial(Ids') /\ o.id \in Ids'
        BY <1>1, <2>2, <2>3, <3>2, TypesGrow DEF Ids
      <4>3. new \in Partial(Ids')
        BY <1>2, <4>2, PartialOps
      <4> HIDE DEF todo, new
      <4>4. work[w] \in Posts' \cup Patches'
        BY <1>1, <2>3, TypesGrow
      <4>5. next = [work[w] EXCEPT !.todo = todo, !.new = new]
        BY <3>2
      <4>6. CASE work[w] \in Posts'
        BY <4>1, <4>3, <4>5, <4>6 DEF Posts
      <4>7. CASE work[w] \in Patches'
        BY <4>1, <4>3, <4>5, <4>7 DEF Patches
      <4> QED  BY <4>4, <4>6, <4>7
    <3> QED  BY <3>1, <3>2
  <2>5. work' = [work EXCEPT ![w] = next]
    BY <2>1
  <2> HIDE DEF next
  <2>6. work' \in [Workers -> {Idle} \cup Posts' \cup Patches']
    BY <2>3, <2>4, <2>5, WorkKept DEF TypeOK
  <2>7. RatesMatchFlows /\ Held(d) => Held(o.d)
    BY <1>2, <1>5, HandleHeld
  <2> QED  BY <2>3, <2>6, <2>7
<1> QED  BY <1>4, <1>5

(* What every step of a handler keeps.                                       *)
Kept == TypeOK' /\ Later /\ (RatesMatchFlows /\ Held(Decision) => Held(Decision'))

(* A step that touches neither the rules nor the sessions.                   *)
LEMMA OnlyWork ==
    ASSUME TypeOK, UNCHANGED <<data, sess, told, policy>>, NEW w \in Workers,
           NEW next \in {Idle} \cup Posts \cup Patches, work' = [work EXCEPT ![w] = next]
    PROVE  Kept
<1>1. Later /\ Decision' = Decision /\ Ids' = Ids
  BY DecisionKept
<1>2. work' \in [Workers -> {Idle} \cup Posts' \cup Patches']
  BY <1>1, SessionsKept, WorkKept, TypesGrow DEF TypeOK
<1>3. told' \subseteq Ids' /\ policy' \in BOOLEAN
  BY <1>1 DEF TypeOK
<1> QED  BY <1>1, <1>2, <1>3, SessionsKept, KeepTypes DEF Kept

LEMMA PostBeginKeeps ==
    ASSUME TypeOK, NEW w \in Workers, PostBegin(w)
    PROVE  Kept
<1>1. PICK r \in Requests :
        work' = [work EXCEPT ![w] = [op |-> "post", todo |-> r, comps |-> r, new |-> Empty]]
  BY DEF PostBegin, Begin
<1>2. r \in Partial(Comps)
  BY DEF Requests
<1>3. Empty \in Partial(Ids)
  <2>1. Empty \in [DOMAIN Empty -> Ids] /\ DOMAIN Empty = {}
    BY DEF Empty
  <2> QED  BY <2>1, PartialIs
<1>4. [op |-> "post", todo |-> r, comps |-> r, new |-> Empty] \in Posts
  BY <1>2, <1>3 DEF Posts
<1> QED  BY <1>1, <1>4, OnlyWork DEF PostBegin

LEMMA PatchBeginKeeps ==
    ASSUME TypeOK, NEW w \in Workers, PatchBegin(w)
    PROVE  Kept
<1>1. PICK s \in DOMAIN sess, r \in Requests :
        work' = [work EXCEPT ![w] = [op |-> "patch", id |-> s, todo |-> r, comps |-> r,
                                     new |-> Empty, prev |-> DOMAIN rules]]
  BY DEF PatchBegin, Begin
<1>2. r \in Partial(Comps) /\ DOMAIN rules \subseteq Ids
  BY DEF Requests, TypeOK
<1>3. Empty \in Partial(Ids)
  <2>1. Empty \in [DOMAIN Empty -> Ids] /\ DOMAIN Empty = {}
    BY DEF Empty
  <2> QED  BY <2>1, PartialIs
<1>4. [op |-> "patch", id |-> s, todo |-> r, comps |-> r, new |-> Empty,
       prev |-> DOMAIN rules] \in Patches
  BY <1>2, <1>3 DEF Patches
<1> QED  BY <1>1, <1>4, OnlyWork DEF PatchBegin

LEMMA SponsorRefusedKeeps ==
    ASSUME TypeOK, NEW w \in Workers, SponsorRefused(w)
    PROVE  Kept
BY OnlyWork DEF SponsorRefused

LEMMA PostComponentKeeps ==
    ASSUME TypeOK, NEW w \in Workers, PostComponent(w)
    PROVE  Kept
<1>1. PICK n \in DOMAIN work[w].todo : Served(w, n, Decision)
  BY DEF PostComponent
<1>2. work[w].op \in {"post", "patch"} /\ sess' = sess /\ told' = told /\ policy' = policy
  BY DEF PostComponent
<1>3. DecisionType(Decision) /\ Decision.gen = gen /\ Decision.rules = rules
  BY DecisionHolds DEF Decision
<1>4. /\ Later
      /\ work' \in [Workers -> {Idle} \cup Posts' \cup Patches']
      /\ RatesMatchFlows /\ Held(Decision) => Held(Decision')
  BY <1>1, <1>2, <1>3, ServedKeeps
<1>5. told' \subseteq Ids' /\ policy' \in BOOLEAN
  BY <1>2, <1>4, SessionsKept, TypesGrow DEF TypeOK
<1> QED  BY <1>2, <1>4, <1>5, SessionsKept, KeepTypes DEF Kept

LEMMA PatchComponentKeeps ==
    ASSUME TypeOK, NEW w \in Workers, PatchComponent(w)
    PROVE  Kept
<1> DEFINE s == work[w].id
<1>1. PICK n \in DOMAIN work[w].todo :
        /\ Served(w, n, removeMediaComp(s, n).d)
        /\ sess' = [sess EXCEPT ![s] = removeMediaComp(s, n).app]
  BY DEF PatchComponent
<1> DEFINE r == removeMediaComp(s, n)
<1>2. work[w].op \in {"post", "patch"} /\ told' = told /\ policy' = policy
  BY DEF PatchComponent
<1>3. s \in DOMAIN sess /\ sess[s] \in Apps(Ids)
  <2>1. work[w] \in Patches
    BY WorkIs DEF PatchComponent
  <2> QED  BY <2>1 DEF Patches, TypeOK, Apps
<1>4. /\ DecisionType(r.d) /\ r.d.gen = gen /\ DOMAIN r.d.rules \subseteq DOMAIN rules
      /\ Held(Decision) => Held(r.d)
  <2>1. r.d = Decision \/ \E id : r.d = RemovePccRule(Decision, id)
    BY DEF removeMediaComp
  <2>2. DecisionType(Decision) /\ Decision.gen = gen /\ Decision.rules = rules
    BY DecisionHolds DEF Decision
  <2> HIDE DEF r
  <2>3. CASE r.d = Decision
    BY <2>2, <2>3
  <2>4. ASSUME NEW id, r.d = RemovePccRule(Decision, id)
        PROVE  /\ DecisionType(r.d) /\ r.d.gen = gen /\ DOMAIN r.d.rules \subseteq DOMAIN rules
               /\ Held(Decision) => Held(r.d)
    BY <2>2, <2>4, RemoveType, RemoveHeld
  <2> QED  BY <2>1, <2>3, <2>4
<1>5. r.app \in Apps(Ids)
  <2> DEFINE related == IF Removable(s, n) THEN Without(sess[s].related, {n}) ELSE sess[s].related
             comps == Without(sess[s].comps, {n})
  <2>1. sess[s].related \in Partial(Ids) /\ sess[s].comps \in Partial(Comps)
    BY <1>3 DEF Apps
  <2>2. related \in Partial(Ids) /\ comps \in Partial(Comps)
    BY <2>1, PartialOps
  <2>3. r.app = [sess[s] EXCEPT !.related = related, !.comps = comps]
    BY DEF removeMediaComp
  <2> HIDE DEF r, related, comps
  <2> QED  BY <1>3, <2>2, <2>3 DEF Apps
<1> HIDE DEF r, s
<1>6. DOMAIN sess' = DOMAIN sess /\ sess'[s] = r.app /\ \A t \in DOMAIN sess \ {s} : sess'[t] = sess[t]
  BY <1>1, <1>3 DEF r
<1>7. /\ Later
      /\ work' \in [Workers -> {Idle} \cup Posts' \cup Patches']
      /\ RatesMatchFlows /\ Held(r.d) => Held(Decision')
  BY <1>1, <1>2, <1>4, <1>6, ServedKeeps DEF r
<1>8. told' \subseteq Ids' /\ policy' \in BOOLEAN /\ Apps(Ids) \subseteq Apps(Ids')
  BY <1>2, <1>6, <1>7, TypesGrow DEF TypeOK, Apps
<1>9. IsFiniteSet(DOMAIN sess') /\ DOMAIN sess' = 1 .. Cardinality(DOMAIN sess')
  BY <1>6 DEF TypeOK
<1> QED  BY <1>4, <1>5, <1>6, <1>7, <1>8, <1>9, KeepTypes DEF Kept

(* The SMF is told ids below the generator's.                                *)
LEMMA NotifyType ==
    ASSUME TypeOK, Later, Ids \subseteq Ids', NEW adds, adds \subseteq Ids', NEW drops, Notify(adds, drops)
    PROVE  told' \subseteq Ids'
BY DEF TypeOK, Notify

LEMMA PostEndKeeps ==
    ASSUME TypeOK, NEW w \in Workers, PostEnd(w)
    PROVE  Kept
<1> DEFINE k == Cardinality(DOMAIN sess)
           app == [live |-> TRUE, related |-> work[w].new, comps |-> work[w].comps]
<1>1. Later /\ Decision' = Decision /\ Ids' = Ids
  BY DecisionKept DEF PostEnd
<1>2. k \in Nat /\ DOMAIN sess = 1 .. k
  BY FS_CardinalityType DEF TypeOK
<1>3. work[w] \in Posts
  BY WorkIs DEF PostEnd
<1>4. app \in Apps(Ids')
  <2>1. work[w].new \in Partial(Ids') /\ work[w].comps \in Partial(Comps)
    BY <1>1, <1>3 DEF Posts, Requests
  <2> QED  BY <2>1 DEF Apps
<1> HIDE DEF k, app
<1>5. sess' = [s \in DOMAIN sess \cup {k + 1} |-> IF s = k + 1 THEN app ELSE sess[s]]
  BY DEF PostEnd, Put, k, app
<1>6. DOMAIN sess' = 1 .. k + 1 /\ DOMAIN sess \subseteq DOMAIN sess'
  BY <1>2, <1>5
<1>7. IsFiniteSet(DOMAIN sess') /\ DOMAIN sess' = 1 .. Cardinality(DOMAIN sess')
  <2>1. IsFiniteSet(1 .. k + 1) /\ Cardinality(1 .. k + 1) = k + 1
    <3>1. 1 \in Int /\ k + 1 \in Int /\ ~(1 > k + 1) /\ (k + 1) - 1 + 1 = k + 1
      BY <1>2
    <3> QED  BY <3>1, FS_Interval
  <2> QED  BY <1>6, <2>1
<1>8. \A s \in DOMAIN sess' : sess'[s] \in Apps(Ids') \/ (s \in DOMAIN sess /\ sess'[s] = sess[s])
  BY <1>4, <1>5, <1>6
<1>9. work' \in [Workers -> {Idle} \cup Posts' \cup Patches']
  BY <1>1, <1>6, WorkKept DEF PostEnd, TypeOK
<1>10. told' \subseteq Ids' /\ policy' \in BOOLEAN
  <2>1. DOMAIN rules \subseteq Ids'
    BY <1>1 DEF TypeOK
  <2> QED  BY <1>1, <2>1, NotifyType DEF PostEnd, TypeOK
<1> QED  BY <1>1, <1>6, <1>7, <1>8, <1>9, <1>10, KeepTypes DEF Kept

LEMMA PatchEndKeeps ==
    ASSUME TypeOK, NEW w \in Workers, PatchEnd(w)
    PROVE  Kept
<1> DEFINE s == work[w].id
           old == sess[s]
           ids == [n \in DOMAIN old.related \cup DOMAIN work[w].new |->
                     IF n \in DOMAIN old.related THEN old.related[n] ELSE work[w].new[n]]
           app == [live |-> old.live, related |-> ids, comps |-> work[w].comps]
<1>1. Later /\ Decision' = Decision /\ Ids' = Ids
  BY DecisionKept DEF PatchEnd
<1>2. work[w] \in Patches
  BY WorkIs DEF PatchEnd
<1>3. s \in DOMAIN sess /\ old \in Apps(Ids)
  BY <1>2 DEF Patches, TypeOK, Apps
<1>4. app \in Apps(Ids')
  <2>1. /\ old.related \in Partial(Ids) /\ old.live \in BOOLEAN
        /\ work[w].new \in Partial(Ids) /\ work[w].comps \in Partial(Comps)
    BY <1>2, <1>3 DEF Apps, Patches, Requests
  <2>2. /\ old.related \in [DOMAIN old.related -> Ids] /\ DOMAIN old.related \subseteq CompNs
        /\ work[w].new \in [DOMAIN work[w].new -> Ids] /\ DOMAIN work[w].new \subseteq CompNs
    BY <2>1, PartialIs
  <2>3. ids \in [DOMAIN ids -> Ids] /\ DOMAIN ids \subseteq CompNs
    BY <2>2
  <2> HIDE DEF ids
  <2>4. ids \in Partial(Ids)
    BY <2>3, PartialIs
  <2> QED  BY <1>1, <2>1, <2>4 DEF Apps
<1>5. sess' = [sess EXCEPT ![s] = app]
  BY DEF PatchEnd
<1> HIDE DEF s, app
<1>6. DOMAIN sess' = DOMAIN sess /\ sess'[s] = app /\ \A t \in DOMAIN sess \ {s} : sess'[t] = sess[t]
  BY <1>3, <1>5
<1>7. IsFiniteSet(DOMAIN sess') /\ DOMAIN sess' = 1 .. Cardinality(DOMAIN sess')
  BY <1>6 DEF TypeOK
<1>8. work' \in [Workers -> {Idle} \cup Posts' \cup Patches']
  BY <1>1, <1>6, WorkKept DEF PatchEnd, TypeOK
<1>9. told' \subseteq Ids' /\ policy' \in BOOLEAN
  <2>1. DOMAIN rules \subseteq Ids' /\ told \subseteq Ids'
    BY <1>1 DEF TypeOK
  <2> QED  BY <1>1, <2>1, NotifyType DEF PatchEnd, TypeOK
<1> QED  BY <1>1, <1>4, <1>6, <1>7, <1>8, <1>9, KeepTypes DEF Kept

(* Sessions that only stop being live.                                       *)
LEMMA DeleteAppKeeps ==
    ASSUME TypeOK, HandleDeleteAppSessionContext
    PROVE  Kept
<1> DEFINE Ended(s) == {sess[s].related[n] : n \in DOMAIN sess[s].related} \cap DOMAIN rules
<1>1. PICK s \in DOMAIN sess :
        /\ sess' = [sess EXCEPT ![s].live = FALSE]
        /\ SetDecision(RemoveAll(Decision, Ended(s)))
        /\ Notify({}, Ended(s))
  BY DEF HandleDeleteAppSessionContext, RemoveAll
<1> DEFINE e == RemoveAll(Decision, Ended(s))
<1>2. DecisionType(Decision) /\ Decision.gen = gen /\ Decision.rules = rules
  BY DecisionHolds DEF Decision
<1>3. /\ DecisionType(e) /\ e.gen = Decision.gen
      /\ DOMAIN e.rules = DOMAIN Decision.rules \ Ended(s)
      /\ Held(Decision) => Held(e)
  BY <1>2, RemoveAllType
<1>4. SetDecision(e) /\ Notify({}, Ended(s))
  BY <1>1
<1> HIDE DEF e, Ended
<1>5. Decision' = e
  BY <1>3, <1>4, DecisionSet
<1>6. Later /\ (Held(Decision) => Held(Decision'))
  BY <1>2, <1>3, <1>5 DEF Later, Grows, DecisionType
<1>7. /\ DOMAIN sess' = DOMAIN sess /\ sess'[s] = [sess[s] EXCEPT !.live = FALSE]
      /\ \A t \in DOMAIN sess \ {s} : sess'[t] = sess[t]
  BY <1>1
<1>8. Ids \subseteq Ids' /\ Apps(Ids) \subseteq Apps(Ids')
  BY <1>6, <1>7, TypesGrow DEF Apps
<1>9. sess'[s] \in Apps(Ids')
  <2>1. sess[s] \in Apps(Ids')
    BY <1>8 DEF TypeOK, Apps
  <2> QED  BY <1>7, <2>1 DEF Apps
<1>10. IsFiniteSet(DOMAIN sess') /\ DOMAIN sess' = 1 .. Cardinality(DOMAIN sess')
  BY <1>7 DEF TypeOK
<1>11. work' \in [Workers -> {Idle} \cup Posts' \cup Patches']
  BY <1>6, <1>7, WorkKept DEF HandleDeleteAppSessionContext, TypeOK
<1>12. told' \subseteq Ids' /\ policy' \in BOOLEAN
  BY <1>4, <1>6, <1>8, NotifyType DEF HandleDeleteAppSessionContext, TypeOK
<1> QED  BY <1>6, <1>7, <1>9, <1>10, <1>11, <1>12, KeepTypes DEF Kept

LEMMA DeletePolicyKeeps ==
    ASSUME TypeOK, HandleDeleteSmPolicyContextRequest
    PROVE  Kept
<1>1. Later /\ Decision' = Decision /\ Ids' = Ids
  BY DecisionKept DEF HandleDeleteSmPolicyContextRequest
<1>2. DOMAIN sess' = DOMAIN sess /\ \A s \in DOMAIN sess : sess'[s] = [sess[s] EXCEPT !.live = FALSE]
  BY DEF HandleDeleteSmPolicyContextRequest
<1>3. \A s \in DOMAIN sess' : sess'[s] \in Apps(Ids')
  BY <1>1, <1>2 DEF TypeOK, Apps
<1>4. IsFiniteSet(DOMAIN sess') /\ DOMAIN sess' = 1 .. Cardinality(DOMAIN sess')
  BY <1>2 DEF TypeOK
<1>5. work' \in [Workers -> {Idle} \cup Posts' \cup Patches']
  BY <1>1, <1>2, WorkKept DEF HandleDeleteSmPolicyContextRequest, TypeOK
<1>6. told' \subseteq Ids' /\ policy' \in BOOLEAN
  BY DEF HandleDeleteSmPolicyContextRequest
<1> QED  BY <1>1, <1>2, <1>3, <1>4, <1>5, <1>6, KeepTypes DEF Kept

LEMMA UeRequestKeeps ==
    ASSUME TypeOK, HandleUpdateSmPolicyContextRequest
    PROVE  Kept
<1> DEFINE dl(q) == [remain EXCEPT !["dl"] = @ - q.min["dl"]]
           both(q) == [dl(q) EXCEPT !["ul"] = @ - q.min["ul"]]
           D == Decision
<1>1. PICK q \in UeQos :
        \/ /\ SetDecision(NewRule(D, q, Zero, remain))
           /\ Notify(DOMAIN rules', {})
        \/ UNCHANGED <<data, told>>
        \/ /\ ~Exceeds(q, "dl", remain)
           /\ remain' = dl(q) /\ UNCHANGED <<rules, gen, told>>
        \/ /\ ~Exceeds(q, "dl", remain) /\ ~Exceeds(q, "ul", remain)
           /\ SetDecision(NewRule(D, q, q.min, both(q)))
           /\ Notify(DOMAIN rules', {})
  BY DEF HandleUpdateSmPolicyContextRequest
<1>2. DecisionType(D) /\ D = [rules |-> rules, gen |-> gen, remain |-> remain]
  BY DecisionHolds DEF Decision
<1>3. q.min \in [Dirs -> Nat] /\ remain \in [Dirs -> Nat] /\ "ul" \in Dirs /\ "dl" \in Dirs
  BY PcfAssumption DEF TypeOK, Dirs
<1>4. ~Exceeds(q, "dl", remain) =>
        /\ dl(q) \in [Dirs -> Nat] /\ \A k \in Dirs : dl(q)[k] <= remain[k]
  BY <1>3 DEF Exceeds
<1>5. ~Exceeds(q, "dl", remain) /\ ~Exceeds(q, "ul", remain) =>
        /\ both(q) \in [Dirs -> Nat] /\ \A k \in Dirs : both(q)[k] + q.min[k] <= remain[k]
  BY <1>3 DEF Exceeds, Dirs
<1>6. Zero \in [Dirs -> Nat] /\ \A k \in Dirs : remain[k] + Zero[k] <= remain[k]
  BY <1>3 DEF Zero
<1> HIDE DEF dl, both
<1>7. ASSUME NEW rate \in [Dirs -> Nat], NEW rem \in [Dirs -> Nat],
             \A k \in Dirs : rem[k] + rate[k] <= remain[k],
             SetDecision(NewRule(D, q, rate, rem))
      PROVE  Later /\ (Held(D) => Held(D'))
  <2> DEFINE e == NewRule(D, q, rate, rem)
  <2>1. DecisionType(e) /\ e.gen = D.gen + 1 /\ DOMAIN e.rules = DOMAIN D.rules \cup {D.gen}
    BY <1>2, NewType
  <2>2. Held(D) => Held(e)
    BY <1>2, <1>7, NewHeld
  <2> HIDE DEF e
  <2>3. D' = e
    BY <1>7, <2>1, DecisionSet DEF e
  <2> QED  BY <1>2, <2>1, <2>2, <2>3 DEF Later, Grows, DecisionType
<1>8. Later /\ (Held(D) => Held(D'))
  <2>1. CASE SetDecision(NewRule(D, q, Zero, remain))
    BY <1>3, <1>6, <1>7, <2>1
  <2>2. CASE UNCHANGED <<data, told>>
    BY <2>2, DecisionKept
  <2>3. CASE ~Exceeds(q, "dl", remain) /\ remain' = dl(q) /\ UNCHANGED <<rules, gen, told>>
    <3> DEFINE r == dl(q)
    <3>1. D' = [rules |-> rules, gen |-> gen, remain |-> r]
      BY <2>3 DEF Decision
    <3>2. DecisionType(D') /\ Grows(D, D')
      BY <1>2, <1>4, <2>3, <3>1 DEF DecisionType, Grows
    <3>3. Held(D) => Held(D')
      <4>1. SUFFICES ASSUME Held(D), NEW k \in Dirs
                     PROVE  r[k] + SumFunction(Rates(rules, k)) <= Aggregate[k]
        BY <3>1 DEF Held
      <4>2. remain[k] + SumFunction(Rates(rules, k)) <= Aggregate[k]
        BY <1>2, <4>1 DEF Held
      <4>3. SumFunction(Rates(rules, k)) \in Nat
        BY <1>2, RatesType
      <4>4. r[k] \in Nat /\ remain[k] \in Nat /\ r[k] <= remain[k] /\ Aggregate[k] \in Nat
        BY <1>3, <1>4, <2>3, PcfAssumption
      <4> QED  BY <4>2, <4>3, <4>4
    <3> QED  BY <3>2, <3>3 DEF Later
  <2>4. CASE /\ ~Exceeds(q, "dl", remain) /\ ~Exceeds(q, "ul", remain)
             /\ SetDecision(NewRule(D, q, q.min, both(q)))
    BY <1>3, <1>5, <1>7, <2>4
  <2> QED  BY <1>1, <2>1, <2>2, <2>3, <2>4
<1>9. sess' = sess /\ policy' = policy /\ work' = work
  BY DEF HandleUpdateSmPolicyContextRequest
<1>10. Ids \subseteq Ids' /\ DOMAIN rules' \subseteq Ids'
  BY <1>8, <1>9, TypesGrow DEF Later, DecisionType, Decision, Ids
<1>11. told' \subseteq Ids'
  BY <1>1, <1>8, <1>10, NotifyType DEF TypeOK
<1>12. work' \in [Workers -> {Idle} \cup Posts' \cup Patches']
  BY <1>8, <1>9, SessionsKept, WorkKept DEF TypeOK
<1>13. policy' \in BOOLEAN
  BY <1>9 DEF TypeOK
<1> QED  BY <1>8, <1>9, <1>11, <1>12, <1>13, SessionsKept, KeepTypes DEF Kept

------------------------------------------------------------------------------
(* At the start there are no rules and the whole aggregate is left.          *)
LEMMA InitTypes ==
    ASSUME Init
    PROVE  TypeOK /\ Held(Decision)
<1>1. gen = 1 /\ rules = Empty /\ DOMAIN Empty = {} /\ remain = Aggregate /\ sess = Empty
  BY DEF Init, Empty
<1>2. rules \in [DOMAIN rules -> Rule]
  BY <1>1 DEF Empty
<1>3. IsFiniteSet(DOMAIN sess) /\ DOMAIN sess = 1 .. Cardinality(DOMAIN sess)
  <2>1. IsFiniteSet({}) /\ Cardinality({}) = 0
    BY FS_EmptySet
  <2> QED  BY <1>1, <2>1
<1>4. TypeOK
  BY <1>1, <1>2, <1>3, PcfAssumption DEF Init, TypeOK, Ids
<1>5. ASSUME NEW k \in Dirs
      PROVE  Decision.remain[k] + SumFunction(Rates(Decision.rules, k)) <= Aggregate[k]
  <2> DEFINE f == Rates(rules, k)
  <2>1. f \in [{} -> Nat] /\ IsFiniteSet({})
    BY <1>1, FS_EmptySet DEF Rates
  <2> HIDE DEF f
  <2>2. SumFunction(f) = 0
    BY <2>1, SumType
  <2>3. Aggregate[k] \in Nat
    BY PcfAssumption
  <2> QED  BY <1>1, <2>2, <2>3 DEF Decision, f
<1> QED  BY <1>4, <1>5 DEF Held

(* Every action keeps the types and the sum of the reserved rates.           *)
LEMMA NextKeeps ==
    ASSUME TypeOK, Next
    PROVE  Kept
<1>1. ASSUME NEW w \in Workers,
             PostBegin(w) \/ PostComponent(w) \/ PostEnd(w) \/ PatchBegin(w)
               \/ PatchComponent(w) \/ PatchEnd(w) \/ SponsorRefused(w)
      PROVE  Kept
  BY <1>1, PostBeginKeeps, PostComponentKeeps, PostEndKeeps, PatchBeginKeeps,
     PatchComponentKeeps, PatchEndKeeps, SponsorRefusedKeeps
<1> QED  BY <1>1, DeleteAppKeeps, UeRequestKeeps, DeletePolicyKeeps DEF Next

(* And so does a step that changes nothing.                                  *)
LEMMA StutterKeeps ==
    ASSUME TypeOK, UNCHANGED vars
    PROVE  Kept
<1>1. Later /\ Decision' = Decision /\ Ids' = Ids
  BY DecisionKept DEF vars, data
<1>2. TypeOK'
  BY DEF TypeOK, vars, Posts, Patches, Ids
<1> QED  BY <1>1, <1>2 DEF Kept

(* Whatever requests overlap, the state keeps its types: every rule id any   *)
(* request, application session or the SMF holds is one the generator gave.  *)
THEOREM TypeCorrect == Spec => []TypeOK
<1>1. Init => TypeOK
  BY InitTypes
<1>2. TypeOK /\ [Next]_vars => TypeOK'
  BY NextKeeps, StutterKeeps DEF Kept
<1> QED  BY <1>1, <1>2, PTL DEF Spec

(* When no component asks a rate for a direction in which it has no flow, the *)
(* rates of the rules and what remains never exceed the aggregate, whatever   *)
(* is refused half-way, shares a rule or overtakes another request.           *)
THEOREM NoOverReservationHolds ==
    ASSUME RatesMatchFlows
    PROVE  Spec => []NoOverReservation
<1> DEFINE Inv == TypeOK /\ Held(Decision)
<1>1. Init => Inv
  BY InitTypes
<1>2. Inv /\ [Next]_vars => Inv'
  BY NextKeeps, StutterKeeps DEF Kept
<1>3. Inv => NoOverReservation
  BY DEF Held, Decision, Rates, NoOverReservation, Reserved
<1> QED  BY <1>1, <1>2, <1>3, PTL DEF Spec

(* An id the SMF was told of is never that of a later rule.                   *)
THEOREM RuleNeverRebornHolds == Spec => RuleNeverReborn
<1>1. TypeOK /\ [Next]_vars => [\A r \in told : r \notin DOMAIN rules => r \notin DOMAIN rules']_vars
  <2> SUFFICES ASSUME TypeOK, Next, NEW r \in told, r \notin DOMAIN rules
               PROVE  r \notin DOMAIN rules'
    BY DEF vars
  <2>1. DOMAIN rules' \subseteq DOMAIN rules \cup {gen}
    BY NextKeeps DEF Kept, Later, Grows, Decision
  <2>2. r # gen
    BY DEF TypeOK, Ids
  <2> QED  BY <2>1, <2>2
<1> QED  BY <1>1, TypeCorrect, PTL DEF Spec, RuleNeverReborn

==============================================================================
