---------------------------- MODULE SmfQosProofs ----------------------------
(***************************************************************************)
(* Proofs about SmfQos for every set of rules, QoS data and ids.  A        *)
(* theorem that does not hold with every fault the constants allow says    *)
(* which of them it excludes.                                              *)
(***************************************************************************)
EXTENDS SmfQos, FiniteSetTheorems, WellFoundedInduction, TLAPS

Good(c) == c \in CtxRec /\ MapLive(c)

(* The least element of a set of natural numbers is one of its elements. *)
LEMMA MinIn ==
  ASSUME NEW S \in SUBSET Nat, S # {}
  PROVE  Min(S) \in S
<1>1. PICK x \in S : \A y \in S : ~(<<y, x>> \in OpToRel(<, Nat))
  BY NatLessThanWellFounded, WFMin
<1>2. ASSUME NEW y \in S PROVE ~(y < x)
  BY <1>1, Zenon DEF OpToRel
<1>3. \A y \in S : x =< y
  BY <1>2
<1>4. QED
  BY <1>3 DEF Min

(* A guard asks for two free QER ids: one is left when one is taken. *)
LEMMA FreshTwo ==
  ASSUME NEW c, Cardinality(FreshQers(c)) > 1, NEW d
  PROVE  FreshQers(c) # {} /\ FreshQers(c) \ {d} # {}
<1> DEFINE F == FreshQers(c)
<1>1. IsFiniteSet(F)
  BY ConstantsOK, FS_Subset DEF ConstantsOK, FreshQers
<1>2. F # {}
  BY FS_EmptySet
<1>3. ASSUME F \ {d} = {} PROVE FALSE
  <2>1. F = {d}
    BY <1>2, <1>3
  <2>2. Cardinality(F) = 1
    BY <2>1, FS_Singleton
  <2>3. QED
    BY <2>2
<1>4. QED
  BY <1>2, <1>3

(* A fresh QER id is in the range and names no QER of the pool. *)
LEMMA FreshQerIn ==
  ASSUME NEW c, FreshQers(c) # {}
  PROVE  Min(FreshQers(c)) \in QerIds /\ ~c.qer[Min(FreshQers(c))].pooled
<1>1. FreshQers(c) \subseteq Nat
  BY ConstantsOK DEF ConstantsOK, FreshQers
<1>2. Min(FreshQers(c)) \in FreshQers(c)
  BY <1>1, MinIn
<1>3. QED
  BY <1>2 DEF FreshQers

(* A fresh path id is in the range. *)
LEMMA FreshPathIn ==
  ASSUME NEW c, FreshPaths(c) # {}
  PROVE  Min(FreshPaths(c)) \in PathIds
<1>1. FreshPaths(c) \subseteq Nat
  BY ConstantsOK DEF ConstantsOK, FreshPaths
<1>2. QED
  BY <1>1, MinIn DEF FreshPaths

(* A QER just added is a QER record. *)
LEMMA NewQerType ==
  ASSUME NEW f \in QFIs, NEW rate \in Nat
  PROVE  NewQer(f, rate) \in QerRec
  BY DEF NewQer, QerRec, States

(* 1 is a QFI. *)
LEMMA OneQFI == 1 \in QFIs /\ 0 \in QFIs
  BY ConstantsOK DEF ConstantsOK, QFIs

(* Adding the AMBR QER keeps a good context good and names that QER. *)
LEMMA AmbrQerGood ==
  ASSUME NEW c, Good(c), FreshQers(c) # {}
  PROVE  /\ Good(AmbrQer(c))
         /\ AmbrQer(c).ambr \in QerIds
         /\ AmbrQer(c).pool = c.pool
         /\ \A d \in QerIds : d # AmbrQer(c).ambr =>
               AmbrQer(c).qer[d] = c.qer[d]
<1>1. CASE c.ambr # 0
  BY <1>1 DEF AmbrQer, Good, CtxRec
<1>2. CASE c.ambr = 0
  <2> DEFINE d == Min(FreshQers(c))
             n == NewQer(1, AmbrRate)
  <2>1. d \in QerIds /\ ~c.qer[d].pooled
    BY FreshQerIn
  <2>2. n \in QerRec
    BY NewQerType, OneQFI, ConstantsOK DEF ConstantsOK
  <2>3. AmbrQer(c) = [c EXCEPT !.ambr = d, !.qer[d] = n]
    BY <1>2 DEF AmbrQer
  <2> HIDE DEF d, n
  <2>4. AmbrQer(c) \in CtxRec
    <3> DEFINE m == [c.qer EXCEPT ![d] = n]
    <3>1. m \in [QerIds -> QerRec]
      BY <2>2 DEF Good, CtxRec
    <3>2. AmbrQer(c) = [c EXCEPT !.ambr = d, !.qer = m]
      BY <2>3 DEF Good, CtxRec
    <3> HIDE DEF m
    <3>3. QED
      BY <2>1, <3>1, <3>2 DEF Good, CtxRec
  <2>5. MapLive(AmbrQer(c))
    BY <2>1, <2>3 DEF Good, CtxRec, MapLive
  <2>6. QED
    BY <2>1, <2>3, <2>4, <2>5 DEF Good, CtxRec
<1>3. QED
  BY <1>1, <1>2

(* Activating a data path keeps a good context good and uses up at most the
   id of the AMBR QER. *)
LEMMA ActivateGood ==
  ASSUME NEW c, Good(c), FreshQers(c) # {}, NEW p \in PathIds,
         NEW r \in Rules \cup {0}, NEW default \in BOOLEAN, NEW gbr \in BOOLEAN
  PROVE  /\ Good(ActivateTunnelAndPDR(c, p, r, default, gbr))
         /\ \A d \in FreshQers(c) : d # AmbrQer(c).ambr =>
               d \in FreshQers(ActivateTunnelAndPDR(c, p, r, default, gbr))
<1> DEFINE a == AmbrQer(c)
           qs == IF a.qer[a.ambr].pooled /\ ~gbr THEN {a.ambr} ELSE {}
           n == [rule |-> r, default |-> default, pdr |-> "INITIAL", qers |-> qs]
           m == [a.pool EXCEPT ![p] = n]
           b == ActivateTunnelAndPDR(c, p, r, default, gbr)
<1>1. /\ Good(a) /\ a.ambr \in QerIds /\ a.pool = c.pool
      /\ \A d \in QerIds : d # a.ambr => a.qer[d] = c.qer[d]
  BY AmbrQerGood
<1>2. b = [a EXCEPT !.pool[p] = n]
  BY DEF ActivateTunnelAndPDR
<1> HIDE DEF a, b
<1>3. n \in PathRec
  BY <1>1 DEF PathRec, States
<1>4. qs \subseteq {a.ambr}
  OBVIOUS
<1>5. n.qers = qs
  OBVIOUS
<1> HIDE DEF n, qs
<1>6. m \in [PathIds -> PathRec]
  BY <1>1, <1>3 DEF Good, CtxRec
<1>7. b = [a EXCEPT !.pool = m]
  BY <1>1, <1>2 DEF Good, CtxRec
<1>8. \A k \in PathIds : m[k].qers \subseteq c.pool[k].qers \cup {a.ambr}
  BY <1>1, <1>4, <1>5 DEF Good, CtxRec
<1> HIDE DEF m
<1>9. b \in CtxRec /\ b.qer = a.qer /\ b.qerUpfMap = a.qerUpfMap /\ b.pool = m
  BY <1>1, <1>6, <1>7 DEF Good, CtxRec
<1>10. MapLive(b)
  BY <1>1, <1>9 DEF Good, MapLive
<1>11. ASSUME NEW d \in FreshQers(c), d # a.ambr PROVE d \in FreshQers(b)
  <2>1. d \in QerIds /\ ~c.qer[d].pooled /\ d \notin Held(c) /\ upf.qer[d] = 0
    BY DEF FreshQers
  <2>2. d \notin Held(b)
    BY <1>8, <1>9, <1>11, <2>1 DEF Held
  <2>3. QED
    BY <1>1, <1>9, <1>11, <2>1, <2>2 DEF FreshQers
<1>12. QED
  BY <1>9, <1>10, <1>11 DEF Good, a, b

(* AddQoS keeps a good context good: a QER it adds is entered in QerUpfMap
   under its own QFI, and no other key names that id. *)
LEMMA AddQoSGood ==
  ASSUME NEW c, Good(c), FreshQers(c) # {}, NEW p \in PathIds,
         NEW qfi \in QFIs, NEW rate \in Nat
  PROVE  Good(AddQoS(c, p, qfi, rate))
<1> DEFINE known == c.qerUpfMap[qfi]
           d == Min(FreshQers(c))
           n == NewQer(qfi, rate)
<1>1. d \in QerIds /\ ~c.qer[d].pooled
  BY FreshQerIn
<1>2. n \in QerRec /\ n.pooled /\ n.qfi = qfi
  BY NewQerType DEF NewQer
<1>3. known \in QerIds \cup {0}
  BY DEF Good, CtxRec
<1>4. CASE rate = 0
  BY <1>4 DEF AddQoS
<1>5. CASE rate # 0 /\ known = 0
  <2>1. AddQoS(c, p, qfi, rate) =
          [c EXCEPT !.qer[d] = n, !.qerUpfMap[qfi] = d,
                    !.pool[p].qers = @ \cup {d}]
    BY <1>5 DEF AddQoS
  <2> DEFINE m == [c.qer EXCEPT ![d] = n]
             u == [c.qerUpfMap EXCEPT ![qfi] = d]
             l == [c.pool EXCEPT ![p].qers = @ \cup {d}]
             b == AddQoS(c, p, qfi, rate)
  <2> HIDE DEF d, n
  <2>2. m \in [QerIds -> QerRec] /\ u \in [QFIs -> QerIds \cup {0}]
    BY <1>1, <1>2 DEF Good, CtxRec
  <2>3. l \in [PathIds -> PathRec]
    BY <1>1 DEF Good, CtxRec, PathRec
  <2>4. b = [c EXCEPT !.qer = m, !.qerUpfMap = u, !.pool = l]
    BY <2>1 DEF Good, CtxRec
  <2>5. \A f \in QFIs : u[f] # 0 => m[u[f]].pooled /\ m[u[f]].qfi = f
    BY <1>1, <1>2 DEF Good, CtxRec, MapLive
  <2> HIDE DEF m, u, l, b
  <2>6. b \in CtxRec /\ b.qer = m /\ b.qerUpfMap = u
    BY <2>2, <2>3, <2>4 DEF Good, CtxRec
  <2>7. QED
    BY <2>5, <2>6 DEF Good, MapLive, b
<1>6. CASE rate # 0 /\ known # 0
  <2> DEFINE qs == IF c.qer[known].pooled THEN c.pool[p].qers \cup {known}
                   ELSE c.pool[p].qers
             l == [c.pool EXCEPT ![p].qers = qs]
             b == AddQoS(c, p, qfi, rate)
  <2>1. qs \subseteq QerIds
    BY <1>3, <1>6 DEF Good, CtxRec, PathRec
  <2>2. b = [c EXCEPT !.pool[p].qers = qs]
    BY <1>6 DEF AddQoS, Good, CtxRec, PathRec
  <2> HIDE DEF qs
  <2>3. l \in [PathIds -> PathRec]
    BY <2>1 DEF Good, CtxRec, PathRec
  <2>4. b = [c EXCEPT !.pool = l]
    BY <2>2 DEF Good, CtxRec
  <2> HIDE DEF l, b
  <2>5. b \in CtxRec /\ b.qer = c.qer /\ b.qerUpfMap = c.qerUpfMap
    BY <2>3, <2>4 DEF Good, CtxRec
  <2>6. QED
    BY <2>5 DEF Good, MapLive, b
<1>7. QED
  BY <1>4, <1>5, <1>6

(* Creating the data path of a rule keeps a good context good. *)
LEMMA CreateGood ==
  ASSUME NEW c, Good(c), Cardinality(FreshQers(c)) > 1, NEW p \in PathIds,
         NEW r \in Rules, NEW qfi \in QFIs, NEW rate \in RateOr0
  PROVE  Good(CreatePccRuleDataPath(c, p, r, qfi, rate))
<1> DEFINE q == RefQos[r]
           default == GetDefaultPath(c) = {} /\ r = DefRule
           gbr == rate # 0 /\ q \in Gbr
           a == ActivateTunnelAndPDR(c, p, r, default, gbr)
           b == AddQoS(a, p, qfi, rate)
<1>1. FreshQers(c) # {} /\ FreshQers(c) \ {AmbrQer(c).ambr} # {}
  BY FreshTwo
<1>2. Good(a) /\ FreshQers(a) # {}
  <2>1. default \in BOOLEAN /\ gbr \in BOOLEAN
    OBVIOUS
  <2> HIDE DEF default, gbr
  <2>2. QED
    BY <1>1, <2>1, ActivateGood
<1>3. rate \in Nat
  BY ConstantsOK DEF ConstantsOK, RateOr0
<1> HIDE DEF a
<1>4. Good(b)
  BY <1>2, <1>3, AddQoSGood
<1> HIDE DEF b
<1>5. Good(AddQosFlow(b, qfi, rate))
  BY <1>4 DEF AddQosFlow, Good, CtxRec, MapLive
<1>6. QED
  BY <1>2, <1>5 DEF CreatePccRuleDataPath, a, b

(* Marking QERs and data paths keeps a good context good and frees no id. *)
LEMMA RefreshGood ==
  ASSUME NEW c, Good(c)
  PROVE  /\ Good(refreshQERRemovalState(c))
         /\ refreshQERRemovalState(c).pool = c.pool
         /\ \A d \in QerIds : refreshQERRemovalState(c).qer[d].pooled = c.qer[d].pooled
<1> DEFINE going == UNION {c.pool[p].qers : p \in c.doomed}
           kept  == UNION {c.pool[p].qers : p \in Pool(c) \ c.doomed}
           new(d) == IF \E k \in kept : c.qer[k].qfi = c.qer[d].qfi
                     THEN "CREATE" ELSE "REMOVE"
           m == [d \in QerIds |-> IF d \notin going THEN c.qer[d]
                                  ELSE [c.qer[d] EXCEPT !.state = new(d)]]
           b == refreshQERRemovalState(c)
<1>1. b = [c EXCEPT !.qer = m]
  BY DEF refreshQERRemovalState
<1>2. \A d : new(d) \in States
  BY DEF States
<1> HIDE DEF going, new, b
<1>3. m \in [QerIds -> QerRec]
  BY <1>2 DEF Good, CtxRec, QerRec
<1>4. \A d \in QerIds : m[d].pooled = c.qer[d].pooled /\ m[d].qfi = c.qer[d].qfi
  BY DEF Good, CtxRec, QerRec
<1> HIDE DEF m
<1>5. b \in CtxRec /\ b.qer = m /\ b.qerUpfMap = c.qerUpfMap /\ b.pool = c.pool
  BY <1>1, <1>3 DEF Good, CtxRec
<1>6. MapLive(b)
  BY <1>4, <1>5 DEF Good, CtxRec, MapLive
<1>7. QED
  BY <1>4, <1>5, <1>6 DEF Good, b

(* The same of PreRemoveDataPath. *)
LEMMA PreRemoveGood ==
  ASSUME NEW c, Good(c), NEW p \in PathIds \cup {0}
  PROVE  /\ Good(PreRemoveDataPath(c, p))
         /\ FreshQers(PreRemoveDataPath(c, p)) = FreshQers(c)
<1>1. CASE p = 0
  BY <1>1 DEF PreRemoveDataPath
<1>2. CASE p # 0
  <2> DEFINE l == [c.pool EXCEPT ![p].pdr = "REMOVE"]
             e == [c EXCEPT !.pool[p].pdr = "REMOVE", !.doomed = @ \cup {p}]
             b == refreshQERRemovalState(e)
  <2>1. PreRemoveDataPath(c, p) = b
    BY <1>2 DEF PreRemoveDataPath
  <2>2. l \in [PathIds -> PathRec]
    BY <1>2 DEF Good, CtxRec, PathRec, States
  <2>3. \A k \in PathIds : l[k].qers = c.pool[k].qers
    BY <1>2 DEF Good, CtxRec, PathRec
  <2>4. e = [c EXCEPT !.pool = l, !.doomed = @ \cup {p}]
    BY <1>2 DEF Good, CtxRec
  <2> HIDE DEF l, e, b
  <2>5. e \in CtxRec /\ e.qer = c.qer /\ e.qerUpfMap = c.qerUpfMap /\ e.pool = l
    BY <1>2, <2>2, <2>4 DEF Good, CtxRec
  <2>6. Good(e)
    BY <2>5 DEF Good, MapLive
  <2>7. /\ Good(b) /\ b.pool = l
        /\ \A d \in QerIds : b.qer[d].pooled = c.qer[d].pooled
    BY <2>5, <2>6, RefreshGood DEF b
  <2>8. Held(b) = Held(c)
    BY <2>3, <2>7 DEF Held
  <2>9. FreshQers(b) = FreshQers(c)
    BY <2>7, <2>8 DEF FreshQers
  <2>10. QED
    BY <2>1, <2>7, <2>9
<1>3. QED
  BY <1>1, <1>2

(* PostRemoveDataPath takes a QER from the pool and its key from QerUpfMap
   together. *)
LEMMA PostRemoveGood ==
  ASSUME NEW c, Good(c)
  PROVE  Good(PostRemoveDataPath(c))
<1> DEFINE gone == {d \in UNION {c.pool[p].qers : p \in c.doomed} :
                       c.qer[d].state = "REMOVE"}
           u == [f \in QFIs |->
                   IF \E d \in gone : c.qer[d].qfi = f THEN 0 ELSE c.qerUpfMap[f]]
           m == [d \in QerIds |->
                   IF d \in gone THEN [c.qer[d] EXCEPT !.pooled = FALSE]
                   ELSE c.qer[d]]
           l == [p \in PathIds |-> IF p \in c.doomed THEN NoPath ELSE c.pool[p]]
           b == PostRemoveDataPath(c)
<1>1. b = [c EXCEPT !.qerUpfMap = u, !.qer = m, !.pool = l, !.doomed = {}]
  BY DEF PostRemoveDataPath
<1> HIDE DEF gone, b
<1>2. u \in [QFIs -> QerIds \cup {0}]
  BY DEF Good, CtxRec
<1>3. m \in [QerIds -> QerRec]
  BY DEF Good, CtxRec, QerRec
<1>4. l \in [PathIds -> PathRec]
  BY DEF Good, CtxRec, PathRec, NoPath, States
<1>5. \A f \in QFIs : u[f] # 0 => m[u[f]].pooled /\ m[u[f]].qfi = f
  <2> SUFFICES ASSUME NEW f \in QFIs, u[f] # 0
               PROVE  m[u[f]].pooled /\ m[u[f]].qfi = f
    OBVIOUS
  <2>1. u[f] = c.qerUpfMap[f] /\ ~\E d \in gone : c.qer[d].qfi = f
    OBVIOUS
  <2>2. u[f] \in QerIds /\ c.qer[u[f]].pooled /\ c.qer[u[f]].qfi = f
    BY <2>1 DEF Good, CtxRec, MapLive
  <2>3. QED
    BY <2>1, <2>2
<1> HIDE DEF u, m, l
<1>6. b \in CtxRec /\ b.qer = m /\ b.qerUpfMap = u
  BY <1>1, <1>2, <1>3, <1>4 DEF Good, CtxRec
<1>7. QED
  BY <1>5, <1>6 DEF Good, MapLive, b

(* Building a request changes states of rules only. *)
LEMMA SentGood ==
  ASSUME NEW c, Good(c)
  PROVE  Good(Sent(c))
<1> DEFINE created == IF est THEN AskedQers(c, "INITIAL") ELSE Held(c)
           l == [p \in PathIds |->
                   IF p \in Pool(c) THEN [c.pool[p] EXCEPT !.pdr = "CREATE"]
                   ELSE c.pool[p]]
           m == [d \in QerIds |->
                   IF d \in created THEN [c.qer[d] EXCEPT !.state = "CREATE"]
                   ELSE c.qer[d]]
           b == Sent(c)
<1>1. b = [c EXCEPT !.pool = l, !.qer = m]
  BY DEF Sent
<1> HIDE DEF created, b
<1>2. l \in [PathIds -> PathRec]
  BY DEF Good, CtxRec, PathRec, States
<1>3. m \in [QerIds -> QerRec]
  BY DEF Good, CtxRec, QerRec, States
<1>4. \A d \in QerIds : m[d].pooled = c.qer[d].pooled /\ m[d].qfi = c.qer[d].qfi
  BY DEF Good, CtxRec, QerRec
<1> HIDE DEF l, m
<1>5. b \in CtxRec /\ b.qer = m /\ b.qerUpfMap = c.qerUpfMap
  BY <1>1, <1>2, <1>3 DEF Good, CtxRec
<1>6. QED
  BY <1>4, <1>5 DEF Good, CtxRec, MapLive, b

(* What the UPF holds after a request. *)
LEMMA AppliedType ==
  ASSUME NEW c \in CtxRec, upf \in UpfRec
  PROVE  Applied(c) \in UpfRec
<1> DEFINE newP  == Asked(c, "INITIAL")
           newQ  == AskedQers(c, "INITIAL")
           goneP == IF est THEN Asked(c, "REMOVE") ELSE {}
           goneQ == IF est THEN AskedQers(c, "REMOVE") ELSE {}
           s == (upf.pdrs \cup newP) \ goneP
           l == [p \in PathIds |->
                   CASE p \in goneP -> {}
                     [] p \in newP  -> c.pool[p].qers
                     [] p \notin goneP \cup newP -> upf.refs[p]]
           m == [d \in QerIds |->
                   CASE d \in goneQ -> 0
                     [] d \in newQ  -> c.qer[d].rate
                     [] d \notin goneQ \cup newQ -> upf.qer[d]]
<1>1. Applied(c) = [pdrs |-> s, refs |-> l, qer |-> m]
  BY DEF Applied
<1>2. newP \subseteq PathIds
  BY DEF Asked
<1> HIDE DEF newP, newQ, goneP, goneQ
<1>3. s \subseteq PathIds
  BY <1>2 DEF UpfRec
<1>4. ASSUME NEW p \in PathIds PROVE l[p] \in SUBSET QerIds
  <2>1. c.pool[p].qers \in SUBSET QerIds /\ upf.refs[p] \in SUBSET QerIds
    BY DEF CtxRec, PathRec, UpfRec
  <2>2. QED
    BY <2>1
<1>5. ASSUME NEW d \in QerIds PROVE m[d] \in Nat
  <2>1. c.qer[d].rate \in Nat /\ upf.qer[d] \in Nat
    BY DEF CtxRec, QerRec, UpfRec
  <2>2. QED
    BY <2>1
<1>6. l \in [PathIds -> SUBSET QerIds] /\ m \in [QerIds -> Nat]
  BY <1>4, <1>5
<1> HIDE DEF s, l, m
<1>7. QED
  BY <1>1, <1>3, <1>6 DEF UpfRec

(* A QFI that AssignQFI gives is in the range, and the offset stays in it. *)
LEMMA QFIType ==
  ASSUME qosDataToQFI \in [Qos -> QFIs], qfiOffset \in 2..MaxQFI,
         NEW q \in Qos \cup {NoQos}
  PROVE  AssignQFI(q) \in QFIs /\ NextOffset(q) \in 2..MaxQFI
<1>1. ASSUME FreeQFIs # {} PROVE NextQFI \in 2..MaxQFI
  <2> DEFINE ahead == {f \in FreeQFIs : f >= qfiOffset}
  <2>1. FreeQFIs \subseteq 2..MaxQFI
    BY DEF FreeQFIs
  <2>2. 2..MaxQFI \subseteq Nat
    BY ConstantsOK DEF ConstantsOK
  <2>3. ASSUME ahead # {} PROVE Min(ahead) \in 2..MaxQFI
    <3>1. Min(ahead) \in ahead
      BY <2>1, <2>2, <2>3, MinIn
    <3>2. QED
      BY <2>1, <3>1
  <2>4. Min(FreeQFIs) \in 2..MaxQFI
    <3>1. Min(FreeQFIs) \in FreeQFIs
      BY <1>1, <2>1, <2>2, MinIn
    <3>2. QED
      BY <2>1, <3>1
  <2>5. QED
    BY <2>3, <2>4 DEF NextQFI
<1>2. 2..MaxQFI \subseteq QFIs /\ 0 \in QFIs
  BY ConstantsOK DEF ConstantsOK, QFIs
<1>3. /\ AssignQFI(q) \in QFIs
      /\ (q # NoQos /\ qosDataToQFI[q] = 0 /\ AssignQFI(q) # 0) =>
            AssignQFI(q) \in 2..MaxQFI
  <2>1. CASE q = NoQos
    BY <1>2, <2>1 DEF AssignQFI
  <2>2. CASE q # NoQos /\ qosDataToQFI[q] # 0
    BY <2>2 DEF AssignQFI
  <2>3. CASE q # NoQos /\ qosDataToQFI[q] = 0 /\ FreeQFIs = {}
    BY <1>2, <2>3 DEF AssignQFI
  <2>4. CASE q # NoQos /\ qosDataToQFI[q] = 0 /\ FreeQFIs # {}
    <3>1. AssignQFI(q) = NextQFI
      BY <2>4 DEF AssignQFI
    <3>2. QED
      BY <1>1, <1>2, <2>4, <3>1
  <2>5. QED
    BY <2>1, <2>2, <2>3, <2>4
<1>4. NextOffset(q) \in 2..MaxQFI
  <2> DEFINE f == AssignQFI(q)
  <2>1. MaxQFI \in Nat /\ MaxQFI >= 2
    BY ConstantsOK DEF ConstantsOK
  <2>2. CASE q = NoQos \/ f = 0 \/ qosDataToQFI[q] # 0
    BY <2>2 DEF NextOffset
  <2>3. CASE ~(q = NoQos \/ f = 0 \/ qosDataToQFI[q] # 0)
    <3>1. f \in 2..MaxQFI
      BY <1>3, <2>3
    <3>2. NextOffset(q) = IF f = MaxQFI THEN 2 ELSE f + 1
      BY <2>3 DEF NextOffset
    <3> HIDE DEF f
    <3>3. QED
      BY <2>1, <3>1, <3>2
  <2>4. QED
    BY <2>2, <2>3
<1>5. QED
  BY <1>3, <1>4

-----------------------------------------------------------------------------

Inv == TypeOK /\ QerMapLive

(* A fresh rule id is one of the set it is taken from. *)
LEMMA FreshIdIn ==
  ASSUME NEW S \in SUBSET Rules, Fresh(S)
  PROVE  FreshId(S) \in S
<1>1. S \ usedIds \subseteq Nat
  BY ConstantsOK DEF ConstantsOK
<1>2. Min(S \ usedIds) \in S \ usedIds
  BY <1>1, MinIn DEF Fresh
<1>3. QED
  BY <1>2 DEF FreshId

(* A rule refers to a QoS datum or to none, and its target rate is a rate. *)
LEMMA TargetType ==
  ASSUME TypeOK, NEW q \in Qos \cup {NoQos}
  PROVE  TargetQos(q) \in RateOr0
  BY DEF TypeOK, TargetQos, SourceQos, DecRec, RateOr0

(* A notification is well formed. *)
LEMMA NotifyType ==
  ASSUME NEW of \in Rules \cup {0},
         NEW kind \in {"none", "create", "post", "patch", "delete", "qos"},
         NEW inst \in SUBSET Rules, NEW del \in SUBSET Rules,
         NEW qos \in [Qos -> RateOr0], NEW qdel \in SUBSET Qos
  PROVE  Notify(of, kind, inst, del, qos, qdel) \in DecRec
  BY DEF Notify, DecRec

(* The state in which a session is created satisfies the invariant. *)
LEMMA InvInit == Init => Inv
<1> SUFFICES ASSUME Init PROVE Inv
  OBVIOUS
<1>1. NoQosDecs \in [Qos -> RateOr0]
  BY DEF NoQosDecs, RateOr0
<1>2. dec \in DecRec
  BY ConstantsOK, NotifyType DEF ConstantsOK, Init, Rules
<1>3. [r \in Rules |-> NoRule] \in [Rules -> RuleRec]
  BY OneQFI DEF NoRule, RuleRec
<1>4. ctx \in CtxRec
  <2>1. [p \in PathIds |-> NoPath] \in [PathIds -> PathRec]
    BY DEF NoPath, PathRec, States
  <2>2. [d \in QerIds |-> NoQer] \in [QerIds -> QerRec]
    BY OneQFI DEF NoQer, QerRec, States
  <2>3. QED
    BY <2>1, <2>2 DEF Init, CtxRec
<1>5. upf \in UpfRec
  BY DEF Init, UpfRec
<1>6. qosDataToQFI \in [Qos -> QFIs] /\ qfiOffset \in 2..MaxQFI
  BY OneQFI, ConstantsOK DEF ConstantsOK, Init
<1>7. TypeOK
  BY <1>1, <1>2, <1>3, <1>4, <1>5, <1>6, ConstantsOK
  DEF ConstantsOK, Init, TypeOK, Rules
<1>8. QerMapLive
  BY DEF Init, QerMapLive, MapLive
<1>9. QED
  BY <1>7, <1>8 DEF Inv

(* The requests at the PCF leave the SMF and the UPF alone. *)
LEMMA InvPcf == Inv /\ PcfNext => Inv'
<1> SUFFICES ASSUME Inv, PcfNext PROVE Inv'
  OBVIOUS
<1> USE DEF Inv
<1>1. AfRules \subseteq Rules /\ InfluenceRules \subseteq Rules
  BY DEF Rules
<1>2. NoQosDecs \in [Qos -> RateOr0]
  BY DEF NoQosDecs, RateOr0
<1>3. \A q, x : x \in RateOr0 => [pcfQos EXCEPT ![q] = x] \in [Qos -> RateOr0]
  BY DEF TypeOK
<1>4. Rates \subseteq RateOr0 /\ 0 \in RateOr0
  BY DEF RateOr0
<1>5. RefQos \in [Rules -> Qos \cup {NoQos}]
  BY ConstantsOK DEF ConstantsOK
<1>6. ASSUME NEW rate \in Rates, postAppSessCtx(rate) PROVE Inv'
  <2> DEFINE r == FreshId(AfRules)
  <2>1. r \in Rules
    BY <1>1, <1>6, FreshIdIn DEF postAppSessCtx
  <2>2. /\ pcfRules' = pcfRules \cup {r} /\ usedIds' = usedIds \cup {r}
        /\ posting' = posting \cup {r}
        /\ pcfQos' = [pcfQos EXCEPT ![RefQos[r]] = rate]
        /\ UNCHANGED <<net, pc, dec, todo, ruleVars, ctx, est, upf>>
    BY <1>6 DEF postAppSessCtx
  <2> HIDE DEF r
  <2>3. pcfQos' \in [Qos -> RateOr0]
    BY <1>3, <1>4, <2>2
  <2>4. QED
    BY <2>1, <2>2, <2>3 DEF TypeOK, QerMapLive, MapLive, ruleVars
<1>7. ASSUME NEW r \in Rules, SendSMPolicyUpdateNotification(r) PROVE Inv'
  <2>1. Notify(r, "post", pcfRules, {}, pcfQos, {}) \in DecRec
    BY NotifyType DEF TypeOK
  <2>2. QED
    BY <1>7, <2>1
    DEF SendSMPolicyUpdateNotification, TypeOK, QerMapLive, MapLive, ruleVars
<1>8. ASSUME NEW r \in Rules, NEW rate \in Rates,
             HandleModAppSessionContext(r, rate) PROVE Inv'
  <2> DEFINE n == FreshId(AfRules)
  <2>1. n \in Rules
    BY <1>1, <1>8, FreshIdIn DEF HandleModAppSessionContext
  <2>2. /\ pcfRules' = (pcfRules \ {r}) \cup {n} /\ usedIds' = usedIds \cup {n}
        /\ pcfQos' = [pcfQos EXCEPT ![RefQos[r]] = 0, ![RefQos[n]] = rate]
        /\ net' = net \cup
             {Notify(n, "patch", pcfRules', {r}, pcfQos', {RefQos[r]} \cap Qos)}
        /\ UNCHANGED <<posting, pc, dec, todo, ruleVars, ctx, est, upf>>
    BY <1>8 DEF HandleModAppSessionContext
  <2> HIDE DEF n
  <2>3. pcfQos' \in [Qos -> RateOr0]
    <3>1. [pcfQos EXCEPT ![RefQos[r]] = 0] \in [Qos -> RateOr0]
      BY <1>3, <1>4
    <3>2. QED
      BY <1>4, <2>2, <3>1
  <2>4. pcfRules' \subseteq Rules
    BY <2>1, <2>2 DEF TypeOK
  <2>5. Notify(n, "patch", pcfRules', {r}, pcfQos', {RefQos[r]} \cap Qos) \in DecRec
    BY <2>1, <2>3, <2>4, NotifyType
  <2>6. QED
    BY <2>1, <2>2, <2>3, <2>4, <2>5 DEF TypeOK, QerMapLive, MapLive, ruleVars
<1>9. ASSUME NEW r \in Rules, Remove(r) PROVE Inv'
  <2>1. pcfQos' \in [Qos -> RateOr0]
    BY <1>3, <1>4, <1>9 DEF Remove, TypeOK
  <2>2. Notify(r, "delete", {}, {r}, NoQosDecs, {}) \in DecRec
    BY <1>2, NotifyType
  <2>3. QED
    BY <1>9, <2>1, <2>2 DEF Remove, TypeOK, QerMapLive, MapLive, ruleVars
<1>10. ASSUME NewInfluenceData PROVE Inv'
  <2> DEFINE r == FreshId(InfluenceRules)
  <2>1. r \in Rules
    BY <1>1, <1>10, FreshIdIn DEF NewInfluenceData
  <2>2. /\ pcfRules' = pcfRules \cup {r} /\ usedIds' = usedIds \cup {r}
        /\ posting' = posting \cup {r}
        /\ UNCHANGED <<pcfQos, net, pc, dec, todo, ruleVars, ctx, est, upf>>
    BY <1>10 DEF NewInfluenceData
  <2> HIDE DEF r
  <2>3. QED
    BY <2>1, <2>2 DEF TypeOK, QerMapLive, MapLive, ruleVars
<1>11. ASSUME NEW q \in Qos, NEW rate \in Rates, UpdateQosData(q, rate) PROVE Inv'
  <2> DEFINE n == [NoQosDecs EXCEPT ![q] = rate]
  <2>1. n \in [Qos -> RateOr0]
    BY <1>2, <1>4
  <2> HIDE DEF n
  <2>2. Notify(0, "qos", {}, {}, n, {}) \in DecRec
    BY <2>1, NotifyType
  <2>3. pcfQos' \in [Qos -> RateOr0]
    BY <1>3, <1>4, <1>11 DEF UpdateQosData
  <2>4. /\ net' = net \cup {Notify(0, "qos", {}, {}, n, {})}
        /\ UNCHANGED <<pcfRules, usedIds, posting, pc, dec, todo, ruleVars, ctx,
                       est, upf>>
    BY <1>11 DEF UpdateQosData, n
  <2>5. QED
    BY <2>2, <2>3, <2>4 DEF TypeOK, QerMapLive, MapLive, ruleVars
<1>12. QED
  BY <1>6, <1>7, <1>8, <1>9, <1>10, <1>11
  DEF PcfNext, HandleDeleteAppSessionContext, RemoveInfluenceData

(* What a step of the SMF that changes the context has to show. *)
LEMMA GoodStep ==
  ASSUME Inv
  PROVE  Good(ctx)
  BY DEF Inv, Good, TypeOK, QerMapLive

(* A rule that a notification names is installed with a QFI and a rate of the
   right kind; marking the old data path afterwards keeps the context good. *)
LEMMA NewThenOldGood ==
  ASSUME Inv, NEW r \in Rules, FreshPaths(ctx) # {},
         Cardinality(FreshQers(ctx)) > 1
  PROVE  /\ Min(FreshPaths(ctx)) \in PathIds
         /\ Good(NewThenOld(Min(FreshPaths(ctx)), r))
<1> DEFINE p == Min(FreshPaths(ctx))
           q == RefQos[r]
           c == CreatePccRuleDataPath(ctx, p, r, AssignQFI(q), TargetQos(q))
<1>1. p \in PathIds
  BY FreshPathIn
<1>2. q \in Qos \cup {NoQos}
  BY ConstantsOK DEF ConstantsOK
<1>3. AssignQFI(q) \in QFIs
  BY <1>2, QFIType DEF Inv, TypeOK
<1>4. TargetQos(q) \in RateOr0
  BY <1>2, TargetType DEF Inv
<1>5. PCCRules[r].path \in PathIds \cup {0}
  BY DEF Inv, TypeOK, RuleRec
<1>6. NewThenOld(p, r) = PreRemoveDataPath(c, PCCRules[r].path)
  BY DEF NewThenOld
<1> HIDE DEF p, q
<1>7. Good(c)
  BY <1>1, <1>3, <1>4, GoodStep, CreateGood
<1> HIDE DEF c
<1>8. QED
  BY <1>1, <1>5, <1>6, <1>7, PreRemoveGood DEF p

(* Assigning a QFI keeps the map of QFIs and the offset in range. *)
LEMMA SetQFIType ==
  ASSUME Inv, NEW r \in Rules, SetQFI(r)
  PROVE  qosDataToQFI' \in [Qos -> QFIs] /\ qfiOffset' \in 2..MaxQFI
<1>1. RefQos[r] \in Qos \cup {NoQos}
  BY ConstantsOK DEF ConstantsOK
<1>2. \A q \in Qos : AssignQFI(q) \in QFIs /\ qosDataToQFI[q] \in QFIs
  BY QFIType DEF Inv, TypeOK
<1>3. NextOffset(RefQos[r]) \in 2..MaxQFI
  BY <1>1, QFIType DEF Inv, TypeOK
<1>4. QED
  BY <1>2, <1>3 DEF SetQFI

(* The QoS data a rule brings along are rates. *)
LEMMA FinalQosType ==
  ASSUME Inv, NEW r
  PROVE  [q \in Qos |-> IF q = RefQos[r] THEN TargetQos(q) ELSE finalQosDatas[q]]
            \in [Qos -> RateOr0]
<1>1. \A q \in Qos : TargetQos(q) \in RateOr0
  BY TargetType DEF Inv
<1>2. QED
  BY <1>1 DEF Inv, TypeOK

(* A rule put into a rule map keeps the map well formed. *)
LEMMA RuleMapType ==
  ASSUME NEW m \in [Rules -> RuleRec], NEW r, NEW rule \in RuleRec
  PROVE  [m EXCEPT ![r] = rule] \in [Rules -> RuleRec]
  OBVIOUS

(* The empty rule is a rule record. *)
LEMMA NoRuleType == NoRule \in RuleRec
  BY OneQFI DEF NoRule, RuleRec

(* ApplyPccRules and the PFCP request, step by step. *)
LEMMA InvSmf == Inv /\ SmfNext => Inv'
<1> SUFFICES ASSUME Inv, SmfNext PROVE Inv'
  OBVIOUS
<1>1. Good(ctx)
  BY GoodStep
<1>2. todo \subseteq Rules /\ upf \in UpfRec /\ dec \in DecRec /\ net \subseteq DecRec
  BY DEF Inv, TypeOK
<1>3. Good(ctx)' <=> ctx' \in CtxRec /\ QerMapLive'
  BY DEF Good, QerMapLive
<1>4. NoQosDecs \in [Qos -> RateOr0]
  BY DEF NoQosDecs, RateOr0
<1>5. ASSUME NEW n \in net, HandleSMPolicyUpdateNotify(n) PROVE Inv'
  <2>1. n \in DecRec
    BY <1>2
  <2>2. n.inst \cup n.del \subseteq Rules
    BY <2>1 DEF DecRec
  <2>3. qosDataToQFI' \in [Qos -> QFIs]
    BY <1>5, OneQFI DEF HandleSMPolicyUpdateNotify, Inv, TypeOK
  <2>4. finalPccRules' \in [Rules -> RuleRec]
    BY <1>5, NoRuleType DEF HandleSMPolicyUpdateNotify
  <2>5. Good(ctx)'
    <3> DEFINE F == {qosDataToQFI[q] : q \in n.qdel} \ {0}
    <3>1. ctx' = [ctx EXCEPT !.flows = @ \ F]
      BY <1>5 DEF HandleSMPolicyUpdateNotify
    <3> HIDE DEF F
    <3>2. QED
      BY <1>1, <3>1 DEF Good, CtxRec, MapLive
  <2>6. QED
    BY <1>2, <1>3, <1>4, <1>5, <2>1, <2>2, <2>3, <2>4, <2>5
    DEF HandleSMPolicyUpdateNotify, Inv, TypeOK, pcfVars
<1>6. ASSUME NEW r \in todo, RemovePccRule(r) PROVE Inv'
  <2>1. PCCRules[r].path \in PathIds \cup {0}
    BY <1>2 DEF Inv, TypeOK, RuleRec
  <2>2. Good(ctx)'
    BY <1>1, <1>6, <2>1, PreRemoveGood DEF RemovePccRule, Good, MapLive
  <2>3. PCCRules' \in [Rules -> RuleRec]
    BY <1>6, RuleMapType, NoRuleType DEF RemovePccRule, Inv, TypeOK
  <2>4. QED
    BY <1>3, <1>6, <2>2, <2>3 DEF RemovePccRule, Inv, TypeOK, pcfVars
<1>7. ASSUME NEW r \in todo, InstallPccRule(r) PROVE Inv'
  <2> DEFINE p == Min(FreshPaths(ctx))
             rule == [path |-> p, qfi |-> AssignQFI(RefQos[r])]
  <2>1. p \in PathIds /\ Good(NewThenOld(p, r))
    BY <1>2, <1>7, NewThenOldGood DEF InstallPccRule
  <2>2. rule \in RuleRec
    <3>1. RefQos[r] \in Qos \cup {NoQos}
      BY <1>2, ConstantsOK DEF ConstantsOK
    <3>2. AssignQFI(RefQos[r]) \in QFIs
      BY <3>1, QFIType DEF Inv, TypeOK
    <3>3. QED
      BY <2>1, <3>2 DEF RuleRec
  <2>3. /\ ctx' = NewThenOld(p, r)
        /\ finalPccRules' = [finalPccRules EXCEPT ![r] = rule]
        /\ PCCRules' = [PCCRules EXCEPT ![r] = NoRule]
        /\ finalQosDatas' = [q \in Qos |->
             IF q = RefQos[r] THEN TargetQos(q) ELSE finalQosDatas[q]]
        /\ SetQFI(r) /\ todo' = todo \ {r}
        /\ UNCHANGED <<pcfVars, net, pc, dec, QosDatas, est, upf>>
    BY <1>7 DEF InstallPccRule
  <2> HIDE DEF p, rule
  <2>4. Good(ctx)'
    BY <2>1, <2>3 DEF Good, MapLive
  <2>5. finalPccRules' \in [Rules -> RuleRec] /\ PCCRules' \in [Rules -> RuleRec]
    BY <2>2, <2>3, RuleMapType, NoRuleType DEF Inv, TypeOK
  <2>6. finalQosDatas' \in [Qos -> RateOr0]
    BY <2>3, FinalQosType
  <2>7. qosDataToQFI' \in [Qos -> QFIs] /\ qfiOffset' \in 2..MaxQFI
    BY <1>2, <2>3, SetQFIType
  <2>8. QED
    BY <1>3, <2>3, <2>4, <2>5, <2>6, <2>7 DEF Inv, TypeOK, pcfVars
<1>8. ASSUME NEW r \in todo, InstallPccRuleFails(r) PROVE Inv'
  <2> DEFINE p == Min(FreshPaths(ctx))
  <2>1. p \in PathIds /\ Good(NewThenOld(p, r))
    BY <1>2, <1>8, NewThenOldGood DEF InstallPccRuleFails
  <2>2. /\ ctx' = NewThenOld(p, r) /\ SetQFI(r) /\ todo' = {} /\ pc' = "idle"
        /\ UNCHANGED <<pcfVars, net, dec, PCCRules, finalPccRules, QosDatas,
                       finalQosDatas, est, upf>>
    BY <1>8 DEF InstallPccRuleFails
  <2> HIDE DEF p
  <2>3. Good(ctx)'
    BY <2>1, <2>2 DEF Good, MapLive
  <2>4. qosDataToQFI' \in [Qos -> QFIs] /\ qfiOffset' \in 2..MaxQFI
    BY <1>2, <2>2, SetQFIType
  <2>5. QED
    BY <1>3, <2>2, <2>3, <2>4 DEF Inv, TypeOK, pcfVars
<1>9. ASSUME NEW r \in todo, KeepPccRule(r) PROVE Inv'
  <2>1. PCCRules[r] \in RuleRec
    BY <1>2 DEF Inv, TypeOK
  <2>2. /\ finalPccRules' = [finalPccRules EXCEPT ![r] = PCCRules[r]]
        /\ finalQosDatas' = [q \in Qos |->
             IF q = RefQos[r] THEN TargetQos(q) ELSE finalQosDatas[q]]
        /\ todo' = todo \ {r}
        /\ UNCHANGED <<pcfVars, net, pc, dec, PCCRules, QosDatas, qosDataToQFI,
                       qfiOffset, est, upf, ctx>>
    BY <1>9 DEF KeepPccRule, Keep
  <2>3. finalPccRules' \in [Rules -> RuleRec]
    BY <2>1, <2>2, RuleMapType DEF Inv, TypeOK
  <2>4. finalQosDatas' \in [Qos -> RateOr0]
    BY <2>2, FinalQosType
  <2>5. QED
    BY <2>2, <2>3, <2>4 DEF Inv, TypeOK, QerMapLive, MapLive, pcfVars
<1>10. ASSUME NEW r \in todo, ChangePccRule(r) PROVE Inv'
  <2> DEFINE p == Min(FreshPaths(ctx))
             rule == [PCCRules[r] EXCEPT !.path = p]
             e == PreRemoveDataPath(ctx, PCCRules[r].path)
             rate == TargetQos(RefQos[r])
             c == CreatePccRuleDataPath(e, p, r, PCCRules[r].qfi, rate)
  <2>1. p \in PathIds
    BY <1>10, FreshPathIn DEF ChangePccRule
  <2>2. PCCRules[r] \in RuleRec
    BY <1>2 DEF Inv, TypeOK
  <2>3. rule \in RuleRec
    BY <2>1, <2>2 DEF RuleRec
  <2>4. Good(e) /\ FreshQers(e) = FreshQers(ctx)
    BY <1>1, <2>2, PreRemoveGood DEF RuleRec
  <2>5. rate \in RateOr0
    BY <1>2, TargetType, ConstantsOK DEF Inv, ConstantsOK
  <2>6. /\ ctx' = c
        /\ finalPccRules' = [finalPccRules EXCEPT ![r] = rule]
        /\ finalQosDatas' = [q \in Qos |->
             IF q = RefQos[r] THEN TargetQos(q) ELSE finalQosDatas[q]]
        /\ todo' = todo \ {r}
        /\ Cardinality(FreshQers(ctx)) > 1
        /\ UNCHANGED <<pcfVars, net, pc, dec, PCCRules, QosDatas, qosDataToQFI,
                       qfiOffset, est, upf>>
    BY <1>10 DEF ChangePccRule, Keep
  <2> HIDE DEF p, rule, e, rate
  <2>7. Good(c)
    <3>1. PCCRules[r].qfi \in QFIs /\ r \in Rules
      BY <1>2, <2>2 DEF RuleRec
    <3>2. QED
      BY <2>1, <2>4, <2>5, <2>6, <3>1, CreateGood
  <2> HIDE DEF c
  <2>8. Good(ctx)'
    BY <2>6, <2>7 DEF Good, MapLive
  <2>9. finalPccRules' \in [Rules -> RuleRec]
    BY <2>3, <2>6, RuleMapType DEF Inv, TypeOK
  <2>10. finalQosDatas' \in [Qos -> RateOr0]
    BY <2>6, FinalQosType
  <2>11. QED
    BY <1>3, <2>6, <2>8, <2>9, <2>10 DEF Inv, TypeOK, pcfVars
<1>11. ASSUME EndInDecision PROVE Inv'
  BY <1>11 DEF EndInDecision, Inv, TypeOK, QerMapLive, MapLive, pcfVars, ruleVars
<1>12. ASSUME EndApplyPccRules PROVE Inv'
  <2>1. Good(ctx)'
    <3>1. CASE est \/ GetDefaultPath(ctx) # {}
      <4>1. ctx' = ctx
        BY <1>12, <3>1 DEF EndApplyPccRules, SelectDefaultDataPath
      <4>2. QED
        BY <1>1, <4>1 DEF Good, MapLive
    <3>2. CASE ~est /\ GetDefaultPath(ctx) = {}
      <4> DEFINE p == Min(FreshPaths(ctx))
                 c == ActivateTunnelAndPDR(ctx, p, 0, TRUE, FALSE)
      <4>1. FreshPaths(ctx) # {} /\ Cardinality(FreshQers(ctx)) > 1
        BY <1>12, <3>2 DEF EndApplyPccRules
      <4>2. p \in PathIds
        BY <4>1, FreshPathIn
      <4>3. FreshQers(ctx) # {}
        BY <4>1, FreshTwo
      <4>4. ctx' = c
        BY <1>12, <3>2 DEF EndApplyPccRules, SelectDefaultDataPath
      <4> HIDE DEF p
      <4>5. Good(c)
        BY <1>1, <4>2, <4>3, ActivateGood
      <4> HIDE DEF c
      <4>6. QED
        BY <4>4, <4>5 DEF Good, MapLive
    <3>3. QED
      BY <3>1, <3>2
  <2>2. QED
    BY <1>3, <1>12, <2>1 DEF EndApplyPccRules, Inv, TypeOK, pcfVars
<1>13. ASSUME ActivateUPFSession PROVE Inv'
  <2>1. Good(ctx)'
    BY <1>1, <1>13, SentGood DEF ActivateUPFSession, Good, MapLive
  <2>2. upf' \in UpfRec
    BY <1>1, <1>2, <1>13, AppliedType DEF ActivateUPFSession, Good
  <2>3. QED
    BY <1>3, <1>13, <2>1, <2>2 DEF ActivateUPFSession, Inv, TypeOK, pcfVars, ruleVars
<1>14. ASSUME ModificationFails PROVE Inv'
  <2>1. Good(ctx)'
    BY <1>1, <1>14, SentGood DEF ModificationFails, Good, MapLive
  <2>2. QED
    BY <1>3, <1>14, <2>1 DEF ModificationFails, Inv, TypeOK, pcfVars, ruleVars
<1>15. ASSUME EndNotification PROVE Inv'
  <2>1. Good(ctx)'
    BY <1>1, <1>15, PostRemoveGood DEF EndNotification, Good, MapLive
  <2>2. QED
    BY <1>3, <1>15, <2>1 DEF EndNotification, Inv, TypeOK, pcfVars, ruleVars
<1>16. QED
  BY <1>5, <1>6, <1>7, <1>8, <1>9, <1>10, <1>11, <1>12, <1>13, <1>14, <1>15
  DEF SmfNext

(* The invariant holds in every reachable state. *)
LEMMA InvAlways == Spec => []Inv
<1>1. Inv /\ [Next]_vars => Inv'
  <2>1. ASSUME Inv, UNCHANGED vars PROVE Inv'
    BY <2>1 DEF Inv, TypeOK, QerMapLive, MapLive, vars, pcfVars, ruleVars
  <2>2. QED
    BY <2>1, InvPcf, InvSmf DEF Next, Rest
<1>2. QED
  BY <1>1, InvInit, PTL DEF Spec

(* Every variable keeps its type: in particular the offset of the QFI
   generator stays in 2..MaxQFI, and ids come from their ranges. *)
THEOREM SmfTypeCorrect == Spec => []TypeOK
<1>1. Inv => TypeOK
  BY DEF Inv
<1>2. QED
  BY <1>1, InvAlways, PTL

(* Whatever is lost, reordered or refused, QerUpfMap names only QERs of the
   pool, each under its own QFI. *)
THEOREM QerMapAlwaysLive == Spec => []QerMapLive
<1>1. Inv => QerMapLive
  BY DEF Inv
<1>2. QED
  BY <1>1, InvAlways, PTL


-----------------------------------------------------------------------------
(* What the functions on a context do to data paths and QERs.                *)

\* the data paths that are not to be removed
Stays(c) == Pool(c) \ c.doomed

\* b is c with the data path p of rule r: QERs of the pool are as they were,
\* and a path without a QoS datum holds the AMBR QER.
Created(c, b, p, r) ==
    /\ b.doomed = c.doomed
    /\ \A k \in PathIds : k # p => b.pool[k] = c.pool[k]
    /\ b.pool[p].rule = r /\ b.pool[p].pdr = "INITIAL"
    /\ b.pool[p].default <=> GetDefaultPath(c) = {} /\ r = DefRule
    /\ b.ambr \in QerIds
    /\ c.ambr # 0 => b.ambr = c.ambr
    /\ c.ambr = 0 => b.qer[b.ambr] = NewQer(1, AmbrRate)
    /\ \A d \in QerIds : c.qer[d].pooled => b.qer[d] = c.qer[d]
    /\ RefQos[r] = NoQos /\ b.qer[b.ambr].pooled => b.ambr \in b.pool[p].qers

\* b is c with data path p marked: a QER is marked with it only if no path
\* that stays holds it.
Marked(c, b, p) ==
    /\ p = 0 => b = c
    /\ b.ambr = c.ambr
    /\ b.doomed = c.doomed \cup ({p} \ {0})
    /\ \A k \in PathIds : k # p => b.pool[k] = c.pool[k]
    /\ p # 0 => b.pool[p] = [c.pool[p] EXCEPT !.pdr = "REMOVE"]
    /\ \A d \in QerIds : b.qer[d] = [c.qer[d] EXCEPT !.state = b.qer[d].state]
    /\ \A d \in QerIds : \/ b.qer[d].state \in {c.qer[d].state, "CREATE"}
                         \/ /\ b.qer[d].state = "REMOVE"
                            /\ \A k \in Stays(b) : d \notin b.pool[k].qers

(* A fresh path is none of the pool. *)
LEMMA FreshPathNew ==
  ASSUME NEW c, FreshPaths(c) # {}
  PROVE  Min(FreshPaths(c)) \in PathIds \ Pool(c)
<1>1. FreshPaths(c) \subseteq Nat
  BY ConstantsOK DEF ConstantsOK, FreshPaths
<1>2. QED
  BY <1>1, MinIn DEF FreshPaths

(* The AMBR QER is new or the one there was. *)
LEMMA AmbrQerEffect ==
  ASSUME NEW c, Good(c), FreshQers(c) # {}
  PROVE  /\ AmbrQer(c).doomed = c.doomed
         /\ c.ambr # 0 => AmbrQer(c) = c
         /\ c.ambr = 0 => AmbrQer(c).qer[AmbrQer(c).ambr] = NewQer(1, AmbrRate)
         /\ \A d \in QerIds : c.qer[d].pooled => AmbrQer(c).qer[d] = c.qer[d]
<1>1. CASE c.ambr # 0
  BY <1>1 DEF AmbrQer
<1>2. CASE c.ambr = 0
  <2> DEFINE d == Min(FreshQers(c))
             n == NewQer(1, AmbrRate)
  <2>1. d \in QerIds /\ ~c.qer[d].pooled
    BY FreshQerIn
  <2>2. AmbrQer(c) = [c EXCEPT !.ambr = d, !.qer[d] = n]
    BY <1>2 DEF AmbrQer
  <2> HIDE DEF d, n
  <2>3. AmbrQer(c).qer[AmbrQer(c).ambr] = n
    BY <2>1, <2>2 DEF Good, CtxRec
  <2>4. QED
    BY <1>2, <2>1, <2>2, <2>3 DEF Good, CtxRec, n
<1>3. QED
  BY <1>1, <1>2

\* b is c with data path p activated
Activated(c, b, p, r, default, gbr) ==
    /\ b.doomed = c.doomed
    /\ \A k \in PathIds : k # p => b.pool[k] = c.pool[k]
    /\ b.pool[p].rule = r /\ b.pool[p].pdr = "INITIAL"
    /\ b.pool[p].default = default
    /\ b.pool[p].qers = IF b.qer[b.ambr].pooled /\ ~gbr THEN {b.ambr} ELSE {}
    /\ b.ambr \in QerIds
    /\ c.ambr # 0 => b.ambr = c.ambr
    /\ c.ambr = 0 => b.qer[b.ambr] = NewQer(1, AmbrRate)
    /\ \A d \in QerIds : c.qer[d].pooled => b.qer[d] = c.qer[d]
    /\ b.qerUpfMap = c.qerUpfMap

(* The activation of a path writes that path and, the first time, the AMBR
   QER. *)
LEMMA ActivateEffect ==
  ASSUME NEW c, Good(c), FreshQers(c) # {}, NEW p \in PathIds,
         NEW r \in Rules \cup {0}, NEW default \in BOOLEAN, NEW gbr \in BOOLEAN
  PROVE  Activated(c, ActivateTunnelAndPDR(c, p, r, default, gbr), p, r, default, gbr)
<1> DEFINE b == ActivateTunnelAndPDR(c, p, r, default, gbr)
<1> DEFINE a == AmbrQer(c)
           qs == IF a.qer[a.ambr].pooled /\ ~gbr THEN {a.ambr} ELSE {}
           n == [rule |-> r, default |-> default, pdr |-> "INITIAL", qers |-> qs]
<1>1. Good(a) /\ a.ambr \in QerIds /\ a.pool = c.pool
  BY AmbrQerGood
<1>2. /\ a.doomed = c.doomed
      /\ c.ambr # 0 => a = c
      /\ c.ambr = 0 => a.qer[a.ambr] = NewQer(1, AmbrRate)
      /\ \A d \in QerIds : c.qer[d].pooled => a.qer[d] = c.qer[d]
  BY AmbrQerEffect
<1>3. a.qerUpfMap = c.qerUpfMap
  BY DEF AmbrQer, Good, CtxRec
<1>4. b = [a EXCEPT !.pool[p] = n]
  BY DEF ActivateTunnelAndPDR
<1> HIDE DEF a, b
<1>5. /\ b.doomed = a.doomed /\ b.ambr = a.ambr /\ b.qer = a.qer
      /\ b.qerUpfMap = a.qerUpfMap /\ b.pool = [a.pool EXCEPT ![p] = n]
  BY <1>1, <1>4 DEF Good, CtxRec
<1>6. /\ n.rule = r /\ n.default = default /\ n.pdr = "INITIAL" /\ n.qers = qs
  OBVIOUS
<1> HIDE DEF n
<1>7. b.pool[p] = n /\ \A k \in PathIds : k # p => b.pool[k] = a.pool[k]
  BY <1>1, <1>5 DEF Good, CtxRec
<1>8. b.pool[p].qers = IF b.qer[b.ambr].pooled /\ ~gbr THEN {b.ambr} ELSE {}
  BY <1>5, <1>6, <1>7
<1> HIDE DEF qs
<1>9. /\ b.pool[p].rule = r /\ b.pool[p].pdr = "INITIAL"
      /\ b.pool[p].default = default
  BY <1>6, <1>7
<1>10. /\ \A k \in PathIds : k # p => b.pool[k] = c.pool[k]
       /\ b.doomed = c.doomed /\ b.ambr \in QerIds /\ b.qerUpfMap = c.qerUpfMap
       /\ c.ambr # 0 => b.ambr = c.ambr
       /\ c.ambr = 0 => b.qer[b.ambr] = NewQer(1, AmbrRate)
       /\ \A d \in QerIds : c.qer[d].pooled => b.qer[d] = c.qer[d]
  BY <1>1, <1>2, <1>3, <1>5, <1>7
<1>11. QED
  BY <1>8, <1>9, <1>10 DEF Activated, b

(* AddQoS writes at most the QERs of one path and a QER that is fresh. *)
LEMMA AddQoSEffect ==
  ASSUME NEW c, Good(c), FreshQers(c) # {}, NEW p \in PathIds,
         NEW qfi \in QFIs, NEW rate \in Nat,
         NEW b, b = AddQoS(c, p, qfi, rate)
  PROVE  /\ b.doomed = c.doomed /\ b.ambr = c.ambr
         /\ \A k \in PathIds : k # p => b.pool[k] = c.pool[k]
         /\ b.pool[p] = [c.pool[p] EXCEPT !.qers = b.pool[p].qers]
         /\ c.pool[p].qers \subseteq b.pool[p].qers
         /\ \A d \in QerIds : c.qer[d].pooled => b.qer[d] = c.qer[d]
<1> DEFINE known == c.qerUpfMap[qfi]
           d == Min(FreshQers(c))
           n == NewQer(qfi, rate)
<1>1. d \in QerIds /\ ~c.qer[d].pooled
  BY FreshQerIn
<1>2. c.pool[p] \in PathRec /\ c.pool \in [PathIds -> PathRec]
      /\ c.qer \in [QerIds -> QerRec]
  BY DEF Good, CtxRec
<1>3. CASE rate = 0
  <2>1. b = c
    BY <1>3 DEF AddQoS
  <2>2. QED
    BY <1>2, <2>1 DEF PathRec
<1>4. CASE rate # 0 /\ known = 0
  <2>1. b = [c EXCEPT !.qer[d] = n, !.qerUpfMap[qfi] = d,
                      !.pool[p].qers = @ \cup {d}]
    BY <1>4 DEF AddQoS
  <2> DEFINE l == [c.pool EXCEPT ![p].qers = @ \cup {d}]
             m == [c.qer EXCEPT ![d] = n]
  <2> HIDE DEF d, n
  <2>2. b.pool = l /\ b.qer = m /\ b.doomed = c.doomed /\ b.ambr = c.ambr
    BY <2>1 DEF Good, CtxRec
  <2>3. l[p] = [c.pool[p] EXCEPT !.qers = @ \cup {d}]
        /\ \A k \in PathIds : k # p => l[k] = c.pool[k]
    BY <1>2
  <2>4. l[p] = [c.pool[p] EXCEPT !.qers = l[p].qers] /\ c.pool[p].qers \subseteq l[p].qers
    BY <1>2, <2>3 DEF PathRec
  <2>5. \A e \in QerIds : e # d => m[e] = c.qer[e]
    BY <1>2
  <2> HIDE DEF l, m
  <2>6. QED
    BY <1>1, <2>2, <2>3, <2>4, <2>5
<1>5. CASE rate # 0 /\ known # 0
  <2> DEFINE qs == IF c.qer[known].pooled THEN c.pool[p].qers \cup {known}
                   ELSE c.pool[p].qers
             l == [c.pool EXCEPT ![p].qers = qs]
  <2>1. b = [c EXCEPT !.pool[p].qers = qs]
    BY <1>5 DEF AddQoS, Good, CtxRec, PathRec
  <2>2. c.pool[p].qers \subseteq qs
    OBVIOUS
  <2> HIDE DEF qs
  <2>3. b.pool = l /\ b.qer = c.qer /\ b.doomed = c.doomed /\ b.ambr = c.ambr
    BY <2>1 DEF Good, CtxRec
  <2>4. l[p] = [c.pool[p] EXCEPT !.qers = qs]
        /\ \A k \in PathIds : k # p => l[k] = c.pool[k]
    BY <1>2
  <2>5. l[p] = [c.pool[p] EXCEPT !.qers = l[p].qers] /\ l[p].qers = qs
    BY <1>2, <2>4 DEF PathRec
  <2> HIDE DEF l
  <2>6. QED
    BY <2>2, <2>3, <2>4, <2>5
<1>6. QED
  BY <1>3, <1>4, <1>5

(* CreatePccRuleDataPath: the two together. *)
LEMMA CreateEffect ==
  ASSUME NEW c, Good(c), Cardinality(FreshQers(c)) > 1, NEW p \in PathIds,
         NEW r \in Rules, NEW qfi \in QFIs, NEW rate \in RateOr0
  PROVE  Created(c, CreatePccRuleDataPath(c, p, r, qfi, rate), p, r)
<1> DEFINE q == RefQos[r]
           default == GetDefaultPath(c) = {} /\ r = DefRule
           gbr == rate # 0 /\ q \in Gbr
           a == ActivateTunnelAndPDR(c, p, r, default, gbr)
           x == CreatePccRuleDataPath(c, p, r, qfi, rate)
<1>1. FreshQers(c) # {} /\ FreshQers(c) \ {AmbrQer(c).ambr} # {}
  BY FreshTwo
<1>2. default \in BOOLEAN /\ gbr \in BOOLEAN
  OBVIOUS
<1>3. q = NoQos => ~gbr
  BY ConstantsOK DEF ConstantsOK
<1>4. rate \in Nat
  BY ConstantsOK DEF ConstantsOK, RateOr0
<1> HIDE DEF default, gbr
<1>5. Good(a) /\ FreshQers(a) # {}
  BY <1>1, <1>2, ActivateGood
<1>6. Activated(c, a, p, r, default, gbr)
  BY <1>1, <1>2, ActivateEffect
<1> HIDE DEF a
<1>7. /\ a.doomed = c.doomed
      /\ \A k \in PathIds : k # p => a.pool[k] = c.pool[k]
      /\ a.pool[p].rule = r /\ a.pool[p].pdr = "INITIAL"
      /\ a.pool[p].default = default
      /\ a.pool[p].qers = IF a.qer[a.ambr].pooled /\ ~gbr THEN {a.ambr} ELSE {}
      /\ a.ambr \in QerIds
      /\ c.ambr # 0 => a.ambr = c.ambr
      /\ c.ambr = 0 => a.qer[a.ambr] = NewQer(1, AmbrRate)
      /\ \A d \in QerIds : c.qer[d].pooled => a.qer[d] = c.qer[d]
  BY <1>6 DEF Activated
<1>8. CASE q = NoQos
  <2>1. x = a
    BY <1>8 DEF CreatePccRuleDataPath, default, gbr, a
  <2> HIDE DEF x
  <2>2. QED
    BY <1>3, <1>7, <1>8, <2>1 DEF Created, default, x
<1>9. CASE q # NoQos
  <2>1. PICK b : b = AddQoS(a, p, qfi, rate)
    OBVIOUS
  <2>2. x = AddQosFlow(b, qfi, rate)
    BY <1>9, <2>1 DEF CreatePccRuleDataPath, default, gbr, a
  <2>3. /\ b.doomed = a.doomed /\ b.ambr = a.ambr
        /\ \A k \in PathIds : k # p => b.pool[k] = a.pool[k]
        /\ b.pool[p] = [a.pool[p] EXCEPT !.qers = b.pool[p].qers]
        /\ \A d \in QerIds : a.qer[d].pooled => b.qer[d] = a.qer[d]
    BY <1>4, <1>5, <2>1, AddQoSEffect
  <2>4. Good(b)
    BY <1>4, <1>5, <2>1, AddQoSGood
  <2>5. x.doomed = b.doomed /\ x.ambr = b.ambr /\ x.pool = b.pool /\ x.qer = b.qer
    BY <2>2, <2>4 DEF AddQosFlow, Good, CtxRec
  <2>6. b.pool[p].rule = r /\ b.pool[p].pdr = "INITIAL" /\ b.pool[p].default = default
    <3>1. a.pool[p] \in PathRec
      BY <1>5 DEF Good, CtxRec
    <3>2. QED
      BY <1>7, <2>3, <3>1 DEF PathRec
  <2>7. c.ambr = 0 => b.qer[b.ambr] = NewQer(1, AmbrRate)
    BY <1>7, <2>3 DEF NewQer
  <2>8. \A d \in QerIds : c.qer[d].pooled => b.qer[d] = c.qer[d]
    BY <1>7, <2>3
  <2> HIDE DEF x
  <2>9. QED
    BY ZenonT(60), <1>7, <1>9, <2>3, <2>5, <2>6, <2>7, <2>8 DEF Created, default, x
<1>10. QED
  BY <1>8, <1>9

(* PreRemoveDataPath marks the path and, of its QERs, those no path that stays
   holds. *)
LEMMA PreRemoveEffect ==
  ASSUME NEW c, Good(c), NEW p \in PathIds \cup {0}
  PROVE  Marked(c, PreRemoveDataPath(c, p), p)
<1>1. CASE p = 0
  <2>1. PreRemoveDataPath(c, p) = c
    BY <1>1 DEF PreRemoveDataPath
  <2>2. \A d \in QerIds : c.qer[d] = [c.qer[d] EXCEPT !.state = c.qer[d].state]
    BY DEF Good, CtxRec, QerRec
  <2>3. QED
    BY <1>1, <2>1, <2>2 DEF Marked
<1>2. CASE p # 0
  <2> DEFINE l == [c.pool EXCEPT ![p].pdr = "REMOVE"]
             e == [c EXCEPT !.pool[p].pdr = "REMOVE", !.doomed = @ \cup {p}]
             going == UNION {e.pool[k].qers : k \in e.doomed}
             kept  == UNION {e.pool[k].qers : k \in Stays(e)}
             new(d) == IF \E k \in kept : e.qer[k].qfi = e.qer[d].qfi
                       THEN "CREATE" ELSE "REMOVE"
             m == [d \in QerIds |-> IF d \notin going THEN e.qer[d]
                                    ELSE [e.qer[d] EXCEPT !.state = new(d)]]
             b == PreRemoveDataPath(c, p)
  <2>1. b = [e EXCEPT !.qer = m]
    BY <1>2, Zenon DEF PreRemoveDataPath, refreshQERRemovalState, Stays
  <2>2. l[p] = [c.pool[p] EXCEPT !.pdr = "REMOVE"]
        /\ \A k \in PathIds : k # p => l[k] = c.pool[k]
    BY <1>2 DEF Good, CtxRec
  <2>3. \A d : d \in kept => new(d) = "CREATE"
    OBVIOUS
  <2>4. \A d : new(d) \in {"CREATE", "REMOVE"}
    OBVIOUS
  <2>5. \A d \in QerIds : d \notin kept => \A k \in Stays(e) : d \notin e.pool[k].qers
    BY Zenon
  <2> HIDE DEF b, going, kept, new
  <2>6. /\ e.pool = l /\ e.qer = c.qer /\ e.ambr = c.ambr
        /\ e.doomed = c.doomed \cup {p}
    BY <1>2 DEF Good, CtxRec
  <2>7. e.qer \in [QerIds -> QerRec]
    BY <2>6 DEF Good, CtxRec
  <2>8. /\ b.pool = e.pool /\ b.qer = m /\ b.ambr = e.ambr /\ b.doomed = e.doomed
    <3>1. \A f : [e EXCEPT !.qer = f].pool = e.pool
                 /\ [e EXCEPT !.qer = f].ambr = e.ambr
                 /\ [e EXCEPT !.qer = f].doomed = e.doomed
                 /\ [e EXCEPT !.qer = f].qer = f
      BY <1>2 DEF Good, CtxRec
    <3> HIDE DEF e, m
    <3>2. QED
      BY <2>1, <3>1
  <2> HIDE DEF e, l
  <2>9. Stays(b) = Stays(e)
    BY <2>8 DEF Stays, Pool
  <2>10. ASSUME NEW d \in QerIds
         PROVE  /\ b.qer[d] = [c.qer[d] EXCEPT !.state = b.qer[d].state]
                /\ \/ b.qer[d].state \in {c.qer[d].state, "CREATE"}
                   \/ /\ b.qer[d].state = "REMOVE"
                      /\ \A k \in Stays(b) : d \notin b.pool[k].qers
    <3>1. CASE d \notin going
      BY <2>6, <2>7, <2>8, <3>1 DEF QerRec
    <3>2. CASE d \in going
      <4>1. b.qer[d] = [c.qer[d] EXCEPT !.state = new(d)]
        BY <2>6, <2>8, <3>2
      <4>2. b.qer[d].state = new(d)
        BY <2>6, <2>7, <4>1 DEF QerRec
      <4>3. CASE d \in kept
        BY <2>3, <4>1, <4>2, <4>3
      <4>4. CASE d \notin kept
        <5>1. \A k \in Stays(b) : d \notin b.pool[k].qers
          BY <2>5, <2>8, <2>9, <4>4
        <5>2. QED
          BY <2>4, <4>1, <4>2, <5>1
      <4>5. QED
        BY <4>3, <4>4
    <3>3. QED
      BY <3>1, <3>2
  <2>11. /\ b.ambr = c.ambr /\ b.doomed = c.doomed \cup ({p} \ {0})
         /\ \A k \in PathIds : k # p => b.pool[k] = c.pool[k]
         /\ b.pool[p] = [c.pool[p] EXCEPT !.pdr = "REMOVE"]
    BY <1>2, <2>2, <2>6, <2>8
  <2>12. QED
    BY <1>2, <2>10, <2>11, Zenon DEF Marked, b
<1>3. QED
  BY <1>1, <1>2

(* Building a request only moves the states of rules on. *)
LEMMA SentEffect ==
  ASSUME NEW c, Good(c)
  PROVE  /\ Sent(c).doomed = c.doomed /\ Sent(c).ambr = c.ambr
         /\ Pool(Sent(c)) = Pool(c)
         /\ \A p \in PathIds :
               Sent(c).pool[p] = [c.pool[p] EXCEPT !.pdr = Sent(c).pool[p].pdr]
         /\ \A d \in QerIds :
               /\ Sent(c).qer[d] = [c.qer[d] EXCEPT !.state = Sent(c).qer[d].state]
               /\ Sent(c).qer[d].state \in {c.qer[d].state, "CREATE"}
<1> DEFINE created == IF est THEN AskedQers(c, "INITIAL") ELSE Held(c)
           l == [p \in PathIds |->
                   IF p \in Pool(c) THEN [c.pool[p] EXCEPT !.pdr = "CREATE"]
                   ELSE c.pool[p]]
           m == [d \in QerIds |->
                   IF d \in created THEN [c.qer[d] EXCEPT !.state = "CREATE"]
                   ELSE c.qer[d]]
           b == Sent(c)
<1>1. b = [c EXCEPT !.pool = l, !.qer = m]
  BY DEF Sent
<1> HIDE DEF created, b
<1>2. \A p \in PathIds : l[p] = [c.pool[p] EXCEPT !.pdr = l[p].pdr]
                         /\ (l[p].pdr # "none" <=> c.pool[p].pdr # "none")
  BY DEF Good, CtxRec, PathRec, Pool
<1>3. \A d \in QerIds : /\ m[d] = [c.qer[d] EXCEPT !.state = m[d].state]
                        /\ m[d].state \in {c.qer[d].state, "CREATE"}
  BY DEF Good, CtxRec, QerRec
<1> HIDE DEF l, m
<1>4. b.doomed = c.doomed /\ b.ambr = c.ambr /\ b.pool = l /\ b.qer = m
  BY <1>1 DEF Good, CtxRec
<1>5. Pool(b) = Pool(c)
  BY <1>2, <1>4 DEF Pool
<1>6. QED
  BY <1>2, <1>3, <1>4, <1>5 DEF b

(* PostRemoveDataPath ends the marked paths and takes from the pool QERs of
   theirs that are marked. *)
LEMMA PostRemoveEffect ==
  ASSUME NEW c, Good(c)
  PROVE  /\ PostRemoveDataPath(c).doomed = {}
         /\ PostRemoveDataPath(c).ambr = c.ambr
         /\ \A p \in PathIds : PostRemoveDataPath(c).pool[p] =
                                  IF p \in c.doomed THEN NoPath ELSE c.pool[p]
         /\ \A d \in QerIds : \/ PostRemoveDataPath(c).qer[d] = c.qer[d]
                              \/ /\ c.qer[d].state = "REMOVE"
                                 /\ \E p \in c.doomed : d \in c.pool[p].qers
<1> DEFINE gone == {d \in UNION {c.pool[p].qers : p \in c.doomed} :
                       c.qer[d].state = "REMOVE"}
           u == [f \in QFIs |->
                   IF \E d \in gone : c.qer[d].qfi = f THEN 0 ELSE c.qerUpfMap[f]]
           m == [d \in QerIds |->
                   IF d \in gone THEN [c.qer[d] EXCEPT !.pooled = FALSE]
                   ELSE c.qer[d]]
           l == [p \in PathIds |-> IF p \in c.doomed THEN NoPath ELSE c.pool[p]]
           b == PostRemoveDataPath(c)
<1>1. b = [c EXCEPT !.qerUpfMap = u, !.qer = m, !.pool = l, !.doomed = {}]
  BY DEF PostRemoveDataPath
<1>2. \A d \in QerIds : m[d] = c.qer[d] \/ d \in gone
  OBVIOUS
<1>3. \A d \in gone : c.qer[d].state = "REMOVE" /\ \E p \in c.doomed : d \in c.pool[p].qers
  OBVIOUS
<1>4. \A p \in PathIds : l[p] = IF p \in c.doomed THEN NoPath ELSE c.pool[p]
  OBVIOUS
<1> HIDE DEF gone, u, m, l, b
<1>5. b.doomed = {} /\ b.ambr = c.ambr /\ b.pool = l /\ b.qer = m
  BY <1>1 DEF Good, CtxRec
<1>6. QED
  BY <1>2, <1>3, <1>4, <1>5 DEF b

-----------------------------------------------------------------------------
(* Which rule a data path belongs to.                                        *)

\* rule r of map m has a data path of its own that stays
Owns(c, m, r) ==
    m[r] # NoRule => /\ m[r].path \in Stays(c)
                     /\ c.pool[m[r].path].rule = r

Deciding == pc \in {"inDecision", "notInDecision"}

\* PCCRules[r] still counts: ApplyPccRules has not yet moved it on
Pending(r) == pc = "notInDecision" => r \in todo

\* The data paths named by the two rule maps stay and are their rules' own;
\* a rule still to be looked at is not yet in the final map.
Owners ==
    /\ ctx.doomed \subseteq Pool(ctx)
    /\ \A r \in Rules : Pending(r) => Owns(ctx, PCCRules, r)
    /\ Deciding => \A r \in Rules : Owns(ctx, finalPccRules, r)
    /\ pc = "inDecision" =>
          \A r \in Rules : PCCRules[r] # NoRule => finalPccRules[r] = NoRule
    /\ Deciding => \A r \in todo : finalPccRules[r] = NoRule
    /\ pc = "notInDecision" => \A r \in todo : PCCRules[r] # NoRule
    /\ ~Deciding => todo = {}
    /\ \A r \in BadRules : PCCRules[r] = NoRule /\ finalPccRules[r] = NoRule

(* A new path is one more that stays. *)
LEMMA CreatedStays ==
  ASSUME NEW c, NEW b, NEW p \in PathIds \ Pool(c), NEW r \in Rules,
         c.doomed \subseteq Pool(c), Created(c, b, p, r)
  PROVE  /\ Pool(b) = Pool(c) \cup {p} /\ Stays(b) = Stays(c) \cup {p}
         /\ p \notin c.doomed /\ b.doomed \subseteq Pool(b)
         /\ \A k \in Pool(c) : b.pool[k] = c.pool[k]
         /\ \A m, x : Owns(c, m, x) => Owns(b, m, x)
<1>1. Pool(b) = Pool(c) \cup {p}
  BY DEF Created, Pool
<1>2. \A k \in Pool(c) : b.pool[k] = c.pool[k]
  BY DEF Created, Pool
<1>3. p \notin c.doomed /\ b.doomed = c.doomed
  BY DEF Created
<1>4. Stays(b) = Stays(c) \cup {p}
  BY <1>1, <1>3 DEF Stays
<1>5. \A k \in Stays(c) : k \in Stays(b) /\ b.pool[k] = c.pool[k]
  BY <1>2, <1>4 DEF Stays
<1>6. QED
  BY <1>1, <1>2, <1>3, <1>4, <1>5 DEF Owns

\* b has the data paths of c as far as rules and QERs go
SamePaths(c, b) ==
    \A k \in PathIds : /\ b.pool[k].rule = c.pool[k].rule
                       /\ b.pool[k].qers = c.pool[k].qers
                       /\ b.pool[k].default = c.pool[k].default

(* A marked path is one less that stays, and nobody else's. *)
LEMMA MarkedStays ==
  ASSUME NEW c, Good(c), NEW b, NEW p \in Pool(c) \cup {0}, Marked(c, b, p),
         c.doomed \subseteq Pool(c)
  PROVE  /\ Pool(b) = Pool(c) /\ Stays(b) = Stays(c) \ {p}
         /\ b.doomed \subseteq Pool(b)
         /\ SamePaths(c, b)
         /\ \A m, x : Owns(c, m, x) /\ (p # 0 => c.pool[p].rule # x)
                        => Owns(b, m, x)
<1>1. 0 \notin PathIds /\ p \in PathIds \cup {0}
  BY ConstantsOK DEF ConstantsOK, Pool
<1>2. CASE p = 0
  <2>1. b = c
    BY <1>2 DEF Marked
  <2>2. QED
    BY <1>1, <1>2, <2>1 DEF Stays, Pool, SamePaths
<1>3. CASE p # 0
  <2>1. b.pool[p] = [c.pool[p] EXCEPT !.pdr = "REMOVE"] /\ c.pool[p] \in PathRec
    BY <1>1, <1>3 DEF Marked, Good, CtxRec
  <2>2. SamePaths(c, b)
    BY <2>1 DEF SamePaths, Marked, PathRec
  <2>3. Pool(b) = Pool(c)
    <3>1. b.pool[p].pdr # "none" /\ p \in Pool(c)
      BY <1>3, <2>1 DEF PathRec
    <3>2. QED
      BY <3>1 DEF Pool, Marked
  <2>4. b.doomed = c.doomed \cup {p}
    BY <1>3 DEF Marked
  <2>5. Stays(b) = Stays(c) \ {p}
    BY <2>3, <2>4 DEF Stays
  <2>6. \A m, x : Owns(c, m, x) /\ c.pool[p].rule # x => Owns(b, m, x)
    BY <2>2, <2>5 DEF Owns, SamePaths, Stays, Pool
  <2>7. QED
    BY <1>3, <2>2, <2>3, <2>4, <2>5, <2>6
<1>4. QED
  BY <1>2, <1>3

\* p is the data path made for rule r, old the one r had
OldPath(r) == PCCRules[r].path

(* Making the new path of a rule and marking the old one, in this order. *)
LEMMA InstallEffect ==
  ASSUME Inv, NEW r \in Rules, FreshPaths(ctx) # {},
         Cardinality(FreshQers(ctx)) > 1, NEW p, p = Min(FreshPaths(ctx))
  PROVE  /\ p \in PathIds \ Pool(ctx)
         /\ \E e : /\ Good(e) /\ Created(ctx, e, p, r)
                   /\ Marked(e, NewThenOld(p, r), OldPath(r))
<1> DEFINE q == RefQos[r]
           e == CreatePccRuleDataPath(ctx, p, r, AssignQFI(q), TargetQos(q))
<1>1. p \in PathIds \ Pool(ctx)
  BY FreshPathNew
<1>2. q \in Qos \cup {NoQos}
  BY ConstantsOK DEF ConstantsOK
<1>3. AssignQFI(q) \in QFIs /\ TargetQos(q) \in RateOr0
  BY <1>2, QFIType, TargetType DEF Inv, TypeOK
<1>4. OldPath(r) \in PathIds \cup {0}
  BY DEF Inv, TypeOK, RuleRec, OldPath
<1>5. NewThenOld(p, r) = PreRemoveDataPath(e, OldPath(r))
  BY DEF NewThenOld, OldPath
<1> HIDE DEF q
<1>6. Good(e) /\ Created(ctx, e, p, r)
  BY <1>1, <1>3, GoodStep, CreateGood, CreateEffect
<1> HIDE DEF e
<1>7. Marked(e, NewThenOld(p, r), OldPath(r))
  BY <1>4, <1>5, <1>6, PreRemoveEffect
<1>8. QED
  BY <1>1, <1>6, <1>7

\* the context after ChangePccRule
OldThenNew(p, r) ==
    CreatePccRuleDataPath(PreRemoveDataPath(ctx, OldPath(r)), p, r,
                          PCCRules[r].qfi, TargetQos(RefQos[r]))

(* Marking the old path of a rule and making the new one, in this order. *)
LEMMA ChangeEffect ==
  ASSUME Inv, NEW r \in Rules, FreshPaths(ctx) # {},
         Cardinality(FreshQers(ctx)) > 1, NEW p, p = Min(FreshPaths(ctx))
  PROVE  /\ p \in PathIds \ Pool(ctx)
         /\ \E e : /\ Good(e) /\ Marked(ctx, e, OldPath(r))
                   /\ Created(e, OldThenNew(p, r), p, r)
<1> DEFINE e == PreRemoveDataPath(ctx, OldPath(r))
<1>1. p \in PathIds \ Pool(ctx)
  BY FreshPathNew
<1>2. PCCRules[r] \in RuleRec
  BY DEF Inv, TypeOK
<1>3. RefQos[r] \in Qos \cup {NoQos}
  BY ConstantsOK DEF ConstantsOK
<1>4. PCCRules[r].qfi \in QFIs /\ TargetQos(RefQos[r]) \in RateOr0
  BY <1>2, <1>3, TargetType DEF Inv, RuleRec
<1>5. OldPath(r) \in PathIds \cup {0}
  BY <1>2 DEF RuleRec, OldPath
<1>6. Good(e) /\ FreshQers(e) = FreshQers(ctx) /\ Marked(ctx, e, OldPath(r))
  BY <1>5, GoodStep, PreRemoveGood, PreRemoveEffect
<1>7. OldThenNew(p, r) =
         CreatePccRuleDataPath(e, p, r, PCCRules[r].qfi, TargetQos(RefQos[r]))
  BY DEF OldThenNew
<1> HIDE DEF e
<1>8. Created(e, OldThenNew(p, r), p, r)
  BY <1>1, <1>4, <1>6, <1>7, CreateEffect
<1>9. QED
  BY <1>1, <1>6, <1>8

(* The path a rule had is a path of the pool and its own, or there is none. *)
LEMMA OldPathOwn ==
  ASSUME Inv, Owners, NEW r \in Rules, Pending(r)
  PROVE  /\ OldPath(r) \in Pool(ctx) \cup {0}
         /\ OldPath(r) # 0 => /\ OldPath(r) \in Stays(ctx)
                              /\ ctx.pool[OldPath(r)].rule = r
  BY DEF Owners, Owns, OldPath, NoRule, Stays

(* NewThenOld leaves the paths of other rules as they are. *)
LEMMA InstallPaths ==
  ASSUME Inv, Owners, NEW r \in Rules, Pending(r), FreshPaths(ctx) # {},
         Cardinality(FreshQers(ctx)) > 1, NEW p, p = Min(FreshPaths(ctx)),
         NEW b, b = NewThenOld(p, r)
  PROVE  /\ Stays(b) = (Stays(ctx) \cup {p}) \ {OldPath(r)}
         /\ p \in Stays(b) /\ b.pool[p].rule = r
         /\ b.doomed \subseteq Pool(b)
         /\ \A k \in Pool(ctx) : b.pool[k].default = ctx.pool[k].default
         /\ \A m, x : Owns(ctx, m, x) /\ x # r => Owns(b, m, x)
<1>1. PICK e : Good(e) /\ Created(ctx, e, p, r) /\ Marked(e, b, OldPath(r))
  BY InstallEffect
<1>2. p \in PathIds \ Pool(ctx)
  BY InstallEffect
<1>3. OldPath(r) \in Pool(ctx) \cup {0} /\ (OldPath(r) # 0 => ctx.pool[OldPath(r)].rule = r)
  BY OldPathOwn
<1>4. /\ Pool(e) = Pool(ctx) \cup {p} /\ Stays(e) = Stays(ctx) \cup {p}
      /\ e.doomed \subseteq Pool(e)
      /\ \A k \in Pool(ctx) : e.pool[k] = ctx.pool[k]
      /\ \A m, x : Owns(ctx, m, x) => Owns(e, m, x)
  BY <1>1, <1>2, CreatedStays DEF Owners
<1>5. OldPath(r) \in Pool(e) \cup {0} /\ OldPath(r) # p
  BY <1>2, <1>3, <1>4, ConstantsOK DEF ConstantsOK
<1>6. /\ Pool(b) = Pool(e) /\ Stays(b) = Stays(e) \ {OldPath(r)}
      /\ b.doomed \subseteq Pool(b) /\ SamePaths(e, b)
      /\ \A m, x : Owns(e, m, x) /\ (OldPath(r) # 0 => e.pool[OldPath(r)].rule # x)
                     => Owns(b, m, x)
  BY <1>1, <1>4, <1>5, MarkedStays
<1>7. b.pool[p].rule = r
  BY <1>1, <1>2, <1>6 DEF SamePaths, Created
<1>8. OldPath(r) # 0 => e.pool[OldPath(r)].rule = r
  BY <1>3, <1>4
<1>9. \A k \in Pool(ctx) : b.pool[k].default = ctx.pool[k].default
  BY <1>4, <1>6 DEF SamePaths, Pool
<1>10. QED
  BY <1>4, <1>5, <1>6, <1>7, <1>8, <1>9

(* OldThenNew too. *)
LEMMA ChangePaths ==
  ASSUME Inv, Owners, NEW r \in Rules, Pending(r), FreshPaths(ctx) # {},
         Cardinality(FreshQers(ctx)) > 1, NEW p, p = Min(FreshPaths(ctx)),
         NEW b, b = OldThenNew(p, r)
  PROVE  /\ Stays(b) = (Stays(ctx) \cup {p}) \ {OldPath(r)}
         /\ p \in Stays(b) /\ b.pool[p].rule = r
         /\ b.doomed \subseteq Pool(b)
         /\ \A k \in Pool(ctx) : b.pool[k].default = ctx.pool[k].default
         /\ \A m, x : Owns(ctx, m, x) /\ x # r => Owns(b, m, x)
<1>1. PICK e : Good(e) /\ Marked(ctx, e, OldPath(r)) /\ Created(e, b, p, r)
  BY ChangeEffect
<1>2. p \in PathIds \ Pool(ctx)
  BY ChangeEffect
<1>3. OldPath(r) \in Pool(ctx) \cup {0} /\ (OldPath(r) # 0 => ctx.pool[OldPath(r)].rule = r)
  BY OldPathOwn
<1>4. /\ Pool(e) = Pool(ctx) /\ Stays(e) = Stays(ctx) \ {OldPath(r)}
      /\ e.doomed \subseteq Pool(e) /\ SamePaths(ctx, e)
      /\ \A m, x : Owns(ctx, m, x) /\ (OldPath(r) # 0 => ctx.pool[OldPath(r)].rule # x)
                     => Owns(e, m, x)
  BY <1>1, <1>3, GoodStep, MarkedStays DEF Owners
<1>5. p \in PathIds \ Pool(e) /\ OldPath(r) # p
  BY <1>2, <1>3, <1>4, ConstantsOK DEF ConstantsOK
<1>6. /\ Stays(b) = Stays(e) \cup {p} /\ b.doomed \subseteq Pool(b)
      /\ \A k \in Pool(e) : b.pool[k] = e.pool[k]
      /\ \A m, x : Owns(e, m, x) => Owns(b, m, x)
  BY <1>1, <1>4, <1>5, CreatedStays
<1>7. b.pool[p].rule = r
  BY <1>1 DEF Created
<1>8. \A k \in Pool(ctx) : b.pool[k].default = ctx.pool[k].default
  BY <1>4, <1>6 DEF SamePaths, Pool
<1>9. QED
  BY <1>3, <1>4, <1>5, <1>6, <1>7, <1>8

(* The requests of the PCF leave the SMF and the UPF alone. *)
LEMMA PcfFrame ==
  ASSUME PcfNext
  PROVE  UNCHANGED <<pc, dec, todo, ruleVars, ctx, est, upf>>
<1>1. \A r : Remove(r) => UNCHANGED <<pc, dec, todo, ruleVars, ctx, est, upf>>
  BY DEF Remove
<1>2. QED
  BY <1>1 DEF PcfNext, postAppSessCtx, SendSMPolicyUpdateNotification,
     HandleModAppSessionContext, HandleDeleteAppSessionContext, NewInfluenceData,
     RemoveInfluenceData, UpdateQosData

(* What InstallPccRule does to the maps of rules. *)
LEMMA InstallMaps ==
  ASSUME Inv, NEW r \in Rules, InstallPccRule(r), NEW p, p = Min(FreshPaths(ctx))
  PROVE  /\ ctx' = NewThenOld(p, r)
         /\ PCCRules'[r] = NoRule /\ finalPccRules'[r].path = p
         /\ \A x \in Rules : x # r => /\ PCCRules'[x] = PCCRules[x]
                                      /\ finalPccRules'[x] = finalPccRules[x]
  BY DEF InstallPccRule, Inv, TypeOK

(* What ChangePccRule does to them. *)
LEMMA ChangeMaps ==
  ASSUME Inv, NEW r \in Rules, ChangePccRule(r), NEW p, p = Min(FreshPaths(ctx))
  PROVE  /\ ctx' = OldThenNew(p, r)
         /\ PCCRules' = PCCRules /\ finalPccRules'[r].path = p
         /\ \A x \in Rules : x # r => finalPccRules'[x] = finalPccRules[x]
<1>1. finalPccRules' = [finalPccRules EXCEPT ![r] = [PCCRules[r] EXCEPT !.path = p]]
  BY DEF ChangePccRule, Keep
<1>2. PCCRules[r] \in RuleRec /\ finalPccRules \in [Rules -> RuleRec]
  BY DEF Inv, TypeOK
<1>3. finalPccRules'[r].path = p
  BY <1>1, <1>2 DEF RuleRec
<1>4. QED
  BY <1>1, <1>2, <1>3 DEF ChangePccRule, Keep, OldThenNew, OldPath

(* Data paths keep their rules through every step. *)
LEMMA OwnersStep ==
  ASSUME Inv, Owners, SmfNext
  PROVE  Owners'
<1> USE DEF Deciding, Pending
<1>1. todo \subseteq Rules /\ Good(ctx)
  BY GoodStep DEF Inv, TypeOK
<1>2. ASSUME NEW n \in net, HandleSMPolicyUpdateNotify(n) PROVE Owners'
  <2>1. /\ ctx'.pool = ctx.pool /\ ctx'.doomed = ctx.doomed
        /\ PCCRules' = PCCRules /\ finalPccRules' = [r \in Rules |-> NoRule]
        /\ pc = "idle" /\ pc' = "inDecision"
    BY <1>1, <1>2 DEF HandleSMPolicyUpdateNotify, Good, CtxRec
  <2>2. Pool(ctx') = Pool(ctx) /\ Stays(ctx') = Stays(ctx)
    BY <2>1 DEF Pool, Stays
  <2>3. n \in DecRec
    BY DEF Inv, TypeOK
  <2>4. todo' \subseteq Rules
    BY <1>2, <2>3 DEF HandleSMPolicyUpdateNotify, DecRec
  <2>5. BadRules \subseteq Rules
    BY ConstantsOK DEF ConstantsOK, Rules
  <2>6. QED
    BY <2>1, <2>2, <2>4, <2>5 DEF Owners, Owns
<1>3. ASSUME NEW r \in todo, RemovePccRule(r) PROVE Owners'
  <2>1. r \in Rules /\ Pending(r)
    BY <1>1, <1>3 DEF RemovePccRule
  <2>2. OldPath(r) \in Pool(ctx) \cup {0}
        /\ (OldPath(r) # 0 => ctx.pool[OldPath(r)].rule = r)
    BY <2>1, OldPathOwn
  <2>3. Marked(ctx, ctx', OldPath(r))
    <3>1. OldPath(r) \in PathIds \cup {0}
      BY <2>2 DEF Pool
    <3>2. ctx' = PreRemoveDataPath(ctx, OldPath(r))
      BY <1>3 DEF RemovePccRule, OldPath
    <3>3. Marked(ctx, PreRemoveDataPath(ctx, OldPath(r)), OldPath(r))
      BY <1>1, <3>1, PreRemoveEffect
    <3>4. QED
      BY <3>2, <3>3
  <2>4. /\ ctx'.doomed \subseteq Pool(ctx')
        /\ \A m, x : Owns(ctx, m, x) /\ x # r => Owns(ctx', m, x)
    <3>1. PICK b : b = ctx'
      OBVIOUS
    <3>2. /\ b.doomed \subseteq Pool(b)
          /\ \A m, x : Owns(ctx, m, x) /\ (OldPath(r) # 0 => ctx.pool[OldPath(r)].rule # x)
                     => Owns(b, m, x)
      BY <1>1, <2>2, <2>3, <3>1, MarkedStays DEF Owners
    <3>3. QED
      BY <2>2, <3>1, <3>2
  <2>5. /\ PCCRules' = [PCCRules EXCEPT ![r] = NoRule] /\ todo' = todo \ {r}
        /\ finalPccRules' = finalPccRules /\ pc' = "inDecision" /\ pc = "inDecision"
    BY <1>3 DEF RemovePccRule
  <2>6. /\ PCCRules'[r] = NoRule
        /\ \A x \in Rules : x # r => PCCRules'[x] = PCCRules[x]
    BY <2>1, <2>5 DEF Inv, TypeOK
  <2>7. BadRules \subseteq Rules
    BY ConstantsOK DEF ConstantsOK, Rules
  <2>8. \A x \in Rules : Owns(ctx, PCCRules, x) /\ Owns(ctx, finalPccRules, x)
    BY <2>5 DEF Owners
  <2>9. \A x \in Rules : Owns(ctx', PCCRules', x)
    <3> SUFFICES ASSUME NEW x \in Rules, x # r PROVE Owns(ctx', PCCRules', x)
      BY <2>6 DEF Owns
    <3>1. Owns(ctx', PCCRules, x)
      BY <2>4, <2>8
    <3>2. QED
      BY <2>6, <3>1 DEF Owns
  <2>10. finalPccRules[r] = NoRule
    BY <2>5 DEF Owners
  <2>11. \A x \in Rules : Owns(ctx', finalPccRules', x)
    <3> SUFFICES ASSUME NEW x \in Rules, x # r PROVE Owns(ctx', finalPccRules, x)
      BY <2>5, <2>10 DEF Owns
    <3>1. QED
      BY <2>4, <2>8
  <2>12. QED
    BY <2>1, <2>4, <2>5, <2>6, <2>7, <2>9, <2>11 DEF Owners
<1>4. ASSUME NEW r \in todo, InstallPccRule(r) PROVE Owners'
  <2>1. PICK p : p = Min(FreshPaths(ctx))
    OBVIOUS
  <2>2. r \in Rules /\ Pending(r) /\ pc = "inDecision" /\ pc' = "inDecision"
        /\ todo' = todo \ {r} /\ r \notin BadRules /\ FreshPaths(ctx) # {}
        /\ Cardinality(FreshQers(ctx)) > 1
    BY <1>1, <1>4 DEF InstallPccRule
  <2>3. /\ ctx' = NewThenOld(p, r)
        /\ PCCRules'[r] = NoRule /\ finalPccRules'[r].path = p
        /\ \A x \in Rules : x # r => /\ PCCRules'[x] = PCCRules[x]
                                     /\ finalPccRules'[x] = finalPccRules[x]
    BY <1>4, <2>1, <2>2, InstallMaps
  <2>4. PICK b : b = ctx'
    OBVIOUS
  <2>5. /\ p \in Stays(b) /\ b.pool[p].rule = r /\ b.doomed \subseteq Pool(b)
        /\ \A m, x : Owns(ctx, m, x) /\ x # r => Owns(b, m, x)
    BY <2>1, <2>2, <2>3, <2>4, InstallPaths
  <2>6. \A x \in Rules : Owns(ctx, PCCRules, x) /\ Owns(ctx, finalPccRules, x)
    BY <2>2 DEF Owners
  <2>7. BadRules \subseteq Rules
    BY ConstantsOK DEF ConstantsOK, Rules
  <2>8. \A x \in Rules : Owns(b, PCCRules', x)
    <3> SUFFICES ASSUME NEW x \in Rules, x # r PROVE Owns(b, PCCRules', x)
      BY <2>3 DEF Owns
    <3>1. Owns(b, PCCRules, x)
      BY <2>5, <2>6
    <3>2. QED
      BY <2>3, <3>1 DEF Owns
  <2>9. \A x \in Rules : Owns(b, finalPccRules', x)
    <3> SUFFICES ASSUME NEW x \in Rules, x # r PROVE Owns(b, finalPccRules', x)
      BY <2>3, <2>5 DEF Owns
    <3>1. Owns(b, finalPccRules, x)
      BY <2>5, <2>6
    <3>2. QED
      BY <2>3, <3>1 DEF Owns
  <2>10. \A x \in Rules : PCCRules'[x] # NoRule => finalPccRules'[x] = NoRule
    BY <2>2, <2>3 DEF Owners
  <2>11. \A x \in todo' : finalPccRules'[x] = NoRule
    BY <1>1, <2>2, <2>3 DEF Owners
  <2>12. \A x \in BadRules : PCCRules'[x] = NoRule /\ finalPccRules'[x] = NoRule
    BY <2>2, <2>3, <2>7 DEF Owners
  <2>13. QED
    BY <2>2, <2>4, <2>5, <2>8, <2>9, <2>10, <2>11, <2>12 DEF Owners
<1>5. ASSUME NEW r \in todo, InstallPccRuleFails(r) PROVE Owners'
  <2>1. PICK p : p = Min(FreshPaths(ctx))
    OBVIOUS
  <2>2. r \in Rules /\ Pending(r) /\ pc = "inDecision" /\ pc' = "idle"
        /\ todo' = {} /\ r \in BadRules /\ FreshPaths(ctx) # {}
        /\ Cardinality(FreshQers(ctx)) > 1 /\ ctx' = NewThenOld(p, r)
        /\ PCCRules' = PCCRules /\ finalPccRules' = finalPccRules
    BY <1>1, <1>5, <2>1 DEF InstallPccRuleFails
  <2>3. PICK b : b = ctx'
    OBVIOUS
  <2>4. /\ b.doomed \subseteq Pool(b)
        /\ \A m, x : Owns(ctx, m, x) /\ x # r => Owns(b, m, x)
    BY <2>1, <2>2, <2>3, InstallPaths
  <2>5. \A x \in Rules : Owns(b, PCCRules, x)
    <3> SUFFICES ASSUME NEW x \in Rules, x # r PROVE Owns(b, PCCRules, x)
      BY <2>2 DEF Owns, Owners
    <3>1. QED
      BY <2>2, <2>4 DEF Owners
  <2>6. QED
    BY <2>2, <2>3, <2>4, <2>5 DEF Owners
<1>6. ASSUME NEW r \in todo, KeepPccRule(r) PROVE Owners'
  <2>1. /\ r \in Rules /\ pc = "notInDecision" /\ pc' = pc /\ todo' = todo \ {r}
        /\ PCCRules' = PCCRules /\ ctx' = ctx
        /\ finalPccRules' = [finalPccRules EXCEPT ![r] = PCCRules[r]]
    BY <1>1, <1>6 DEF KeepPccRule, Keep
  <2>2. /\ finalPccRules'[r] = PCCRules[r]
        /\ \A x \in Rules : x # r => finalPccRules'[x] = finalPccRules[x]
    BY <2>1 DEF Inv, TypeOK
  <2>3. \A x \in Rules : Owns(ctx, finalPccRules', x)
    BY <2>1, <2>2 DEF Owners, Owns
  <2>4. BadRules \subseteq Rules
    BY ConstantsOK DEF ConstantsOK, Rules
  <2>5. QED
    BY <1>1, <2>1, <2>2, <2>3, <2>4 DEF Owners
<1>7. ASSUME NEW r \in todo, ChangePccRule(r) PROVE Owners'
  <2>1. PICK p : p = Min(FreshPaths(ctx))
    OBVIOUS
  <2>2. r \in Rules /\ Pending(r) /\ pc = "notInDecision" /\ pc' = "notInDecision"
        /\ todo' = todo \ {r} /\ FreshPaths(ctx) # {}
        /\ Cardinality(FreshQers(ctx)) > 1
    BY <1>1, <1>7 DEF ChangePccRule, Keep
  <2>3. /\ ctx' = OldThenNew(p, r) /\ PCCRules' = PCCRules
        /\ finalPccRules'[r].path = p
        /\ \A x \in Rules : x # r => finalPccRules'[x] = finalPccRules[x]
    BY <1>7, <2>1, <2>2, ChangeMaps
  <2>4. PICK b : b = ctx'
    OBVIOUS
  <2>5. /\ p \in Stays(b) /\ b.pool[p].rule = r /\ b.doomed \subseteq Pool(b)
        /\ \A m, x : Owns(ctx, m, x) /\ x # r => Owns(b, m, x)
    BY <2>1, <2>2, <2>3, <2>4, ChangePaths
  <2>6. \A x \in todo' : Owns(b, PCCRules, x)
    BY <1>1, <2>2, <2>5 DEF Owners
  <2>7. \A x \in Rules : Owns(b, finalPccRules', x)
    <3> SUFFICES ASSUME NEW x \in Rules, x # r PROVE Owns(b, finalPccRules', x)
      BY <2>3, <2>5 DEF Owns
    <3>1. Owns(b, finalPccRules, x)
      BY <2>2, <2>5 DEF Owners
    <3>2. QED
      BY <2>3, <3>1 DEF Owns
  <2>8. BadRules \subseteq Rules /\ r \notin BadRules
    BY <2>2, ConstantsOK DEF Owners, ConstantsOK, Rules
  <2>9. \A x \in todo' : PCCRules'[x] # NoRule /\ finalPccRules'[x] = NoRule
    BY <1>1, <2>2, <2>3 DEF Owners
  <2>10. \A x \in BadRules : PCCRules'[x] = NoRule /\ finalPccRules'[x] = NoRule
    BY <2>3, <2>8 DEF Owners
  <2>11. QED
    BY <2>2, <2>3, <2>4, <2>5, <2>6, <2>7, <2>9, <2>10 DEF Owners
<1>8. ASSUME EndInDecision PROVE Owners'
  BY <1>8 DEF EndInDecision, Owners, Owns, ruleVars
<1>9. ASSUME EndApplyPccRules PROVE Owners'
  <2>1. /\ pc = "notInDecision" /\ pc' = "activate" /\ todo = {} /\ todo' = {}
        /\ PCCRules' = finalPccRules /\ finalPccRules' = finalPccRules
    BY <1>9 DEF EndApplyPccRules
  <2>2. /\ ctx'.doomed \subseteq Pool(ctx')
        /\ \A m, x : Owns(ctx, m, x) => Owns(ctx', m, x)
    <3>1. CASE est \/ GetDefaultPath(ctx) # {}
      BY <1>9, <3>1 DEF EndApplyPccRules, SelectDefaultDataPath, Owners
    <3>2. CASE ~est /\ GetDefaultPath(ctx) = {}
      <4>1. PICK p : p = Min(FreshPaths(ctx))
        OBVIOUS
      <4>2. FreshPaths(ctx) # {} /\ Cardinality(FreshQers(ctx)) > 1
            /\ ctx' = ActivateTunnelAndPDR(ctx, p, 0, TRUE, FALSE)
        BY <1>9, <3>2, <4>1 DEF EndApplyPccRules, SelectDefaultDataPath
      <4>3. p \in PathIds \ Pool(ctx) /\ FreshQers(ctx) # {}
        BY <4>1, <4>2, FreshPathNew, FreshTwo
      <4>4. Activated(ctx, ctx', p, 0, TRUE, FALSE)
        BY <1>1, <4>2, <4>3, ActivateEffect
      <4>5. \A k \in Pool(ctx) : ctx'.pool[k] = ctx.pool[k] /\ k \in Pool(ctx')
        BY <4>3, <4>4 DEF Activated, Pool
      <4>6. ctx'.doomed = ctx.doomed
        BY <4>4 DEF Activated
      <4>7. \A k \in Stays(ctx) : ctx'.pool[k] = ctx.pool[k] /\ k \in Stays(ctx')
        BY <4>5, <4>6 DEF Stays
      <4>8. QED
        BY <4>5, <4>6, <4>7 DEF Owners, Owns
    <3>3. QED
      BY <3>1, <3>2
  <2>3. QED
    BY <2>1, <2>2 DEF Owners
<1>10. ASSUME pc = "activate", pc' = "postRemove", ctx' = Sent(ctx),
              UNCHANGED <<todo, ruleVars>>
       PROVE  Owners'
  <2>1. PICK b : b = ctx'
    OBVIOUS
  <2>2. /\ b.doomed = ctx.doomed /\ Pool(b) = Pool(ctx)
        /\ \A p \in PathIds : b.pool[p] = [ctx.pool[p] EXCEPT !.pdr = b.pool[p].pdr]
    BY <1>1, <1>10, <2>1, SentEffect
  <2>3. Stays(b) = Stays(ctx) /\ \A p \in PathIds : b.pool[p].rule = ctx.pool[p].rule
    BY <1>1, <2>2 DEF Stays, Good, CtxRec, PathRec
  <2>4. \A x \in Rules : Owns(b, PCCRules, x)
    BY <1>10, <2>3 DEF Owners, Owns, Stays, Pool
  <2>5. QED
    BY <1>10, <2>1, <2>2, <2>4 DEF Owners, ruleVars
<1>11. ASSUME EndNotification PROVE Owners'
  <2>1. PICK b : b = ctx'
    OBVIOUS
  <2>2. b.doomed = {} /\ \A p \in PathIds : b.pool[p] =
                            IF p \in ctx.doomed THEN NoPath ELSE ctx.pool[p]
    BY <1>1, <1>11, <2>1, PostRemoveEffect DEF EndNotification
  <2>3. Stays(b) = Stays(ctx) /\ \A p \in Stays(ctx) : b.pool[p] = ctx.pool[p]
    BY <2>2 DEF Stays, Pool, NoPath
  <2>4. \A x \in Rules : Owns(b, PCCRules, x)
    BY <1>11, <2>3 DEF Owners, Owns, EndNotification
  <2>5. QED
    BY <1>11, <2>1, <2>2, <2>4 DEF Owners, EndNotification, ruleVars
<1>12. QED
  BY <1>2, <1>3, <1>4, <1>5, <1>6, <1>7, <1>8, <1>9, <1>10, <1>11
  DEF SmfNext, ActivateUPFSession, ModificationFails

(* Owners holds when the session is created. *)
LEMMA OwnersInit == Init => Owners
<1>1. BadRules \subseteq Rules
  BY ConstantsOK DEF ConstantsOK, Rules
<1>2. QED
  BY <1>1, ConstantsOK DEF Init, Owners, Owns, Deciding, Pending, Rules

(* Owners holds in every reachable state. *)
LEMMA OwnersAlways == Spec => []Owners
<1>1. Inv /\ Owners /\ [Next]_vars => Owners'
  <2>1. ASSUME Owners, UNCHANGED <<pc, dec, todo, ruleVars, ctx, est, upf>>
        PROVE  Owners'
    BY <2>1 DEF Owners, Owns, Deciding, Pending, ruleVars
  <2>2. QED
    BY <2>1, PcfFrame, OwnersStep DEF Next, Rest, vars
<1>2. QED
  BY <1>1, OwnersInit, InvAlways, PTL DEF Spec

-----------------------------------------------------------------------------
(* The session AMBR QER.                                                     *)

\* createSMPolicyProcedure gives the default rule no QoS datum.
DefaultRuleHasNoQos == DefRule \in InitRules => RefQos[DefRule] = NoQos

\* what a path is for that the PCF never withdraws: the default path of the
\* session, or the rule of precedence 255
Permanent == {0} \cup ({DefRule} \cap InitRules)

\* the paths of that kind that stay and hold the AMBR QER
Anchors(c) == {p \in Stays(c) : /\ c.pool[p].rule \in Permanent
                                /\ c.ambr \in c.pool[p].qers}

AmbrFine(c) ==
    c.ambr # 0 => /\ c.qer[c.ambr].pooled
                  /\ c.qer[c.ambr].rate = AmbrRate
                  /\ c.qer[c.ambr].state \in {"INITIAL", "CREATE"}

\* not yet sent
AmbrNew(c) == c.ambr # 0 => c.qer[c.ambr].state = "INITIAL"

\* No notification withdraws a rule of the first decision.
Deletions ==
    /\ dec.del \cap InitRules = {}
    /\ \A n \in net : n.del \cap InitRules = {}

\* Up to the establishment the SMF applies the first decision.
First ==
    ~est => /\ pc \in {"inDecision", "notInDecision", "activate"}
            /\ dec.del = {} /\ dec.inst \subseteq InitRules
            /\ Deciding => \A r \in Rules : PCCRules[r] = NoRule
            /\ AmbrNew(ctx)
            /\ \A p \in Pool(ctx) : ctx.pool[p].default => p \in Anchors(ctx)

\* From the first request on a path that stays holds the AMBR QER, and the
\* UPF has it.
AmbrHeld ==
    /\ AmbrFine(ctx)
    /\ est \/ pc = "activate" => Anchors(ctx) # {}
    /\ est => upf.qer[ctx.ambr] = AmbrRate

AmbrInv == Deletions /\ First /\ AmbrHeld

(* A path that holds the AMBR QER shows that there is one. *)
LEMMA AnchorAmbr ==
  ASSUME NEW c, Good(c), Anchors(c) # {}
  PROVE  c.ambr \in QerIds /\ c.ambr # 0
<1>1. PICK p \in PathIds : c.ambr \in c.pool[p].qers
  BY DEF Anchors, Stays, Pool
<1>2. c.pool[p].qers \subseteq QerIds
  BY DEF Good, CtxRec, PathRec
<1>3. QED
  BY <1>1, <1>2, ConstantsOK DEF ConstantsOK

(* A new path leaves the AMBR QER alone or brings it. *)
LEMMA CreatedAmbr ==
  ASSUME NEW c, Good(c), AmbrFine(c), c.doomed \subseteq Pool(c), NEW b,
         NEW p \in PathIds \ Pool(c), NEW r \in Rules, Created(c, b, p, r)
  PROVE  /\ AmbrFine(b)
         /\ Anchors(c) \subseteq Anchors(b)
         /\ AmbrNew(c) => AmbrNew(b)
         /\ RefQos[r] = NoQos /\ r \in Permanent => p \in Anchors(b)
<1>1. /\ Stays(b) = Stays(c) \cup {p}
      /\ \A k \in Pool(c) : b.pool[k] = c.pool[k]
  BY CreatedStays
<1>2. c.ambr # 0 => b.ambr = c.ambr /\ b.qer[b.ambr] = c.qer[c.ambr]
  BY DEF Created, AmbrFine, Good, CtxRec
<1>3. c.ambr = 0 => /\ b.qer[b.ambr].pooled /\ b.qer[b.ambr].rate = AmbrRate
                    /\ b.qer[b.ambr].state = "INITIAL"
  BY DEF Created, NewQer
<1>4. AmbrFine(b) /\ (AmbrNew(c) => AmbrNew(b)) /\ b.qer[b.ambr].pooled
  BY <1>2, <1>3 DEF AmbrFine, AmbrNew
<1>5. ASSUME NEW k \in Anchors(c) PROVE k \in Anchors(b)
  <2>1. b.ambr = c.ambr
    BY <1>2, <1>5, AnchorAmbr
  <2>2. QED
    BY <1>1, <1>5, <2>1 DEF Anchors, Stays
<1>6. RefQos[r] = NoQos /\ r \in Permanent => p \in Anchors(b)
  BY <1>1, <1>4 DEF Created, Anchors
<1>7. QED
  BY <1>4, <1>5, <1>6

(* Marking a path leaves it alone as long as another holds it. *)
LEMMA MarkedAmbr ==
  ASSUME NEW c, Good(c), AmbrFine(c), c.doomed \subseteq Pool(c), NEW b,
         NEW p \in Pool(c) \cup {0}, Marked(c, b, p), p # 0 => Anchors(c) \ {p} # {}
  PROVE  /\ AmbrFine(b)
         /\ Anchors(b) = Anchors(c) \ {p}
<1>1. Stays(b) = Stays(c) \ {p} /\ SamePaths(c, b)
  BY MarkedStays
<1>2. b.ambr = c.ambr
  BY DEF Marked
<1>3. Anchors(b) = Anchors(c) \ {p}
  BY <1>1, <1>2 DEF Anchors, SamePaths, Stays, Pool
<1>4. CASE p = 0
  BY <1>3, <1>4 DEF Marked
<1>5. CASE p # 0
  <2>1. PICK k \in Anchors(b) : TRUE
    BY <1>3, <1>5
  <2>2. c.ambr \in QerIds /\ c.ambr # 0
    BY <1>5, AnchorAmbr
  <2>3. k \in Stays(b) /\ c.ambr \in b.pool[k].qers
    BY <1>2 DEF Anchors
  <2>4. b.qer[c.ambr].state \in {c.qer[c.ambr].state, "CREATE"}
    BY <2>2, <2>3 DEF Marked
  <2>5. b.qer[c.ambr] = [c.qer[c.ambr] EXCEPT !.state = b.qer[c.ambr].state]
    BY <2>2 DEF Marked
  <2>6. c.qer[c.ambr] \in QerRec
    BY <2>2 DEF Good, CtxRec
  <2>7. b.qer[c.ambr].pooled /\ b.qer[c.ambr].rate = AmbrRate
    BY <2>2, <2>5, <2>6 DEF AmbrFine, QerRec
  <2>8. QED
    BY <1>2, <1>3, <2>2, <2>4, <2>7 DEF AmbrFine
<1>6. QED
  BY <1>4, <1>5

(* A rule whose path holds the AMBR QER for good is the default rule. *)
LEMMA PermanentRule ==
  ASSUME NEW r \in Rules, r \in Permanent
  PROVE  r = DefRule /\ r \in InitRules
  BY ConstantsOK DEF Permanent, ConstantsOK

(* Reinstalling a rule keeps the AMBR QER: if the old path held it for good,
   so does the new one. *)
LEMMA InstallAmbr ==
  ASSUME DefaultRuleHasNoQos, Inv, Owners, AmbrInv, NEW r \in Rules,
         pc = "inDecision", FreshPaths(ctx) # {},
         Cardinality(FreshQers(ctx)) > 1, NEW p, p = Min(FreshPaths(ctx)),
         NEW b, b = NewThenOld(p, r)
  PROVE  /\ AmbrFine(b)
         /\ est => Anchors(b) # {}
         /\ ~est => /\ AmbrNew(b)
                    /\ r \in InitRules => \A k \in Pool(b) :
                          b.pool[k].default => k \in Anchors(b)
<1>1. PICK e : Good(e) /\ Created(ctx, e, p, r) /\ Marked(e, b, OldPath(r))
  BY InstallEffect
<1>2. p \in PathIds \ Pool(ctx) /\ Good(ctx)
  BY InstallEffect, GoodStep
<1>3. /\ OldPath(r) \in Pool(ctx) \cup {0}
      /\ OldPath(r) # 0 => ctx.pool[OldPath(r)].rule = r
  BY OldPathOwn DEF Pending
<1>4. /\ Pool(e) = Pool(ctx) \cup {p} /\ e.doomed \subseteq Pool(e)
      /\ \A k \in Pool(ctx) : e.pool[k] = ctx.pool[k]
  BY <1>1, <1>2, CreatedStays DEF Owners
<1>5. /\ AmbrFine(e) /\ Anchors(ctx) \subseteq Anchors(e)
      /\ AmbrNew(ctx) => AmbrNew(e)
      /\ RefQos[r] = NoQos /\ r \in Permanent => p \in Anchors(e)
  BY <1>1, <1>2, CreatedAmbr DEF AmbrInv, AmbrHeld, Owners
<1>6. OldPath(r) \in Pool(e) \cup {0} /\ OldPath(r) # p
  BY <1>2, <1>3, <1>4, ConstantsOK DEF ConstantsOK
<1>7. CASE est
  <2>1. PICK a \in Anchors(ctx) : TRUE
    BY <1>7 DEF AmbrInv, AmbrHeld
  <2>2. Anchors(e) \ {OldPath(r)} # {}
    <3>1. CASE a # OldPath(r)
      BY <1>5, <2>1, <3>1
    <3>2. CASE a = OldPath(r)
      <4>1. r \in Permanent
        BY <1>3, <2>1, <3>2, ConstantsOK DEF Anchors, ConstantsOK, Stays, Pool
      <4>2. RefQos[r] = NoQos
        BY <4>1, PermanentRule DEF DefaultRuleHasNoQos
      <4>3. QED
        BY <1>5, <1>6, <4>1, <4>2
    <3>3. QED
      BY <3>1, <3>2
  <2>3. AmbrFine(b) /\ Anchors(b) = Anchors(e) \ {OldPath(r)}
    BY <1>1, <1>4, <1>5, <1>6, <2>2, MarkedAmbr
  <2>4. QED
    BY <1>7, <2>2, <2>3
<1>8. CASE ~est
  <2>1. OldPath(r) = 0
    BY <1>8 DEF AmbrInv, First, Deciding, OldPath, NoRule
  <2>2. b = e
    BY <1>1, <2>1 DEF Marked
  <2>3. ASSUME r \in InitRules, NEW k \in Pool(b), b.pool[k].default
        PROVE  k \in Anchors(b)
    <3>1. CASE k = p
      <4>1. r = DefRule
        BY <1>1, <2>2, <2>3, <3>1 DEF Created
      <4>2. QED
        BY <1>5, <2>2, <2>3, <3>1, <4>1 DEF DefaultRuleHasNoQos, Permanent
    <3>2. CASE k # p
      <4>1. k \in Pool(ctx) /\ ctx.pool[k].default
        BY <1>4, <2>2, <2>3, <3>2
      <4>2. k \in Anchors(ctx)
        BY <1>8, <4>1 DEF AmbrInv, First
      <4>3. QED
        BY <1>5, <2>2, <4>2
    <3>3. QED
      BY <3>1, <3>2
  <2>4. AmbrNew(b)
    BY <1>5, <1>8, <2>2 DEF AmbrInv, First
  <2>5. QED
    BY <1>5, <1>8, <2>2, <2>3, <2>4
<1>9. QED
  BY <1>7, <1>8

(* A rule that changes for its QoS datum is not the default rule. *)
LEMMA ChangeAmbr ==
  ASSUME DefaultRuleHasNoQos, Inv, Owners, AmbrInv, est, NEW r \in Rules,
         Pending(r), ~SameQos(r), FreshPaths(ctx) # {},
         Cardinality(FreshQers(ctx)) > 1, NEW p, p = Min(FreshPaths(ctx)),
         NEW b, b = OldThenNew(p, r)
  PROVE  AmbrFine(b) /\ Anchors(b) # {}
<1>1. PICK e : Good(e) /\ Marked(ctx, e, OldPath(r)) /\ Created(e, b, p, r)
  BY ChangeEffect
<1>2. p \in PathIds \ Pool(ctx) /\ Good(ctx)
  BY ChangeEffect, GoodStep
<1>3. /\ OldPath(r) \in Pool(ctx) \cup {0}
      /\ OldPath(r) # 0 => ctx.pool[OldPath(r)].rule = r
  BY OldPathOwn
<1>4. r \notin Permanent
  <2>1. RefQos[r] # NoQos
    BY DEF SameQos, TargetQos, SourceQos
  <2>2. QED
    BY <2>1, PermanentRule DEF DefaultRuleHasNoQos
<1>5. OldPath(r) # 0 => OldPath(r) \notin Anchors(ctx)
  BY <1>3, <1>4 DEF Anchors
<1>6. Anchors(ctx) # {} /\ AmbrFine(ctx) /\ ctx.doomed \subseteq Pool(ctx)
  BY DEF AmbrInv, AmbrHeld, Owners
<1>7. Pool(e) = Pool(ctx) /\ e.doomed \subseteq Pool(e)
  BY <1>1, <1>2, <1>3, <1>6, MarkedStays
<1>8. AmbrFine(e) /\ Anchors(e) = Anchors(ctx) \ {OldPath(r)}
  BY <1>1, <1>2, <1>3, <1>5, <1>6, MarkedAmbr
<1>9. AmbrFine(b) /\ Anchors(e) \subseteq Anchors(b)
  BY <1>1, <1>2, <1>7, <1>8, CreatedAmbr
<1>10. 0 \notin Anchors(ctx)
  BY ConstantsOK DEF Anchors, ConstantsOK, Stays, Pool
<1>11. QED
  BY <1>5, <1>6, <1>8, <1>9, <1>10

(* Removing a rule that is no rule of the first decision. *)
LEMMA RemoveAmbr ==
  ASSUME Inv, Owners, AmbrInv, NEW r \in Rules, r \notin InitRules, Pending(r),
         est, NEW b, b = PreRemoveDataPath(ctx, OldPath(r))
  PROVE  AmbrFine(b) /\ Anchors(b) # {}
<1>1. /\ OldPath(r) \in Pool(ctx) \cup {0}
      /\ OldPath(r) # 0 => ctx.pool[OldPath(r)].rule = r
  BY OldPathOwn
<1>2. Marked(ctx, b, OldPath(r))
  BY <1>1, GoodStep, PreRemoveEffect DEF Pool
<1>3. r \notin Permanent /\ 0 \notin Anchors(ctx)
  BY PermanentRule, ConstantsOK DEF Anchors, ConstantsOK, Stays, Pool
<1>4. OldPath(r) \notin Anchors(ctx)
  BY <1>1, <1>3 DEF Anchors
<1>5. Anchors(ctx) # {} /\ AmbrFine(ctx) /\ ctx.doomed \subseteq Pool(ctx)
  BY DEF AmbrInv, AmbrHeld, Owners
<1>6. AmbrFine(b) /\ Anchors(b) = Anchors(ctx) \ {OldPath(r)}
  BY <1>1, <1>2, <1>4, <1>5, GoodStep, MarkedAmbr
<1>7. QED
  BY <1>4, <1>5, <1>6

(* The first decision names neither a rule without PFD nor a rule to remove. *)
LEMMA FirstRules ==
  ASSUME Inv, Owners, AmbrInv, ~est, Deciding, NEW r \in todo
  PROVE  r \notin dec.del /\ r \notin dec.inst \cap BadRules /\ pc = "inDecision"
<1>1. r \in Rules
  BY DEF Inv, TypeOK
<1>2. dec.del = {} /\ dec.inst \subseteq InitRules /\ PCCRules[r] = NoRule
  BY <1>1 DEF AmbrInv, First
<1>3. pc # "notInDecision"
  BY <1>2 DEF Owners
<1>4. QED
  BY <1>2, <1>3, ConstantsOK DEF ConstantsOK, Deciding

(* What the UPF makes of a request that names the AMBR QER. *)
LEMMA AppliedAmbr ==
  ASSUME Inv, Owners, AmbrInv, pc = "activate"
  PROVE  Applied(ctx).qer[ctx.ambr] = AmbrRate
<1> DEFINE d == ctx.ambr
           newQ  == AskedQers(ctx, "INITIAL")
           goneQ == IF est THEN AskedQers(ctx, "REMOVE") ELSE {}
<1>1. Anchors(ctx) # {} /\ AmbrFine(ctx)
  BY DEF AmbrInv, AmbrHeld
<1>2. d \in QerIds /\ d # 0
  BY <1>1, GoodStep, AnchorAmbr
<1>3. ctx.qer[d].rate = AmbrRate /\ ctx.qer[d].state \in {"INITIAL", "CREATE"}
  BY <1>1, <1>2 DEF AmbrFine
<1>4. d \notin goneQ
  BY <1>3 DEF AskedQers
<1>5. d \in Held(ctx)
  BY <1>1 DEF Anchors, Held, Stays, Pool
<1>6. est \/ d \in newQ
  BY <1>2, <1>5 DEF AmbrInv, First, AmbrNew, AskedQers
<1>7. est => upf.qer[d] = AmbrRate
  BY DEF AmbrInv, AmbrHeld
<1>8. Applied(ctx).qer[d] = CASE d \in goneQ -> 0
                              [] d \in newQ  -> ctx.qer[d].rate
                              [] d \notin goneQ \cup newQ -> upf.qer[d]
  <2> DEFINE m == [e \in QerIds |->
            CASE e \in goneQ -> 0
              [] e \in newQ  -> ctx.qer[e].rate
              [] e \notin goneQ \cup newQ -> upf.qer[e]]
  <2>1. Applied(ctx).qer = m
    BY DEF Applied
  <2> HIDE DEF newQ, goneQ, d
  <2>2. QED
    BY <1>2, <2>1
<1> HIDE DEF newQ, goneQ, d
<1>9. CASE d \in newQ
  BY <1>3, <1>4, <1>8, <1>9 DEF d
<1>10. CASE d \notin newQ
  BY <1>4, <1>6, <1>7, <1>8, <1>10 DEF d
<1>11. QED
  BY <1>9, <1>10 DEF d

(* Building the request moves the AMBR QER on at most to CREATE. *)
LEMMA SentAmbr ==
  ASSUME Inv, Owners, AmbrInv, pc = "activate", NEW b, b = Sent(ctx)
  PROVE  AmbrFine(b) /\ Anchors(b) # {} /\ b.ambr = ctx.ambr
<1>1. Anchors(ctx) # {} /\ AmbrFine(ctx) /\ Good(ctx)
  BY GoodStep DEF AmbrInv, AmbrHeld
<1>2. ctx.ambr \in QerIds /\ ctx.ambr # 0 /\ ctx.qer[ctx.ambr] \in QerRec
  BY <1>1, AnchorAmbr DEF Good, CtxRec
<1>3. /\ b.doomed = ctx.doomed /\ b.ambr = ctx.ambr /\ Pool(b) = Pool(ctx)
      /\ \A p \in PathIds : b.pool[p] = [ctx.pool[p] EXCEPT !.pdr = b.pool[p].pdr]
      /\ \A d \in QerIds : /\ b.qer[d] = [ctx.qer[d] EXCEPT !.state = b.qer[d].state]
                           /\ b.qer[d].state \in {ctx.qer[d].state, "CREATE"}
  BY <1>1, SentEffect
<1>4. \A p \in PathIds : /\ b.pool[p].rule = ctx.pool[p].rule
                         /\ b.pool[p].qers = ctx.pool[p].qers
  BY <1>1, <1>3 DEF Good, CtxRec, PathRec
<1>5. Anchors(b) = Anchors(ctx)
  BY <1>3, <1>4 DEF Anchors, Stays, Pool
<1>6. AmbrFine(b)
  <2>1. b.qer[ctx.ambr] = [ctx.qer[ctx.ambr] EXCEPT !.state = b.qer[ctx.ambr].state]
        /\ b.qer[ctx.ambr].state \in {ctx.qer[ctx.ambr].state, "CREATE"}
    BY <1>2, <1>3
  <2>2. b.qer[ctx.ambr].pooled /\ b.qer[ctx.ambr].rate = AmbrRate
    BY <1>1, <1>2, <2>1 DEF AmbrFine, QerRec
  <2>3. QED
    BY <1>1, <1>2, <1>3, <2>1, <2>2 DEF AmbrFine
<1>7. QED
  BY <1>1, <1>3, <1>5, <1>6

(* The end of marked paths leaves it in the pool. *)
LEMMA PostRemoveAmbr ==
  ASSUME Inv, Owners, AmbrInv, est, NEW b, b = PostRemoveDataPath(ctx)
  PROVE  AmbrFine(b) /\ Anchors(b) # {} /\ b.ambr = ctx.ambr
<1>1. Anchors(ctx) # {} /\ AmbrFine(ctx) /\ Good(ctx)
  BY GoodStep DEF AmbrInv, AmbrHeld
<1>2. ctx.ambr \in QerIds /\ ctx.ambr # 0
  BY <1>1, AnchorAmbr
<1>3. /\ b.doomed = {} /\ b.ambr = ctx.ambr
      /\ \A p \in PathIds : b.pool[p] = IF p \in ctx.doomed THEN NoPath ELSE ctx.pool[p]
      /\ \A d \in QerIds : b.qer[d] = ctx.qer[d] \/ ctx.qer[d].state = "REMOVE"
  BY <1>1, PostRemoveEffect
<1>4. AmbrFine(b)
  BY <1>1, <1>2, <1>3 DEF AmbrFine
<1>5. \A p \in Stays(ctx) : p \in Stays(b) /\ b.pool[p] = ctx.pool[p]
  BY <1>3 DEF Stays, Pool
<1>6. Anchors(ctx) \subseteq Anchors(b)
  BY <1>3, <1>5 DEF Anchors
<1>7. QED
  BY <1>1, <1>3, <1>4, <1>6

(* SelectDefaultDataPath gives the session a path that holds it. *)
LEMMA DefaultAmbr ==
  ASSUME Inv, Owners, AmbrInv, EndApplyPccRules, NEW b, b = ctx'
  PROVE  /\ AmbrFine(b) /\ Anchors(b) # {} /\ (est => b = ctx)
         /\ ~est => /\ AmbrNew(b)
                    /\ \A k \in Pool(b) : b.pool[k].default => k \in Anchors(b)
<1>1. AmbrFine(ctx) /\ Good(ctx) /\ ctx.doomed \subseteq Pool(ctx)
  BY GoodStep DEF AmbrInv, AmbrHeld, Owners
<1>2. CASE est
  <2>1. b = ctx
    BY <1>2 DEF EndApplyPccRules
  <2>2. QED
    BY <1>1, <1>2, <2>1 DEF AmbrInv, AmbrHeld
<1>3. CASE ~est /\ GetDefaultPath(ctx) # {}
  <2>1. b = ctx
    BY <1>3 DEF EndApplyPccRules, SelectDefaultDataPath
  <2>2. Anchors(ctx) # {}
    BY <1>3 DEF GetDefaultPath, AmbrInv, First
  <2>3. QED
    BY <1>1, <1>3, <2>1, <2>2 DEF AmbrInv, First
<1>4. CASE ~est /\ GetDefaultPath(ctx) = {}
  <2>1. PICK p : p = Min(FreshPaths(ctx))
    OBVIOUS
  <2>2. FreshPaths(ctx) # {} /\ Cardinality(FreshQers(ctx)) > 1
        /\ b = ActivateTunnelAndPDR(ctx, p, 0, TRUE, FALSE)
    BY <1>4, <2>1 DEF EndApplyPccRules, SelectDefaultDataPath
  <2>3. p \in PathIds \ Pool(ctx) /\ FreshQers(ctx) # {}
    BY <2>1, <2>2, FreshPathNew, FreshTwo
  <2>4. Activated(ctx, b, p, 0, TRUE, FALSE)
    BY <1>1, <2>2, <2>3, ActivateEffect
  <2>5. AmbrNew(ctx)
    BY <1>4 DEF AmbrInv, First
  <2>6. /\ b.qer[b.ambr].pooled /\ b.qer[b.ambr].rate = AmbrRate
        /\ b.qer[b.ambr].state = "INITIAL"
    <3>1. CASE ctx.ambr = 0
      BY <2>4, <3>1 DEF Activated, NewQer
    <3>2. CASE ctx.ambr # 0
      <4>1. ctx.ambr \in QerIds
        BY <1>1, <3>2 DEF Good, CtxRec
      <4>2. QED
        BY <1>1, <2>4, <2>5, <3>2, <4>1 DEF Activated, AmbrFine, AmbrNew
    <3>3. QED
      BY <3>1, <3>2
  <2>7. b.pool[p].rule = 0 /\ b.pool[p].pdr = "INITIAL" /\ b.pool[p].qers = {b.ambr}
    BY <2>4, <2>6 DEF Activated
  <2>8. p \in Anchors(b)
    <3>1. p \notin b.doomed
      BY <1>1, <2>3, <2>4 DEF Activated
    <3>2. QED
      BY <2>3, <2>7, <3>1 DEF Anchors, Stays, Pool, Permanent
  <2>9. ASSUME NEW k \in Pool(b), b.pool[k].default, k # p PROVE FALSE
    BY <1>4, <2>4, <2>9 DEF Activated, GetDefaultPath, Pool
  <2>10. QED
    BY <1>4, <2>6, <2>8, <2>9 DEF AmbrFine, AmbrNew
<1>5. QED
  BY <1>2, <1>3, <1>4

(* The PCF sends no notification that withdraws a rule of the first decision. *)
LEMMA DeletionsPcf == Inv /\ Deletions /\ PcfNext => Deletions'
<1> SUFFICES ASSUME Inv, Deletions, PcfNext PROVE Deletions'
  OBVIOUS
<1>1. dec' = dec
  BY PcfFrame
<1>2. (AfRules \cup InfluenceRules) \cap InitRules = {}
  BY ConstantsOK DEF ConstantsOK
<1>3. ASSUME NEW r, r \in AfRules \cup InfluenceRules, Remove(r) PROVE Deletions'
  BY <1>1, <1>2, <1>3 DEF Remove, Notify, Deletions
<1>4. ASSUME NEW r, NEW rate, HandleModAppSessionContext(r, rate) PROVE Deletions'
  BY <1>1, <1>2, <1>4 DEF HandleModAppSessionContext, Notify, Deletions
<1>5. ASSUME NEW r, SendSMPolicyUpdateNotification(r) PROVE Deletions'
  BY <1>1, <1>5 DEF SendSMPolicyUpdateNotification, Notify, Deletions
<1>6. ASSUME NEW q, NEW rate, UpdateQosData(q, rate) PROVE Deletions'
  BY <1>1, <1>6 DEF UpdateQosData, Notify, Deletions
<1>7. ASSUME net' = net PROVE Deletions'
  BY <1>1, <1>7 DEF Deletions
<1>8. QED
  BY <1>3, <1>4, <1>5, <1>6, <1>7 DEF PcfNext, postAppSessCtx, NewInfluenceData,
     HandleDeleteAppSessionContext, RemoveInfluenceData

(* Every step of the SMF keeps the invariant of the AMBR QER. *)
LEMMA AmbrStep ==
  ASSUME DefaultRuleHasNoQos, Inv, Owners, AmbrInv, SmfNext
  PROVE  AmbrInv'
<1>1. todo \subseteq Rules /\ Good(ctx)
  BY GoodStep DEF Inv, TypeOK
<1>2. AmbrHeld /\ First /\ Deletions
  BY DEF AmbrInv
<1>3. ASSUME NEW n \in net, HandleSMPolicyUpdateNotify(n) PROVE AmbrInv'
  <2>1. est /\ est' = est /\ upf' = upf /\ dec' = n /\ net' \subseteq net
    BY <1>2, <1>3 DEF HandleSMPolicyUpdateNotify, First
  <2>2. PICK b : b = ctx'
    OBVIOUS
  <2>3. b.pool = ctx.pool /\ b.doomed = ctx.doomed /\ b.ambr = ctx.ambr /\ b.qer = ctx.qer
    BY <1>1, <1>3, <2>2 DEF HandleSMPolicyUpdateNotify, Good, CtxRec
  <2>4. Anchors(b) = Anchors(ctx)
    BY <2>3 DEF Anchors, Stays, Pool
  <2>5. AmbrFine(b)
    BY <1>2, <2>3 DEF AmbrFine, AmbrHeld
  <2>6. AmbrHeld'
    BY <1>2, <2>1, <2>2, <2>3, <2>4, <2>5 DEF AmbrHeld
  <2>7. Deletions'
    BY <1>2, <2>1 DEF Deletions
  <2>8. QED
    BY <2>1, <2>6, <2>7 DEF AmbrInv, First
<1>4. ASSUME NEW r \in todo, RemovePccRule(r) PROVE AmbrInv'
  <2>1. /\ r \in Rules /\ r \in dec.del /\ Pending(r) /\ pc = "inDecision" /\ pc' = pc
        /\ est' = est /\ upf' = upf /\ dec' = dec /\ net' = net
        /\ ctx' = PreRemoveDataPath(ctx, OldPath(r))
    BY <1>1, <1>4 DEF RemovePccRule, OldPath, Pending
  <2>2. est
    BY <2>1, FirstRules DEF Deciding
  <2>3. r \notin InitRules
    BY <1>2, <2>1 DEF Deletions
  <2>4. PICK b : b = ctx'
    OBVIOUS
  <2>5. AmbrFine(b) /\ Anchors(b) # {}
    BY <2>1, <2>2, <2>3, <2>4, RemoveAmbr
  <2>6. b.ambr = ctx.ambr
    <3>1. Marked(ctx, PreRemoveDataPath(ctx, OldPath(r)), OldPath(r))
      BY <1>1, <2>1, OldPathOwn, PreRemoveEffect DEF Pool
    <3>2. QED
      BY <2>1, <2>4, <3>1 DEF Marked
  <2>7. AmbrHeld'
    BY <1>2, <2>1, <2>2, <2>4, <2>5, <2>6 DEF AmbrHeld
  <2>8. QED
    BY <1>2, <2>1, <2>2, <2>7 DEF AmbrInv, First, Deletions
<1>5. ASSUME NEW r \in todo, InstallPccRule(r) PROVE AmbrInv'
  <2>1. PICK p : p = Min(FreshPaths(ctx))
    OBVIOUS
  <2>2. PICK b : b = ctx'
    OBVIOUS
  <2>3. /\ r \in Rules /\ r \in dec.inst /\ pc = "inDecision" /\ pc' = pc
        /\ FreshPaths(ctx) # {} /\ Cardinality(FreshQers(ctx)) > 1
        /\ est' = est /\ upf' = upf /\ dec' = dec /\ net' = net
        /\ PCCRules' = [PCCRules EXCEPT ![r] = NoRule]
    BY <1>1, <1>5 DEF InstallPccRule
  <2>4. b = NewThenOld(p, r)
    BY <1>5, <2>1, <2>2 DEF InstallPccRule
  <2>5. /\ AmbrFine(b) /\ (est => Anchors(b) # {})
        /\ ~est => /\ AmbrNew(b)
                   /\ r \in InitRules => \A k \in Pool(b) :
                         b.pool[k].default => k \in Anchors(b)
    BY <2>1, <2>3, <2>4, InstallAmbr
  <2>6. est => b.ambr = ctx.ambr
    <3>1. PICK e : Created(ctx, e, p, r) /\ Marked(e, b, OldPath(r))
      BY <2>1, <2>3, <2>4, InstallEffect
    <3>2. est => ctx.ambr # 0
      BY <1>1, <1>2, AnchorAmbr DEF AmbrHeld
    <3>3. QED
      BY <3>1, <3>2 DEF Created, Marked
  <2>7. AmbrHeld'
    BY <1>2, <2>2, <2>3, <2>5, <2>6 DEF AmbrHeld
  <2>8. ~est => r \in InitRules
    BY <1>2, <2>3 DEF First
  <2>9. ~est => \A x \in Rules : PCCRules'[x] = NoRule
    BY <1>2, <2>3 DEF First, Deciding, Inv, TypeOK
  <2>10. First'
    BY <1>2, <2>2, <2>3, <2>5, <2>8, <2>9 DEF First
  <2>11. QED
    BY <1>2, <2>3, <2>7, <2>10 DEF AmbrInv, Deletions
<1>6. ASSUME NEW r \in todo, InstallPccRuleFails(r) PROVE AmbrInv'
  <2>1. PICK p : p = Min(FreshPaths(ctx))
    OBVIOUS
  <2>2. PICK b : b = ctx'
    OBVIOUS
  <2>3. /\ r \in Rules /\ r \in dec.inst \cap BadRules /\ pc = "inDecision"
        /\ FreshPaths(ctx) # {} /\ Cardinality(FreshQers(ctx)) > 1
        /\ est' = est /\ upf' = upf /\ dec' = dec /\ net' = net
    BY <1>1, <1>6 DEF InstallPccRuleFails
  <2>4. b = NewThenOld(p, r)
    BY <1>6, <2>1, <2>2 DEF InstallPccRuleFails
  <2>5. est
    BY <2>3, FirstRules DEF Deciding
  <2>6. AmbrFine(b) /\ Anchors(b) # {}
    BY <2>1, <2>3, <2>4, <2>5, InstallAmbr
  <2>7. b.ambr = ctx.ambr
    <3>1. PICK e : Created(ctx, e, p, r) /\ Marked(e, b, OldPath(r))
      BY <2>1, <2>3, <2>4, InstallEffect
    <3>2. ctx.ambr # 0
      BY <1>1, <1>2, <2>5, AnchorAmbr DEF AmbrHeld
    <3>3. QED
      BY <3>1, <3>2 DEF Created, Marked
  <2>8. AmbrHeld'
    BY <1>2, <2>2, <2>3, <2>5, <2>6, <2>7 DEF AmbrHeld
  <2>9. QED
    BY <1>2, <2>3, <2>5, <2>8 DEF AmbrInv, First, Deletions
<1>7. ASSUME NEW r \in todo, KeepPccRule(r) PROVE AmbrInv'
  <2>1. est
    BY <1>7, FirstRules DEF KeepPccRule, Deciding
  <2>2. UNCHANGED <<pc, est, upf, dec, net, ctx>>
    BY <1>7 DEF KeepPccRule, Keep
  <2>3. QED
    BY <1>2, <2>1, <2>2 DEF AmbrInv, AmbrHeld, First, Deletions
<1>8. ASSUME NEW r \in todo, ChangePccRule(r) PROVE AmbrInv'
  <2>1. PICK p : p = Min(FreshPaths(ctx))
    OBVIOUS
  <2>2. PICK b : b = ctx'
    OBVIOUS
  <2>3. /\ r \in Rules /\ pc = "notInDecision" /\ pc' = pc /\ ~SameQos(r) /\ Pending(r)
        /\ FreshPaths(ctx) # {} /\ Cardinality(FreshQers(ctx)) > 1
        /\ est' = est /\ upf' = upf /\ dec' = dec /\ net' = net
    BY <1>1, <1>8 DEF ChangePccRule, Keep, Pending
  <2>4. b = OldThenNew(p, r)
    BY <1>8, <2>1, <2>2, <2>3, ChangeMaps
  <2>5. est
    BY <2>3, FirstRules DEF Deciding
  <2>6. AmbrFine(b) /\ Anchors(b) # {}
    BY <2>1, <2>3, <2>4, <2>5, ChangeAmbr
  <2>7. b.ambr = ctx.ambr
    <3>1. PICK e : Marked(ctx, e, OldPath(r)) /\ Created(e, b, p, r)
      BY <2>1, <2>3, <2>4, ChangeEffect
    <3>2. ctx.ambr # 0
      BY <1>1, <1>2, <2>5, AnchorAmbr DEF AmbrHeld
    <3>3. QED
      BY <3>1, <3>2 DEF Created, Marked
  <2>8. AmbrHeld'
    BY <1>2, <2>2, <2>3, <2>5, <2>6, <2>7 DEF AmbrHeld
  <2>9. QED
    BY <1>2, <2>3, <2>5, <2>8 DEF AmbrInv, First, Deletions
<1>9. ASSUME EndInDecision PROVE AmbrInv'
  BY <1>2, <1>9 DEF EndInDecision, AmbrInv, AmbrHeld, First, Deletions, Deciding, ruleVars
<1>10. ASSUME EndApplyPccRules PROVE AmbrInv'
  <2>1. PICK b : b = ctx'
    OBVIOUS
  <2>2. /\ AmbrFine(b) /\ Anchors(b) # {} /\ (est => b = ctx)
        /\ ~est => /\ AmbrNew(b)
                   /\ \A k \in Pool(b) : b.pool[k].default => k \in Anchors(b)
    BY <1>10, <2>1, DefaultAmbr
  <2>3. pc' = "activate" /\ UNCHANGED <<est, upf, dec, net>>
    BY <1>10 DEF EndApplyPccRules
  <2>4. First'
    BY <1>2, <2>1, <2>2, <2>3 DEF First, Deciding
  <2>5. AmbrHeld'
    BY <1>2, <2>1, <2>2, <2>3 DEF AmbrHeld
  <2>6. QED
    BY <1>2, <2>3, <2>4, <2>5 DEF AmbrInv, Deletions
<1>11. ASSUME ActivateUPFSession PROVE AmbrInv'
  <2>1. PICK b : b = ctx'
    OBVIOUS
  <2>2. AmbrFine(b) /\ Anchors(b) # {} /\ b.ambr = ctx.ambr
    BY <1>11, <2>1, SentAmbr DEF ActivateUPFSession
  <2>3. est' /\ upf' = Applied(ctx) /\ UNCHANGED <<dec, net>>
    BY <1>11 DEF ActivateUPFSession
  <2>4. upf'.qer[ctx.ambr] = AmbrRate
    BY <1>11, <2>3, AppliedAmbr DEF ActivateUPFSession
  <2>5. AmbrHeld'
    BY <2>1, <2>2, <2>3, <2>4 DEF AmbrHeld
  <2>6. QED
    BY <1>2, <2>3, <2>5 DEF AmbrInv, First, Deletions
<1>12. ASSUME ModificationFails PROVE AmbrInv'
  <2>1. PICK b : b = ctx'
    OBVIOUS
  <2>2. AmbrFine(b) /\ Anchors(b) # {} /\ b.ambr = ctx.ambr
    BY <1>12, <2>1, SentAmbr DEF ModificationFails
  <2>3. est /\ UNCHANGED <<est, upf, dec, net>>
    BY <1>12 DEF ModificationFails
  <2>4. AmbrHeld'
    BY <1>2, <2>1, <2>2, <2>3 DEF AmbrHeld
  <2>5. QED
    BY <1>2, <2>3, <2>4 DEF AmbrInv, First, Deletions
<1>13. ASSUME EndNotification PROVE AmbrInv'
  <2>1. PICK b : b = ctx'
    OBVIOUS
  <2>2. est /\ UNCHANGED <<est, upf, dec, net>>
    BY <1>2, <1>13 DEF EndNotification, First
  <2>3. AmbrFine(b) /\ Anchors(b) # {} /\ b.ambr = ctx.ambr
    BY <1>13, <2>1, <2>2, PostRemoveAmbr DEF EndNotification
  <2>4. AmbrHeld'
    BY <1>2, <2>1, <2>2, <2>3 DEF AmbrHeld
  <2>5. QED
    BY <1>2, <2>2, <2>4 DEF AmbrInv, First, Deletions
<1>14. QED
  BY <1>3, <1>4, <1>5, <1>6, <1>7, <1>8, <1>9, <1>10, <1>11, <1>12, <1>13 DEF SmfNext

(* When the session is created it has neither data paths nor QERs. *)
LEMMA AmbrInit == Init => AmbrInv
<1> SUFFICES ASSUME Init PROVE AmbrInv
  OBVIOUS
<1>1. Pool(ctx) = {} /\ ctx.ambr = 0
  BY DEF Init, Pool, NoPath
<1>2. dec.del = {} /\ dec.inst = InitRules /\ net = {}
  BY DEF Init, Notify
<1>3. QED
  BY <1>1, <1>2 DEF Init, AmbrInv, Deletions, First, AmbrHeld, AmbrFine, AmbrNew, Deciding

(* The invariant of all states. *)
LEMMA AmbrAlways ==
  ASSUME DefaultRuleHasNoQos
  PROVE  Spec => []AmbrInv
<1>1. Inv /\ Owners /\ AmbrInv /\ [Next]_vars => AmbrInv'
  <2>1. ASSUME AmbrInv, Deletions', UNCHANGED <<pc, dec, todo, ruleVars, ctx, est, upf>>
        PROVE  AmbrInv'
    BY <2>1 DEF AmbrInv, AmbrHeld, First, Deciding, ruleVars
  <2>2. ASSUME AmbrInv, UNCHANGED vars PROVE Deletions'
    BY <2>2 DEF AmbrInv, Deletions, vars
  <2>3. QED
    BY <2>1, <2>2, PcfFrame, DeletionsPcf, AmbrStep DEF Next, Rest, vars, AmbrInv
<1>2. QED
  BY <1>1, AmbrInit, InvAlways, OwnersAlways, PTL DEF Spec

(* Whatever fails, once the session is established the UPF holds the QER of the
   session AMBR with its rate: no sequence of decisions, lost requests and
   loops that return half way makes the SMF ask for its removal or forget it.
   The default rule must have no QoS datum, as createSMPolicyProcedure has it:
   a path that is marked before its successor exists takes its QERs along. *)
THEOREM AmbrInstalledHolds ==
  ASSUME DefaultRuleHasNoQos
  PROVE  Spec => []AmbrInstalled
<1>1. AmbrInv => AmbrInstalled
  BY DEF AmbrInv, AmbrHeld, AmbrInstalled
<1>2. QED
  BY <1>1, AmbrAlways, PTL

-----------------------------------------------------------------------------
(* No data path is left without a rule.                                      *)

\* data path p is that of a rule the SMF has installed or is installing
Named(p) ==
    \E r \in Rules : \/ PCCRules[r].path = p /\ Pending(r)
                     \/ Deciding /\ finalPccRules[r].path = p

\* Every path that stays is the default one or some rule's, and none is
\* marked between two notifications.
NoOrphans ==
    /\ pc = "idle" => ctx.doomed = {}
    /\ \A p \in Stays(ctx) : ctx.pool[p].default \/ Named(p)

(* Each step of the SMF leaves no path behind; a rule without PFD would. *)
LEMMA NoOrphansStep ==
  ASSUME BadRules = {}, Inv, Owners, NoOrphans, SmfNext
  PROVE  NoOrphans'
<1> USE DEF Deciding, Pending
<1>1. todo \subseteq Rules /\ Good(ctx) /\ 0 \notin PathIds
  BY GoodStep, ConstantsOK DEF Inv, TypeOK, ConstantsOK
<1>2. ASSUME NEW n \in net, HandleSMPolicyUpdateNotify(n) PROVE NoOrphans'
  <2>1. /\ ctx'.pool = ctx.pool /\ ctx'.doomed = ctx.doomed
        /\ PCCRules' = PCCRules /\ pc = "idle" /\ pc' = "inDecision"
    BY <1>1, <1>2 DEF HandleSMPolicyUpdateNotify, Good, CtxRec
  <2>2. Stays(ctx') = Stays(ctx)
    BY <2>1 DEF Pool, Stays
  <2>3. QED
    BY <2>1, <2>2 DEF NoOrphans, Named
<1>3. ASSUME NEW r \in todo, RemovePccRule(r) PROVE NoOrphans'
  <2>1. r \in Rules /\ Pending(r) /\ pc = "inDecision" /\ pc' = pc
        /\ finalPccRules' = finalPccRules /\ PCCRules' = [PCCRules EXCEPT ![r] = NoRule]
        /\ ctx' = PreRemoveDataPath(ctx, OldPath(r))
    BY <1>1, <1>3 DEF RemovePccRule, OldPath
  <2>2. PICK b : b = ctx'
    OBVIOUS
  <2>3. OldPath(r) \in Pool(ctx) \cup {0}
    BY <2>1, OldPathOwn
  <2>4. Marked(ctx, b, OldPath(r))
    BY <1>1, <2>1, <2>2, <2>3, PreRemoveEffect DEF Pool
  <2>5. Stays(b) = Stays(ctx) \ {OldPath(r)} /\ SamePaths(ctx, b)
    BY <1>1, <2>3, <2>4, MarkedStays DEF Owners
  <2>6. \A x \in Rules : x # r => PCCRules'[x] = PCCRules[x]
    BY <2>1 DEF Inv, TypeOK
  <2>7. ASSUME NEW p \in Stays(b) PROVE b.pool[p].default \/ Named(p)'
    <3>1. ctx.pool[p].default \/ Named(p)
      BY <2>5 DEF NoOrphans
    <3>2. p # OldPath(r) /\ b.pool[p].default = ctx.pool[p].default
      BY <2>5 DEF SamePaths, Stays, Pool
    <3>3. Named(p) => Named(p)'
      BY <2>1, <2>6, <3>2 DEF Named, OldPath
    <3>4. QED
      BY <3>1, <3>2, <3>3
  <2>8. QED
    BY <2>1, <2>2, <2>7 DEF NoOrphans
<1>4. ASSUME NEW r \in todo, InstallPccRule(r) PROVE NoOrphans'
  <2>1. PICK p : p = Min(FreshPaths(ctx))
    OBVIOUS
  <2>2. PICK b : b = ctx'
    OBVIOUS
  <2>3. /\ r \in Rules /\ Pending(r) /\ pc = "inDecision" /\ pc' = pc
        /\ FreshPaths(ctx) # {} /\ Cardinality(FreshQers(ctx)) > 1
        /\ finalPccRules[r] = NoRule
    BY <1>1, <1>4 DEF InstallPccRule, Owners
  <2>4. /\ b = NewThenOld(p, r) /\ finalPccRules'[r].path = p
        /\ \A x \in Rules : x # r => /\ PCCRules'[x] = PCCRules[x]
                                     /\ finalPccRules'[x] = finalPccRules[x]
    BY <1>4, <2>1, <2>2, <2>3, InstallMaps
  <2>5. /\ Stays(b) = (Stays(ctx) \cup {p}) \ {OldPath(r)}
        /\ \A k \in Pool(ctx) : b.pool[k].default = ctx.pool[k].default
    BY <2>1, <2>3, <2>4, InstallPaths
  <2>6. ASSUME NEW k \in Stays(b) PROVE b.pool[k].default \/ Named(k)'
    <3>1. CASE k = p
      BY <2>3, <2>4, <3>1 DEF Named
    <3>2. CASE k # p
      <4>1. k \in Stays(ctx) /\ k # OldPath(r) /\ k # 0
        BY <1>1, <2>5, <3>2 DEF Stays, Pool
      <4>2. (ctx.pool[k].default \/ Named(k)) /\ b.pool[k].default = ctx.pool[k].default
        BY <2>5, <4>1 DEF NoOrphans, Stays
      <4>3. Named(k) => Named(k)'
        BY <2>3, <2>4, <4>1 DEF Named, OldPath, NoRule
      <4>4. QED
        BY <4>2, <4>3
    <3>3. QED
      BY <3>1, <3>2
  <2>7. QED
    BY <2>2, <2>3, <2>6 DEF NoOrphans
<1>5. ASSUME NEW r \in todo, KeepPccRule(r) PROVE NoOrphans'
  <2>1. /\ r \in Rules /\ pc = "notInDecision" /\ pc' = pc /\ todo' = todo \ {r}
        /\ PCCRules' = PCCRules /\ ctx' = ctx /\ finalPccRules[r] = NoRule
        /\ finalPccRules' = [finalPccRules EXCEPT ![r] = PCCRules[r]]
    BY <1>1, <1>5 DEF KeepPccRule, Keep, Owners
  <2>2. /\ finalPccRules'[r] = PCCRules[r]
        /\ \A x \in Rules : x # r => finalPccRules'[x] = finalPccRules[x]
    BY <2>1 DEF Inv, TypeOK
  <2>3. ASSUME NEW p \in Stays(ctx) PROVE ctx.pool[p].default \/ Named(p)'
    <3>1. ctx.pool[p].default \/ Named(p)
      BY DEF NoOrphans
    <3>2. p # 0
      BY <1>1 DEF Stays, Pool
    <3>3. Named(p) => Named(p)'
      BY <2>1, <2>2, <3>2 DEF Named, NoRule
    <3>4. QED
      BY <3>1, <3>3
  <2>4. QED
    BY <2>1, <2>3 DEF NoOrphans
<1>6. ASSUME NEW r \in todo, ChangePccRule(r) PROVE NoOrphans'
  <2>1. PICK p : p = Min(FreshPaths(ctx))
    OBVIOUS
  <2>2. PICK b : b = ctx'
    OBVIOUS
  <2>3. /\ r \in Rules /\ Pending(r) /\ pc = "notInDecision" /\ pc' = pc
        /\ FreshPaths(ctx) # {} /\ Cardinality(FreshQers(ctx)) > 1
        /\ finalPccRules[r] = NoRule /\ todo' = todo \ {r}
    BY <1>1, <1>6 DEF ChangePccRule, Keep, Owners
  <2>4. /\ b = OldThenNew(p, r) /\ finalPccRules'[r].path = p /\ PCCRules' = PCCRules
        /\ \A x \in Rules : x # r => finalPccRules'[x] = finalPccRules[x]
    BY <1>6, <2>1, <2>2, <2>3, ChangeMaps
  <2>5. /\ Stays(b) = (Stays(ctx) \cup {p}) \ {OldPath(r)}
        /\ \A k \in Pool(ctx) : b.pool[k].default = ctx.pool[k].default
    BY <2>1, <2>3, <2>4, ChangePaths
  <2>6. ASSUME NEW k \in Stays(b) PROVE b.pool[k].default \/ Named(k)'
    <3>1. CASE k = p
      BY <2>3, <2>4, <3>1 DEF Named
    <3>2. CASE k # p
      <4>1. k \in Stays(ctx) /\ k # OldPath(r) /\ k # 0
        BY <1>1, <2>5, <3>2 DEF Stays, Pool
      <4>2. (ctx.pool[k].default \/ Named(k)) /\ b.pool[k].default = ctx.pool[k].default
        BY <2>5, <4>1 DEF NoOrphans, Stays
      <4>3. Named(k) => Named(k)'
        BY <2>3, <2>4, <4>1 DEF Named, OldPath, NoRule
      <4>4. QED
        BY <4>2, <4>3
    <3>3. QED
      BY <3>1, <3>2
  <2>7. QED
    BY <2>2, <2>3, <2>6 DEF NoOrphans
<1>7. ASSUME EndInDecision PROVE NoOrphans'
  <2>1. ASSUME NEW p, p # 0, Named(p) PROVE Named(p)'
    BY <1>7, <2>1 DEF EndInDecision, Named, ruleVars, NoRule
  <2>2. ctx' = ctx /\ pc' = "notInDecision"
    BY <1>7 DEF EndInDecision
  <2>3. QED
    BY <1>1, <2>1, <2>2 DEF NoOrphans, Stays, Pool
<1>8. ASSUME EndApplyPccRules PROVE NoOrphans'
  <2>1. pc = "notInDecision" /\ pc' = "activate" /\ todo = {} /\ PCCRules' = finalPccRules
    BY <1>8 DEF EndApplyPccRules
  <2>2. \A p : Named(p) => Named(p)'
    BY <2>1 DEF Named
  <2>3. PICK b : b = ctx'
    OBVIOUS
  <2>4. ASSUME NEW k \in Stays(b)
        PROVE  b.pool[k].default \/ (k \in Stays(ctx) /\ b.pool[k] = ctx.pool[k])
    <3>1. CASE est \/ GetDefaultPath(ctx) # {}
      BY <1>8, <2>3, <3>1 DEF EndApplyPccRules, SelectDefaultDataPath
    <3>2. CASE ~est /\ GetDefaultPath(ctx) = {}
      <4>1. PICK p : p = Min(FreshPaths(ctx))
        OBVIOUS
      <4>2. FreshPaths(ctx) # {} /\ Cardinality(FreshQers(ctx)) > 1
            /\ b = ActivateTunnelAndPDR(ctx, p, 0, TRUE, FALSE)
        BY <1>8, <2>3, <3>2, <4>1 DEF EndApplyPccRules, SelectDefaultDataPath
      <4>3. p \in PathIds \ Pool(ctx) /\ FreshQers(ctx) # {}
        BY <4>1, <4>2, FreshPathNew, FreshTwo
      <4>4. Activated(ctx, b, p, 0, TRUE, FALSE)
        BY <1>1, <4>2, <4>3, ActivateEffect
      <4>5. QED
        BY <4>4 DEF Activated, Stays, Pool
    <3>3. QED
      BY <3>1, <3>2
  <2>5. QED
    BY <2>1, <2>2, <2>3, <2>4 DEF NoOrphans
<1>9. ASSUME pc = "activate", pc' = "postRemove", ctx' = Sent(ctx),
             UNCHANGED <<todo, ruleVars>>
      PROVE  NoOrphans'
  <2>1. PICK b : b = ctx'
    OBVIOUS
  <2>2. /\ b.doomed = ctx.doomed /\ Pool(b) = Pool(ctx)
        /\ \A p \in PathIds : b.pool[p] = [ctx.pool[p] EXCEPT !.pdr = b.pool[p].pdr]
    BY <1>1, <1>9, <2>1, SentEffect
  <2>6. ctx.pool \in [PathIds -> PathRec]
    BY <1>1 DEF Good, CtxRec
  <2>7. \A p \in PathIds : b.pool[p].default = ctx.pool[p].default
    BY <2>2, <2>6 DEF PathRec
  <2>3. /\ Stays(b) = Stays(ctx)
        /\ \A p \in PathIds : b.pool[p].default = ctx.pool[p].default
    BY <2>2, <2>7 DEF Stays
  <2>4. \A p : Named(p) => Named(p)'
    BY <1>9 DEF Named, ruleVars
  <2>5. QED
    BY <1>9, <2>1, <2>3, <2>4 DEF NoOrphans, Stays, Pool
<1>10. ASSUME EndNotification PROVE NoOrphans'
  <2>1. PICK b : b = ctx'
    OBVIOUS
  <2>2. b.doomed = {} /\ \A p \in PathIds : b.pool[p] =
                            IF p \in ctx.doomed THEN NoPath ELSE ctx.pool[p]
    BY <1>1, <1>10, <2>1, PostRemoveEffect DEF EndNotification
  <2>3. Stays(b) = Stays(ctx) /\ \A p \in Stays(ctx) : b.pool[p] = ctx.pool[p]
    BY <2>2 DEF Stays, Pool, NoPath
  <2>4. \A p : Named(p) => Named(p)'
    BY <1>10 DEF Named, EndNotification, ruleVars
  <2>5. QED
    BY <2>1, <2>2, <2>3, <2>4 DEF NoOrphans
<1>11. QED
  BY <1>2, <1>3, <1>4, <1>5, <1>6, <1>7, <1>8, <1>9, <1>10
  DEF SmfNext, ActivateUPFSession, ModificationFails, InstallPccRuleFails

(* Unless the PCF names a rule whose PFD the SMF lacks, every data path is the
   default one or that of an installed rule when no notification is being
   handled, even if PFCP requests are lost, notifications overtake each other
   or QoS data change alone. *)
THEOREM NoOrphanPathHolds ==
  ASSUME BadRules = {}
  PROVE  Spec => []NoOrphanPath
<1>1. Init => NoOrphans
  BY DEF Init, NoOrphans, Stays, Pool, NoPath
<1>2. Inv /\ Owners /\ NoOrphans /\ [Next]_vars => NoOrphans'
  <2>1. ASSUME NoOrphans, UNCHANGED <<pc, dec, todo, ruleVars, ctx, est, upf>>
        PROVE  NoOrphans'
    BY <2>1 DEF NoOrphans, Named, Deciding, Pending, ruleVars
  <2>2. QED
    BY <2>1, PcfFrame, NoOrphansStep DEF Next, Rest, vars
<1>3. NoOrphans => NoOrphanPath
  <2> SUFFICES ASSUME NoOrphans, AtRest, NEW p \in Pool(ctx)
               PROVE  \/ ctx.pool[p].default
                      \/ \E r \in Installed : PCCRules[r].path = p
    BY DEF NoOrphanPath
  <2>1. p \in Stays(ctx) /\ p # 0
    BY ConstantsOK DEF ConstantsOK, NoOrphans, AtRest, Stays, Pool
  <2>2. QED
    BY <2>1 DEF NoOrphans, Named, AtRest, Deciding, Installed, NoRule
<1>4. QED
  BY <1>1, <1>2, <1>3, InvAlways, OwnersAlways, PTL DEF Spec

-----------------------------------------------------------------------------
(* The rules of the SMF become those of the PCF.                             *)

\* A request waits for the one before; every PFD is configured; a QoS datum of
\* an app session belongs to one rule, because one counter of the PCF numbers
\* the two (policyauthorization.go:124, :129), and influence data have none.
InTurn ==
    /\ Sequential /\ BadRules = {}
    /\ \A r \in AfRules, x \in Rules :
          x # r /\ RefQos[r] # NoQos => RefQos[x] # RefQos[r]
    /\ \A r \in InfluenceRules : RefQos[r] = NoQos

\* data hold the PCF's rate of the QoS datum of rule r
Agrees(r, data) == RefQos[r] # NoQos => data[RefQos[r]] = pcfQos[RefQos[r]]

\* the QoS data the SMF has after notification n
After(n) == [q \in Qos |-> IF n.qos[q] # 0 THEN n.qos[q] ELSE QosDatas[q]]

Settled == Installed = pcfRules /\ \A r \in pcfRules : Agrees(r, QosDatas)

\* A POST whose goroutine has not read the decision: its rule alone is missing.
Posted ==
    /\ posting # {} => net = {} /\ pc = "idle"
    /\ \A r \in posting :
        /\ posting = {r} /\ r \in pcfRules
        /\ Installed = pcfRules \ {r}
        /\ \A x \in pcfRules \ {r} : Agrees(x, QosDatas)
        /\ RefQos[r] # NoQos => pcfQos[RefQos[r]] # 0

\* Notification n takes the SMF to the PCF's decision.
Leads(n) ==
    /\ n.inst \subseteq pcfRules /\ n.del \cap pcfRules = {}
    /\ pcfRules \subseteq n.inst \cup Installed
    /\ Installed \ n.del \subseteq pcfRules
    /\ \A x \in pcfRules : Agrees(x, After(n))

Sending ==
    /\ net # {} => posting = {} /\ pc = "idle"
    /\ \A n \in net : net = {n} /\ Leads(n)

\* The rules handled, those to be handled and those left alone make up the
\* decision.
Working ==
    /\ pc = "inDecision" =>
        /\ todo \subseteq dec.inst \cup dec.del
        /\ dec.inst \subseteq pcfRules /\ dec.del \cap pcfRules = {}
        /\ \A x \in Rules : x \in pcfRules <=>
              \/ finalPccRules[x] # NoRule
              \/ x \in todo \cap dec.inst
              \/ PCCRules[x] # NoRule /\ x \notin todo
    /\ pc = "notInDecision" =>
        /\ \A x \in todo : PCCRules[x] # NoRule
        /\ \A x \in Rules : x \in pcfRules <=> finalPccRules[x] # NoRule \/ x \in todo
    /\ Deciding =>
        /\ \A x \in pcfRules : Agrees(x, After(dec))
        /\ \A x \in Rules : finalPccRules[x] # NoRule => Agrees(x, finalQosDatas)
    /\ pc \in {"activate", "postRemove"} => Settled

RulesInv ==
    /\ pcfRules \subseteq InitRules \cup usedIds
    /\ Posted /\ Sending /\ Working
    /\ Quiet => Settled

(* A fresh rule id was not handed out before. *)
LEMMA FreshNew ==
  ASSUME NEW S \in SUBSET (AfRules \cup InfluenceRules), Fresh(S),
         NEW rules, rules \subseteq InitRules \cup usedIds
  PROVE  FreshId(S) \notin rules
<1>1. S \subseteq Rules /\ S \cap InitRules = {} /\ S \ usedIds \subseteq Nat
  BY ConstantsOK DEF ConstantsOK, Rules
<1>2. Min(S \ usedIds) \in S \ usedIds
  BY <1>1, MinIn DEF Fresh
<1>3. QED
  BY <1>1, <1>2 DEF FreshId

(* A request starts from a settled decision and leaves one thing under way. *)
LEMMA RulesPcf ==
  ASSUME InTurn, Inv, RulesInv, PcfNext
  PROVE  RulesInv'
<1> USE DEF Installed
<1>1. /\ pcfRules \subseteq Rules /\ pcfQos \in [Qos -> RateOr0]
      /\ QosDatas \in [Qos -> RateOr0] /\ 0 \notin Rates
      /\ RefQos \in [Rules -> Qos \cup {NoQos}] /\ NoQos \notin Qos
      /\ AfRules \subseteq Rules /\ InfluenceRules \subseteq Rules
      /\ InitRules \cap (AfRules \cup InfluenceRules) = {}
  BY ConstantsOK DEF ConstantsOK, Inv, TypeOK, Rules
<1>2. UNCHANGED <<pc, dec, todo, ruleVars>>
  BY PcfFrame
<1>3. Installed' = Installed /\ QosDatas' = QosDatas
      /\ PCCRules' = PCCRules /\ pc' = pc
  BY <1>2 DEF ruleVars
<1>4. MayRequest => /\ posting = {} /\ net = {} /\ pc = "idle" /\ Settled
  BY DEF InTurn, MayRequest, Quiet, RulesInv
<1>5. ASSUME NEW n \in Rules, n \notin pcfRules, MayRequest,
             pcfRules' = pcfRules \cup {n}, usedIds' = usedIds \cup {n},
             posting' = posting \cup {n}, net' = net,
             RefQos[n] # NoQos => pcfQos'[RefQos[n]] # 0,
             \A x \in pcfRules : Agrees(x, QosDatas)'
      PROVE  RulesInv'
  <2>1. Posted'
    BY <1>3, <1>4, <1>5 DEF Posted, Settled
  <2>2. Sending' /\ Working' /\ ~Quiet'
    BY <1>3, <1>4, <1>5 DEF Sending, Working, Deciding, Quiet
  <2>3. QED
    BY <1>5, <2>1, <2>2 DEF RulesInv
<1>6. ASSUME NEW n, MayRequest, net' = net \cup {n}, posting' = posting,
             pcfRules' \subseteq InitRules \cup usedIds', Leads(n)'
      PROVE  RulesInv'
  BY <1>3, <1>4, <1>6 DEF RulesInv, Posted, Sending, Working, Deciding, Quiet
<1>7. ASSUME NEW rate \in Rates, postAppSessCtx(rate) PROVE RulesInv'
  <2>1. PICK n : n = FreshId(AfRules)
    OBVIOUS
  <2>2. n \in AfRules /\ n \notin pcfRules
    BY <1>1, <1>7, <2>1, FreshIdIn, FreshNew DEF postAppSessCtx, RulesInv
  <2>3. pcfQos' = [pcfQos EXCEPT ![RefQos[n]] = rate]
    BY <1>7, <2>1 DEF postAppSessCtx
  <2>4. \A x \in pcfRules : Agrees(x, QosDatas)'
    <3> SUFFICES ASSUME NEW x \in pcfRules, RefQos[x] # NoQos
                 PROVE  QosDatas[RefQos[x]] = pcfQos'[RefQos[x]]
      BY <1>3 DEF Agrees
    <3>1. RefQos[x] # RefQos[n]
      BY <1>1, <2>2 DEF InTurn
    <3>2. QosDatas[RefQos[x]] = pcfQos[RefQos[x]]
      BY <1>4, <1>7 DEF postAppSessCtx, Settled, Agrees
    <3>3. QED
      BY <1>1, <2>3, <3>1, <3>2
  <2>5. RefQos[n] # NoQos => pcfQos'[RefQos[n]] # 0
    BY <1>1, <2>2, <2>3
  <2>6. QED
    BY <1>1, <1>5, <1>7, <2>1, <2>2, <2>4, <2>5 DEF postAppSessCtx
<1>8. ASSUME NewInfluenceData PROVE RulesInv'
  <2>1. PICK n : n = FreshId(InfluenceRules)
    OBVIOUS
  <2>2. n \in InfluenceRules /\ n \notin pcfRules
    BY <1>1, <1>8, <2>1, FreshIdIn, FreshNew DEF NewInfluenceData, RulesInv
  <2>3. \A x \in pcfRules : Agrees(x, QosDatas)'
    BY <1>3, <1>4, <1>8 DEF NewInfluenceData, Settled, Agrees
  <2>4. RefQos[n] = NoQos
    BY <2>2 DEF InTurn
  <2>5. QED
    BY <1>1, <1>5, <1>8, <2>1, <2>2, <2>3, <2>4 DEF NewInfluenceData
<1>9. ASSUME NEW r \in Rules, SendSMPolicyUpdateNotification(r) PROVE RulesInv'
  <2>1. PICK n : n = Notify(r, "post", pcfRules, {}, pcfQos, {})
    OBVIOUS
  <2>2. /\ posting = {r} /\ posting' = {} /\ net' = {n} /\ pc = "idle" /\ r \in pcfRules
        /\ pcfRules' = pcfRules /\ pcfQos' = pcfQos /\ usedIds' = usedIds
    BY <1>9, <2>1 DEF SendSMPolicyUpdateNotification, RulesInv, Posted
  <2>3. n.inst = pcfRules /\ n.del = {} /\ n.qos = pcfQos
    BY <2>1 DEF Notify
  <2>4. Installed = pcfRules \ {r}
    BY <1>9 DEF SendSMPolicyUpdateNotification, RulesInv, Posted
  <2>5. \A x \in pcfRules : Agrees(x, After(n))'
    <3> SUFFICES ASSUME NEW x \in pcfRules, RefQos[x] # NoQos
                 PROVE  (IF pcfQos[RefQos[x]] # 0 THEN pcfQos[RefQos[x]]
                         ELSE QosDatas[RefQos[x]]) = pcfQos[RefQos[x]]
      BY <1>1, <1>3, <2>2, <2>3 DEF Agrees, After
    <3>1. CASE x = r
      BY <1>9, <3>1 DEF SendSMPolicyUpdateNotification, RulesInv, Posted
    <3>2. CASE x # r
      BY <1>9, <3>2 DEF SendSMPolicyUpdateNotification, RulesInv, Posted, Agrees
    <3>3. QED
      BY <3>1, <3>2
  <2>6. Leads(n)'
    BY <1>3, <2>2, <2>3, <2>4, <2>5 DEF Leads
  <2>7. QED
    BY <1>3, <2>2, <2>6 DEF RulesInv, Posted, Sending, Working, Deciding, Quiet
<1>10. ASSUME NEW r \in Rules, NEW rate \in Rates, HandleModAppSessionContext(r, rate)
       PROVE  RulesInv'
  <2>1. PICK n : n = FreshId(AfRules)
    OBVIOUS
  <2>2. n \in AfRules /\ n \notin pcfRules /\ n # r /\ r \in pcfRules \cap AfRules
    BY <1>1, <1>10, <2>1, FreshIdIn, FreshNew DEF HandleModAppSessionContext, RulesInv
  <2>3. /\ pcfQos' = [pcfQos EXCEPT ![RefQos[r]] = 0, ![RefQos[n]] = rate]
        /\ pcfRules' = (pcfRules \ {r}) \cup {n} /\ MayRequest
        /\ usedIds' = usedIds \cup {n} /\ posting' = posting
    BY <1>10, <2>1 DEF HandleModAppSessionContext
  <2>4. PICK m : m = Notify(n, "patch", pcfRules', {r}, pcfQos', {RefQos[r]} \cap Qos)
    OBVIOUS
  <2>5. net' = net \cup {m}
    BY <1>10, <2>1, <2>4 DEF HandleModAppSessionContext
  <2>6. m.inst = pcfRules' /\ m.del = {r} /\ m.qos = pcfQos'
    BY <2>4 DEF Notify
  <2>7. Installed = pcfRules
    BY <1>4, <2>3 DEF Settled
  <2>8. \A x \in pcfRules' : Agrees(x, After(m))'
    <3> SUFFICES ASSUME NEW x \in pcfRules', RefQos[x] # NoQos
                 PROVE  (IF pcfQos'[RefQos[x]] # 0 THEN pcfQos'[RefQos[x]]
                         ELSE QosDatas[RefQos[x]]) = pcfQos'[RefQos[x]]
      BY <1>1, <1>3, <2>2, <2>3, <2>6 DEF Agrees, After
    <3>1. CASE x = n
      BY <1>1, <2>2, <2>3, <3>1
    <3>2. CASE x # n
      <4>1. x \in pcfRules /\ x # r
        BY <2>2, <2>3, <3>2
      <4>2. RefQos[x] # RefQos[r] /\ RefQos[x] # RefQos[n]
        BY <1>1, <2>2, <3>2, <4>1 DEF InTurn
      <4>3. pcfQos'[RefQos[x]] = pcfQos[RefQos[x]]
        BY <1>1, <2>3, <4>1, <4>2
      <4>4. QosDatas[RefQos[x]] = pcfQos[RefQos[x]]
        BY <1>4, <2>3, <4>1 DEF Settled, Agrees
      <4>5. QED
        BY <4>3, <4>4
    <3>3. QED
      BY <3>1, <3>2
  <2>9. Leads(m)'
    BY <1>3, <2>2, <2>3, <2>6, <2>7, <2>8 DEF Leads
  <2>10. QED
    BY <1>6, <2>3, <2>5, <2>9 DEF RulesInv
<1>11. ASSUME NEW r \in pcfRules, r \in AfRules \/ RefQos[r] = NoQos,
              MayRequest, Remove(r)
       PROVE  RulesInv'
  <2>1. PICK m : m = Notify(r, "delete", {}, {r}, NoQosDecs, {})
    OBVIOUS
  <2>2. /\ net' = net \cup {m} /\ pcfRules' = pcfRules \ {r}
        /\ usedIds' = usedIds /\ posting' = posting
        /\ pcfQos' = IF RefQos[r] = NoQos THEN pcfQos
                     ELSE [pcfQos EXCEPT ![RefQos[r]] = 0]
    BY <1>11, <2>1 DEF Remove
  <2>3. m.inst = {} /\ m.del = {r} /\ m.qos = [q \in Qos |-> 0]
    BY <2>1 DEF Notify, NoQosDecs
  <2>4. \A x \in pcfRules' : Agrees(x, After(m))'
    <3> SUFFICES ASSUME NEW x \in pcfRules', RefQos[x] # NoQos
                 PROVE  QosDatas[RefQos[x]] = pcfQos'[RefQos[x]]
      BY <1>1, <1>3, <2>2, <2>3 DEF Agrees, After
    <3>1. x \in pcfRules /\ x # r
      BY <2>2
    <3>2. RefQos[r] # NoQos => RefQos[x] # RefQos[r]
      BY <1>1, <1>11, <3>1 DEF InTurn
    <3>3. pcfQos'[RefQos[x]] = pcfQos[RefQos[x]]
      BY <1>1, <2>2, <3>1, <3>2
    <3>4. QED
      BY <1>4, <1>11, <3>1, <3>3 DEF Settled, Agrees
  <2>5. Leads(m)'
    BY <1>3, <1>4, <1>11, <2>2, <2>3, <2>4 DEF Leads, Settled
  <2>6. QED
    BY <1>6, <1>11, <2>2, <2>5 DEF RulesInv
<1>12. ASSUME NEW q \in Qos, NEW rate \in Rates, UpdateQosData(q, rate)
       PROVE  RulesInv'
  <2>1. PICK m : m = Notify(0, "qos", {}, {}, [NoQosDecs EXCEPT ![q] = rate], {})
    OBVIOUS
  <2>2. /\ net' = net \cup {m} /\ pcfRules' = pcfRules /\ MayRequest
        /\ usedIds' = usedIds /\ posting' = posting
        /\ pcfQos' = [pcfQos EXCEPT ![q] = rate]
    BY <1>12, <2>1 DEF UpdateQosData
  <2>3. m.inst = {} /\ m.del = {} /\ m.qos = [k \in Qos |-> IF k = q THEN rate ELSE 0]
    BY <2>1 DEF Notify, NoQosDecs
  <2>4. \A x \in pcfRules : Agrees(x, QosDatas)
    BY <1>4, <2>2 DEF Settled
  <2>5. \A x \in pcfRules : Agrees(x, After(m))'
    <3> SUFFICES ASSUME NEW x \in pcfRules, RefQos[x] # NoQos
                 PROVE  After(m)'[RefQos[x]] = pcfQos'[RefQos[x]]
      BY DEF Agrees
    <3>1. RefQos[x] \in Qos
      BY <1>1
    <3>2. After(m)'[RefQos[x]] = IF RefQos[x] = q THEN rate ELSE QosDatas[RefQos[x]]
      BY <1>1, <1>3, <2>3, <3>1 DEF After
    <3>3. QED
      BY <1>1, <2>2, <2>4, <3>1, <3>2 DEF Agrees
  <2>6. Leads(m)'
    BY <1>3, <1>4, <2>2, <2>3, <2>5 DEF Leads, Settled
  <2>7. QED
    BY <1>6, <2>2, <2>6 DEF RulesInv
<1>13. QED
  BY <1>7, <1>8, <1>9, <1>10, <1>11, <1>12
  DEF PcfNext, HandleDeleteAppSessionContext, RemoveInfluenceData, InTurn

(* The SMF works off a notification and ends with the PCF's rules. *)
LEMMA RulesSmf ==
  ASSUME InTurn, Inv, RulesInv, SmfNext
  PROVE  RulesInv'
<1>1. /\ todo \subseteq Rules /\ pcfRules \subseteq Rules
      /\ PCCRules \in [Rules -> RuleRec] /\ finalPccRules \in [Rules -> RuleRec]
      /\ RefQos \in [Rules -> Qos \cup {NoQos}] /\ NoQos \notin Qos /\ 0 \notin PathIds
      /\ PathIds \subseteq Nat
  BY ConstantsOK DEF ConstantsOK, Inv, TypeOK
<1>2. /\ net # {} => pc = "idle" /\ posting = {}
      /\ posting # {} => pc = "idle"
  BY DEF RulesInv, Sending, Posted
<1>3. ASSUME pc # "idle", UNCHANGED <<pcfVars, net>>, Working',
             pc' = "idle" => Settled'
      PROVE  RulesInv'
  BY <1>2, <1>3 DEF RulesInv, Posted, Sending, Quiet, pcfVars
<1>4. \A r \in Rules : RefQos[r] # NoQos => TargetQos(RefQos[r]) = After(dec)[RefQos[r]]
  BY <1>1 DEF TargetQos, SourceQos, After
<1>5. \A n : UNCHANGED <<QosDatas, pcfQos>> =>
        \A x : (Agrees(x, After(n))' <=> Agrees(x, After(n)))
  BY DEF Agrees, After
<1>6. ASSUME NEW n \in net, HandleSMPolicyUpdateNotify(n) PROVE RulesInv'
  <2>1. /\ net = {n} /\ Leads(n) /\ posting = {}
    BY DEF RulesInv, Sending
  <2>2. /\ net' = {} /\ pc' = "inDecision" /\ dec' = n /\ todo' = n.inst \cup n.del
        /\ UNCHANGED <<pcfVars, PCCRules, QosDatas>>
        /\ \A r \in Rules : finalPccRules'[r] = NoRule
    BY <1>6, <2>1 DEF HandleSMPolicyUpdateNotify
  <2>3. \A x \in pcfRules : Agrees(x, After(n))'
    BY <1>5, <2>1, <2>2 DEF Leads, pcfVars
  <2>4. Working'
    BY <1>1, <2>1, <2>2, <2>3 DEF Working, Leads, Deciding, Installed, pcfVars
  <2>5. QED
    BY <2>1, <2>2, <2>4 DEF RulesInv, Posted, Sending, Quiet, pcfVars
<1>7. ASSUME NEW r \in todo, pc = "inDecision", r \in Rules,
             UNCHANGED <<pcfVars, net, pc, dec, QosDatas>>,
             todo' = todo \ {r}, PCCRules'[r] = NoRule,
             (finalPccRules'[r] # NoRule) <=> r \in dec.inst,
             \A x \in Rules : x # r => /\ PCCRules'[x] = PCCRules[x]
                                       /\ finalPccRules'[x] = finalPccRules[x],
             \A x \in Rules : finalPccRules'[x] # NoRule => Agrees(x, finalQosDatas')
      PROVE  RulesInv'
  <2>1. \A x \in pcfRules : Agrees(x, After(dec))'
    BY <1>5, <1>7 DEF RulesInv, Working, Deciding, pcfVars
  <2>2. \A x \in Rules : finalPccRules'[x] # NoRule => Agrees(x, finalQosDatas)'
    BY <1>7 DEF Agrees, pcfVars
  <2>3. \A x \in Rules : x \in pcfRules <=>
              \/ finalPccRules'[x] # NoRule
              \/ x \in todo' \cap dec.inst
              \/ PCCRules'[x] # NoRule /\ x \notin todo'
    BY <1>7 DEF RulesInv, Working
  <2>4. Working'
    BY <1>7, <2>1, <2>2, <2>3 DEF RulesInv, Working, Deciding, pcfVars
  <2>5. QED
    BY <1>3, <1>7, <2>4
<1>8. ASSUME NEW r \in todo, RemovePccRule(r) PROVE RulesInv'
  <2>1. /\ r \in Rules /\ pc = "inDecision" /\ r \in dec.del /\ r \notin dec.inst
        /\ r \notin pcfRules /\ finalPccRules[r] = NoRule
    BY <1>1, <1>8 DEF RemovePccRule, RulesInv, Working
  <2>2. \A x \in Rules : finalPccRules[x] # NoRule => Agrees(x, finalQosDatas)
    BY <2>1 DEF RulesInv, Working, Deciding
  <2>3. QED
    BY <1>1, <1>7, <1>8, <2>1, <2>2 DEF RemovePccRule
<1>9. ASSUME NEW r \in Rules, r \in pcfRules, Deciding,
             finalQosDatas' = [q \in Qos |->
               IF q = RefQos[r] THEN TargetQos(q) ELSE finalQosDatas[q]],
             \A x \in Rules : x # r => finalPccRules'[x] = finalPccRules[x]
      PROVE  \A x \in Rules : finalPccRules'[x] # NoRule => Agrees(x, finalQosDatas')
  <2> SUFFICES ASSUME NEW x \in Rules, finalPccRules'[x] # NoRule, RefQos[x] # NoQos
               PROVE  finalQosDatas'[RefQos[x]] = pcfQos[RefQos[x]]
    BY DEF Agrees
  <2>1. CASE RefQos[x] = RefQos[r]
    <3>1. finalQosDatas'[RefQos[x]] = TargetQos(RefQos[r])
      BY <1>1, <1>9, <2>1
    <3>2. TargetQos(RefQos[r]) = pcfQos[RefQos[r]]
      BY <1>4, <1>9, <2>1 DEF RulesInv, Working, Agrees
    <3>3. QED
      BY <2>1, <3>1, <3>2
  <2>2. CASE RefQos[x] # RefQos[r]
    <3>1. finalPccRules[x] # NoRule
      BY <1>9, <2>2
    <3>2. finalQosDatas[RefQos[x]] = pcfQos[RefQos[x]]
      BY <1>9, <3>1 DEF RulesInv, Working, Agrees
    <3>3. QED
      BY <1>1, <1>9, <2>2, <3>2
  <2>3. QED
    BY <2>1, <2>2
<1>10. ASSUME NEW r \in todo, InstallPccRule(r) PROVE RulesInv'
  <2>1. PICK p : p = Min(FreshPaths(ctx))
    OBVIOUS
  <2>2. /\ r \in Rules /\ pc = "inDecision" /\ r \in dec.inst /\ r \in pcfRules
        /\ p # 0 /\ Deciding
    BY <1>1, <1>10, <2>1, FreshPathNew DEF InstallPccRule, RulesInv, Working, Deciding
  <2>3. /\ PCCRules'[r] = NoRule /\ finalPccRules'[r].path = p
        /\ \A x \in Rules : x # r => /\ PCCRules'[x] = PCCRules[x]
                                     /\ finalPccRules'[x] = finalPccRules[x]
    BY <1>10, <2>1, <2>2, InstallMaps
  <2>4. finalPccRules'[r] # NoRule
    BY <2>2, <2>3 DEF NoRule
  <2>5. finalQosDatas' = [q \in Qos |->
               IF q = RefQos[r] THEN TargetQos(q) ELSE finalQosDatas[q]]
    BY <1>10 DEF InstallPccRule
  <2>6. \A x \in Rules : finalPccRules'[x] # NoRule => Agrees(x, finalQosDatas')
    BY <1>9, <2>2, <2>3, <2>5
  <2>7. QED
    BY <1>7, <1>10, <2>2, <2>3, <2>4, <2>6 DEF InstallPccRule
<1>11. ASSUME NEW r \in todo, pc = "notInDecision", NEW rule,
              Keep(r, rule), rule # NoRule
       PROVE  RulesInv'
  <2>1. /\ UNCHANGED <<pcfVars, net, pc, dec, PCCRules, QosDatas>>
        /\ todo' = todo \ {r} /\ r \in Rules /\ r \in pcfRules /\ Deciding
        /\ finalPccRules'[r] = rule
        /\ \A x \in Rules : x # r => finalPccRules'[x] = finalPccRules[x]
    BY <1>1, <1>11 DEF Keep, RulesInv, Working, Deciding
  <2>2. \A x \in Rules : finalPccRules'[x] # NoRule => Agrees(x, finalQosDatas)'
    BY <1>9, <1>11, <2>1 DEF Keep, Agrees, pcfVars
  <2>3. \A x \in pcfRules : Agrees(x, After(dec))'
    BY <1>5, <2>1 DEF RulesInv, Working, pcfVars
  <2>4. \A x \in Rules : x \in pcfRules <=> finalPccRules'[x] # NoRule \/ x \in todo'
    BY <1>11, <2>1 DEF RulesInv, Working
  <2>5. Working'
    BY <1>11, <2>1, <2>2, <2>3, <2>4 DEF RulesInv, Working, Deciding, pcfVars
  <2>6. QED
    BY <1>3, <1>11, <2>1, <2>5
<1>12. ASSUME NEW r \in todo, KeepPccRule(r) PROVE RulesInv'
  <2>1. PCCRules[r] # NoRule
    BY <1>12 DEF KeepPccRule, RulesInv, Working
  <2>2. QED
    BY <1>11, <1>12, <2>1 DEF KeepPccRule
<1>13. ASSUME NEW r \in todo, ChangePccRule(r) PROVE RulesInv'
  <2>1. PICK p : p = Min(FreshPaths(ctx))
    OBVIOUS
  <2>2. p # 0
    BY <1>1, <1>13, <2>1, FreshPathNew DEF ChangePccRule
  <2>3. [PCCRules[r] EXCEPT !.path = p].path = p
    BY <1>1 DEF RuleRec
  <2>4. [PCCRules[r] EXCEPT !.path = p] # NoRule
    BY <2>2, <2>3 DEF NoRule
  <2>5. Keep(r, [PCCRules[r] EXCEPT !.path = p])
    BY <1>13, <2>1 DEF ChangePccRule
  <2>6. QED
    BY <1>11, <1>13, <2>4, <2>5 DEF ChangePccRule
<1>14. ASSUME EndInDecision PROVE RulesInv'
  <2>1. /\ pc = "inDecision" /\ todo = {} /\ pc' = "notInDecision"
        /\ UNCHANGED <<pcfVars, net, dec, ruleVars>>
        /\ todo' = {r \in Rules : PCCRules[r] # NoRule}
    BY <1>14 DEF EndInDecision
  <2>2. \A x \in Rules : x \in pcfRules <=> finalPccRules[x] # NoRule \/ x \in todo'
    BY <2>1 DEF RulesInv, Working
  <2>3. /\ \A x \in pcfRules : Agrees(x, After(dec))
        /\ \A x \in Rules : finalPccRules[x] # NoRule => Agrees(x, finalQosDatas)
    BY <2>1 DEF RulesInv, Working, Deciding
  <2>4. /\ \A x \in pcfRules : Agrees(x, After(dec))'
        /\ \A x \in Rules : finalPccRules[x] # NoRule => Agrees(x, finalQosDatas)'
    BY <1>5, <2>1, <2>3 DEF ruleVars, pcfVars, Agrees
  <2>5. Working'
    BY <2>1, <2>2, <2>4 DEF Working, ruleVars, pcfVars
  <2>6. QED
    BY <1>3, <2>1, <2>5
<1>15. ASSUME EndApplyPccRules PROVE RulesInv'
  <2>1. /\ pc = "notInDecision" /\ todo = {} /\ pc' = "activate"
        /\ UNCHANGED <<pcfVars, net>>
        /\ PCCRules' = finalPccRules /\ QosDatas' = finalQosDatas
    BY <1>15 DEF EndApplyPccRules
  <2>2. \A x \in Rules : x \in pcfRules <=> PCCRules'[x] # NoRule
    BY <2>1 DEF RulesInv, Working
  <2>3. \A x \in pcfRules : Agrees(x, QosDatas')
    BY <1>1, <2>1, <2>2 DEF RulesInv, Working, Deciding
  <2>4. Settled'
    BY <1>1, <2>1, <2>2, <2>3 DEF Settled, Installed, Agrees, pcfVars
  <2>5. QED
    BY <1>3, <2>1, <2>4 DEF Working, Deciding
<1>16. ASSUME pc \in {"activate", "postRemove"}, pc' \in {"postRemove", "idle"},
              UNCHANGED <<pcfVars, net, dec, todo, ruleVars>>
       PROVE  RulesInv'
  <2>1. Settled
    BY <1>16 DEF RulesInv, Working
  <2>2. Settled'
    BY <1>16, <2>1 DEF Settled, Installed, Agrees, pcfVars, ruleVars
  <2>3. QED
    BY <1>3, <1>16, <2>2 DEF Working, Deciding
<1>17. \A r : ~InstallPccRuleFails(r)
  BY DEF InTurn, InstallPccRuleFails
<1>18. QED
  BY <1>6, <1>8, <1>10, <1>12, <1>13, <1>14, <1>15, <1>16, <1>17
  DEF SmfNext, ActivateUPFSession, ModificationFails, EndNotification

(* The first decision is what the SMF starts with. *)
LEMMA RulesInit == Init => RulesInv
<1> SUFFICES ASSUME Init PROVE RulesInv
  OBVIOUS
<1>1. dec.inst = InitRules /\ dec.del = {} /\ dec.qos = InitQos
  BY DEF Init, Notify
<1>2. \A x \in pcfRules : Agrees(x, After(dec))
  <2> SUFFICES ASSUME NEW x \in InitRules, RefQos[x] # NoQos
               PROVE  After(dec)[RefQos[x]] = InitQos[RefQos[x]]
    BY DEF Agrees, Init
  <2>1. RefQos[x] \in Qos
    BY ConstantsOK DEF ConstantsOK, Rules
  <2>2. QED
    BY <1>1, <2>1 DEF Init, After, NoQosDecs
<1>3. QED
  BY <1>1, <1>2 DEF Init, RulesInv, Posted, Sending, Working, Deciding, Quiet, Rules

(* When requests wait for each other and nothing is on its way, the SMF has
   installed the rules of the PCF's decision with its rates, even if the PFCP
   requests of the SMF are lost: a notification names the rules it needs to. *)
THEOREM RulesConvergeHolds ==
  ASSUME InTurn
  PROVE  Spec => []RulesConverge
<1>1. Inv /\ RulesInv /\ [Next]_vars => RulesInv'
  <2>1. ASSUME RulesInv, UNCHANGED vars PROVE RulesInv'
    BY <2>1 DEF RulesInv, Posted, Sending, Working, Leads, Agrees, After, Settled,
       Installed, Deciding, Quiet, vars, pcfVars, ruleVars
  <2>2. QED
    BY <2>1, RulesPcf, RulesSmf DEF Next, Rest
<1>2. RulesInv => RulesConverge
  BY DEF RulesInv, Settled, Agrees, RulesConverge
<1>3. QED
  BY <1>1, <1>2, RulesInit, InvAlways, PTL DEF Spec

-----------------------------------------------------------------------------
(* The UPF holds what the data paths of the SMF say.                         *)

\* QERs that a path that stays holds, and those of the paths to be removed
Kept(c) == UNION {c.pool[p].qers : p \in Stays(c)}
Going(c) == UNION {c.pool[p].qers : p \in c.doomed}

\* Every QER of a path is in the pool; two QERs of the pool have two QFIs, by
\* which QerUpfMap finds all but the AMBR QER; exactly the QERs that no path
\* keeps are marked.
Tidy(c) ==
    /\ \A k \in PathIds : c.pool[k].pdr = "none" => c.pool[k].qers = {}
    /\ \A d \in Held(c) : c.qer[d].pooled /\ c.qer[d].rate # 0
    /\ \A d \in QerIds : c.qer[d].pooled => d = c.ambr \/ d \in Held(c)
    /\ \A d \in Held(c) : c.qer[d].state = "REMOVE" <=> d \notin Kept(c)
    /\ \A d \in QerIds : c.qer[d].pooled /\ d # c.ambr => c.qerUpfMap[c.qer[d].qfi] = d
    /\ c.ambr # 0 => c.qer[c.ambr].qfi = 1
    /\ c.qerUpfMap[0] = 0 /\ c.qerUpfMap[1] = 0

\* What the UPF u holds is what the states of PDRs and QERs say, before the
\* next request is built: INITIAL is not yet there, the rest is.
Unsent(c, u) ==
    /\ \A k \in PathIds : k \in u.pdrs <=> c.pool[k].pdr \in {"CREATE", "REMOVE"}
    /\ \A k \in PathIds : k \in c.doomed <=> c.pool[k].pdr = "REMOVE"
    /\ \A k \in PathIds : k \in u.pdrs =>
          /\ u.refs[k] = c.pool[k].qers
          /\ \A d \in c.pool[k].qers : c.qer[d].state # "INITIAL"
    /\ \A d \in QerIds : u.qer[d] # 0 <=> d \in Held(c) /\ c.qer[d].state # "INITIAL"
    /\ \A d \in QerIds : u.qer[d] # 0 => u.qer[d] = c.qer[d].rate
    /\ c.ambr # 0 => c.ambr \in Held(c) \/ c.qer[c.ambr].state = "INITIAL"

\* ... and after it: the UPF holds the paths that stay.
Served(c, u) ==
    /\ c.doomed \subseteq Pool(c)
    /\ \A k \in Pool(c) : c.pool[k].pdr = "CREATE"
    /\ u.pdrs = Stays(c)
    /\ \A k \in PathIds : k \in u.pdrs => u.refs[k] = c.pool[k].qers
    /\ \A d \in Held(c) : c.qer[d].state # "INITIAL"
    /\ \A d \in QerIds : u.qer[d] # 0 <=> d \in Kept(c)
    /\ \A d \in QerIds : u.qer[d] # 0 => u.qer[d] = c.qer[d].rate

\* By the QFIs g of the QoS data, a QER belongs to the datum of its path's rule.
Private(c, g) ==
    \A k \in PathIds : \A d \in c.pool[k].qers \ {c.ambr} :
        /\ c.pool[k].rule \in Rules
        /\ RefQos[c.pool[k].rule] \in Qos
        /\ \A q \in Qos : g[q] = c.qer[d].qfi => q = RefQos[c.pool[k].rule]

(* The QERs of paths are QER ids, and none is 0. *)
LEMMA HeldIds ==
  ASSUME NEW c, Good(c)
  PROVE  /\ Held(c) \subseteq QerIds /\ 0 \notin QerIds
         /\ \A k \in PathIds : c.pool[k].qers \subseteq Held(c)
         /\ Kept(c) \subseteq Held(c)
<1>1. \A k \in PathIds : c.pool[k].qers \subseteq QerIds
  BY DEF Good, CtxRec, PathRec
<1>2. Stays(c) \subseteq PathIds
  BY DEF Stays, Pool
<1>3. QED
  BY <1>1, <1>2, ConstantsOK DEF Held, Kept, ConstantsOK

(* In a tidy context a QFI is that of one QER. *)
LEMMA OneQer ==
  ASSUME NEW c, Good(c), Tidy(c), NEW d \in Held(c), NEW e \in Held(c),
         c.qer[d].qfi = c.qer[e].qfi
  PROVE  d = e
<1>1. d \in QerIds /\ e \in QerIds /\ d # 0 /\ e # 0
  BY HeldIds
<1>2. c.qer[d].pooled /\ c.qer[e].pooled
  BY DEF Tidy
<1>3. CASE d # c.ambr /\ e # c.ambr
  BY <1>1, <1>2, <1>3 DEF Tidy
<1>4. CASE d = c.ambr /\ e # c.ambr
  BY <1>1, <1>2, <1>4 DEF Tidy
<1>5. CASE d # c.ambr /\ e = c.ambr
  BY <1>1, <1>2, <1>5 DEF Tidy
<1>6. QED
  BY <1>3, <1>4, <1>5

(* The QFI of a QER other than the AMBR one is neither 0 nor 1. *)
LEMMA QerNumber ==
  ASSUME NEW c, Good(c), Tidy(c), NEW d \in Held(c), d # c.ambr
  PROVE  /\ c.qerUpfMap[c.qer[d].qfi] = d /\ d # 0
         /\ c.qer[d].qfi \in QFIs /\ c.qer[d].qfi # 0 /\ c.qer[d].qfi # 1
<1>1. d \in QerIds /\ d # 0 /\ c.qer[d].pooled
  BY HeldIds DEF Tidy
<1>2. c.qer[d] \in QerRec
  BY <1>1 DEF Good, CtxRec
<1>3. QED
  BY <1>1, <1>2 DEF Tidy, QerRec

(* A path that is none of the pool. *)
LEMMA NewPath ==
  ASSUME NEW c, Good(c), Tidy(c), NEW u, Unsent(c, u), NEW p \in PathIds \ Pool(c)
  PROVE  p \notin u.pdrs /\ p \notin c.doomed /\ c.pool[p].qers = {}
<1>1. c.pool[p].pdr = "none"
  BY DEF Pool
<1>2. QED
  BY <1>1 DEF Unsent, Tidy

(* The AMBR QER is a fresh one or the one there was; no other QER changes. *)
LEMMA ActivateQers ==
  ASSUME NEW c, Good(c), FreshQers(c) # {}, NEW p \in PathIds,
         NEW r \in Rules \cup {0}, NEW default \in BOOLEAN, NEW gbr \in BOOLEAN,
         NEW b, b = ActivateTunnelAndPDR(c, p, r, default, gbr)
  PROVE  /\ c.ambr = 0 => b.ambr \in FreshQers(c)
         /\ \A d \in QerIds : c.ambr # 0 \/ d # b.ambr => b.qer[d] = c.qer[d]
<1> DEFINE a == AmbrQer(c)
<1>1. /\ a \in CtxRec /\ a.ambr \in QerIds
      /\ \A d \in QerIds : d # a.ambr => a.qer[d] = c.qer[d]
  BY AmbrQerGood DEF Good
<1>2. c.ambr # 0 => a = c
  BY AmbrQerEffect
<1>3. c.ambr = 0 => a.ambr \in FreshQers(c)
  <2>1. Min(FreshQers(c)) \in FreshQers(c)
    <3>1. FreshQers(c) \subseteq Nat
      BY ConstantsOK DEF ConstantsOK, FreshQers
    <3>2. QED
      BY <3>1, MinIn
  <2>2. c.ambr = 0 => a.ambr = Min(FreshQers(c))
    BY DEF AmbrQer, Good, CtxRec
  <2>3. QED
    BY <2>1, <2>2
<1> HIDE DEF a
<1>4. b.qer = a.qer /\ b.ambr = a.ambr
  BY <1>1 DEF ActivateTunnelAndPDR, CtxRec, a
<1>5. QED
  BY <1>1, <1>2, <1>3, <1>4

(* A path activated keeps the context tidy and the UPF in step. *)
LEMMA ActivateTidy ==
  ASSUME NEW c, Good(c), FreshQers(c) # {}, NEW p \in PathIds \ Pool(c),
         NEW r \in Rules \cup {0}, NEW default \in BOOLEAN, NEW gbr \in BOOLEAN,
         NEW b, b = ActivateTunnelAndPDR(c, p, r, default, gbr),
         AmbrFine(c), Tidy(c), Unsent(c, upf), NEW g, Private(c, g)
  PROVE  /\ Tidy(b) /\ Unsent(b, upf) /\ Private(b, g) /\ AmbrFine(b)
         /\ b.pool[p].qers \subseteq {b.ambr}
         /\ Held(b) = Held(c) \cup b.pool[p].qers
         /\ Kept(b) = Kept(c) \cup b.pool[p].qers
         /\ \A d \in Held(c) : b.qer[d] = c.qer[d]
<1> DEFINE Q == b.pool[p].qers
<1>1. Good(b)
  BY ActivateGood
<1>2. Activated(c, b, p, r, default, gbr)
  BY ActivateEffect
<1>3. /\ c.ambr = 0 => b.ambr \in FreshQers(c)
      /\ \A d \in QerIds : c.ambr # 0 \/ d # b.ambr => b.qer[d] = c.qer[d]
  BY ActivateQers
<1>4. /\ b.doomed = c.doomed /\ b.qerUpfMap = c.qerUpfMap /\ b.ambr \in QerIds
      /\ \A k \in PathIds : k # p => b.pool[k] = c.pool[k]
      /\ b.pool[p].pdr = "INITIAL"
      /\ c.ambr # 0 => b.ambr = c.ambr
      /\ c.ambr = 0 => b.qer[b.ambr] = NewQer(1, AmbrRate)
      /\ Q = IF b.qer[b.ambr].pooled /\ ~gbr THEN {b.ambr} ELSE {}
  BY <1>2 DEF Activated
<1>5. Q \subseteq {b.ambr} /\ (Q # {} => b.qer[b.ambr].pooled)
  BY <1>4
<1> HIDE DEF Q
<1>6. p \notin upf.pdrs /\ p \notin c.doomed /\ c.pool[p].qers = {}
  BY NewPath
<1>7. /\ Held(c) \subseteq QerIds /\ 0 \notin QerIds /\ Kept(c) \subseteq Held(c)
      /\ \A k \in PathIds : c.pool[k].qers \subseteq Held(c)
  BY HeldIds
<1>8. Held(b) = Held(c) \cup Q
  BY <1>4, <1>6 DEF Held, Q
<1>9. Stays(b) = Stays(c) \cup {p} /\ p \notin Stays(c)
  BY <1>4, <1>6 DEF Stays, Pool
<1>10. Kept(b) = Kept(c) \cup Q
  <2>1. Stays(c) \subseteq PathIds
    BY DEF Stays, Pool
  <2>2. QED
    BY <1>4, <1>9, <2>1 DEF Kept, Q
<1>11. ASSUME NEW d \in Held(c) PROVE b.qer[d] = c.qer[d]
  BY <1>3, <1>7 DEF FreshQers
<1>12. AmbrFine(b)
  <2>1. CASE c.ambr = 0
    BY <1>4, <2>1 DEF AmbrFine, NewQer
  <2>2. CASE c.ambr # 0
    BY <1>3, <1>4, <2>2 DEF AmbrFine
  <2>3. QED
    BY <2>1, <2>2
<1>13. b.qer[b.ambr].qfi = 1
  <2>1. CASE c.ambr = 0
    BY <1>4, <2>1 DEF NewQer
  <2>2. CASE c.ambr # 0
    BY <1>3, <1>4, <2>2 DEF Tidy
  <2>3. QED
    BY <2>1, <2>2
<1>14. b.ambr # 0 /\ b.qer[b.ambr].rate = AmbrRate /\ b.qer[b.ambr].state # "REMOVE"
  BY <1>4, <1>7, <1>12 DEF AmbrFine
<1>15. Tidy(b)
  <2>1. \A k \in PathIds : b.pool[k].pdr = "none" => b.pool[k].qers = {}
    BY <1>4 DEF Tidy
  <2>2. ASSUME NEW d \in Held(b) PROVE b.qer[d].pooled /\ b.qer[d].rate # 0
    <3>1. CASE d \in Held(c)
      BY <1>11, <3>1 DEF Tidy
    <3>2. CASE d \in Q
      BY <1>5, <1>14, <3>2, ConstantsOK DEF ConstantsOK
    <3>3. QED
      BY <1>8, <3>1, <3>2
  <2>3. ASSUME NEW d \in QerIds, b.qer[d].pooled PROVE d = b.ambr \/ d \in Held(b)
    BY <1>3, <1>4, <1>7, <1>8, <2>3 DEF Tidy
  <2>4. ASSUME NEW d \in Held(b) PROVE b.qer[d].state = "REMOVE" <=> d \notin Kept(b)
    <3>1. CASE d \in Q
      BY <1>5, <1>10, <1>14, <3>1
    <3>2. CASE d \notin Q
      <4>1. d \in Held(c) /\ (d \in Kept(b) <=> d \in Kept(c))
        BY <1>8, <1>10, <3>2
      <4>2. QED
        BY <1>11, <4>1 DEF Tidy
    <3>3. QED
      BY <3>1, <3>2
  <2>5. ASSUME NEW d \in QerIds, b.qer[d].pooled, d # b.ambr
        PROVE  b.qerUpfMap[b.qer[d].qfi] = d
    BY <1>3, <1>4, <1>7, <2>5 DEF Tidy
  <2>6. b.qerUpfMap[0] = 0 /\ b.qerUpfMap[1] = 0
    BY <1>4 DEF Tidy
  <2>7. QED
    BY <1>13, <2>1, <2>2, <2>3, <2>4, <2>5, <2>6 DEF Tidy
<1>16. Unsent(b, upf)
  <2>1. \A k \in PathIds : k \in upf.pdrs <=> b.pool[k].pdr \in {"CREATE", "REMOVE"}
    BY <1>4, <1>6 DEF Unsent
  <2>2. \A k \in PathIds : k \in b.doomed <=> b.pool[k].pdr = "REMOVE"
    BY <1>4, <1>6 DEF Unsent
  <2>3. \A k \in PathIds : k \in upf.pdrs => upf.refs[k] = b.pool[k].qers
    BY <1>4, <1>6 DEF Unsent
  <2>4. \A k \in PathIds : k \in upf.pdrs => \A d \in b.pool[k].qers : b.qer[d].state # "INITIAL"
    <3> SUFFICES ASSUME NEW k \in upf.pdrs, k \in PathIds, NEW d \in b.pool[k].qers
                 PROVE  b.qer[d].state # "INITIAL"
      OBVIOUS
    <3>1. b.pool[k] = c.pool[k] /\ d \in Held(c)
      BY <1>4, <1>6, <1>7
    <3>2. QED
      BY <1>11, <3>1 DEF Unsent
  <2>5. ASSUME NEW d \in QerIds
        PROVE  upf.qer[d] # 0 <=> d \in Held(b) /\ b.qer[d].state # "INITIAL"
    <3>1. CASE d \in Held(c)
      BY <1>8, <1>11, <3>1 DEF Unsent
    <3>2. CASE d \notin Held(c) /\ d \notin Q
      BY <1>8, <3>2 DEF Unsent
    <3>3. CASE d \notin Held(c) /\ d \in Q
      <4>1. d = b.ambr /\ upf.qer[d] = 0
        BY <1>5, <3>3 DEF Unsent
      <4>2. b.qer[d].state = "INITIAL"
        <5>1. CASE c.ambr = 0
          BY <1>4, <4>1, <5>1 DEF NewQer
        <5>2. CASE c.ambr # 0
          BY <1>3, <1>4, <3>3, <4>1, <5>2 DEF Unsent
        <5>3. QED
          BY <5>1, <5>2
      <4>3. QED
        BY <4>1, <4>2
    <3>4. QED
      BY <3>1, <3>2, <3>3
  <2>6. ASSUME NEW d \in QerIds, upf.qer[d] # 0 PROVE upf.qer[d] = b.qer[d].rate
    BY <1>11, <2>6 DEF Unsent
  <2>7. b.ambr \in Held(b) \/ b.qer[b.ambr].state = "INITIAL"
    <3>1. CASE c.ambr = 0
      BY <1>4, <3>1 DEF NewQer
    <3>2. CASE c.ambr # 0
      BY <1>3, <1>4, <1>8, <3>2 DEF Unsent
    <3>3. QED
      BY <3>1, <3>2
  <2>8. QED
    BY <2>1, <2>2, <2>3, <2>4, <2>5, <2>6, <2>7 DEF Unsent
<1>17. Private(b, g)
  <2> SUFFICES ASSUME NEW k \in PathIds, NEW d \in b.pool[k].qers \ {b.ambr}
               PROVE  /\ b.pool[k].rule \in Rules
                      /\ RefQos[b.pool[k].rule] \in Qos
                      /\ \A q \in Qos : g[q] = b.qer[d].qfi => q = RefQos[b.pool[k].rule]
    BY DEF Private
  <2>1. k # p
    BY <1>5 DEF Q
  <2>2. b.pool[k] = c.pool[k] /\ d \in Held(c) /\ d # c.ambr
    BY <1>4, <1>7, <2>1
  <2>3. QED
    BY <1>11, <2>2 DEF Private
<1>18. QED
  BY <1>5, <1>8, <1>10, <1>11, <1>12, <1>15, <1>16, <1>17 DEF Q

(* These properties look at paths, QERs and maps only. *)
LEMMA SameTidy ==
  ASSUME NEW c, NEW b, b.pool = c.pool, b.qer = c.qer, b.doomed = c.doomed,
         b.ambr = c.ambr, b.qerUpfMap = c.qerUpfMap
  PROVE  /\ Held(b) = Held(c) /\ Kept(b) = Kept(c) /\ Stays(b) = Stays(c)
         /\ Tidy(c) => Tidy(b)
         /\ \A u : Unsent(c, u) => Unsent(b, u)
         /\ \A g : Private(c, g) => Private(b, g)
         /\ AmbrFine(c) => AmbrFine(b)
<1>1. Held(b) = Held(c) /\ Kept(b) = Kept(c) /\ Stays(b) = Stays(c)
  BY DEF Held, Kept, Stays, Pool
<1>2. QED
  BY <1>1 DEF Tidy, Unsent, Private, AmbrFine

(* AddQoS gives a new path a fresh QER or the one its QFI leads to, which a
   path that stays must hold. *)
LEMMA AddQoSTidy ==
  ASSUME NEW c, Good(c), FreshQers(c) # {}, NEW p \in Stays(c),
         c.pool[p].pdr = "INITIAL", c.pool[p].qers \subseteq {c.ambr},
         c.pool[p].rule \in Rules, NEW q \in Qos, RefQos[c.pool[p].rule] = q,
         NEW g, NEW qfi \in QFIs, qfi # 0, qfi # 1, \A x \in Qos : g[x] = qfi => x = q,
         NEW rate \in Nat,
         rate # 0 /\ c.qerUpfMap[qfi] # 0 => c.qerUpfMap[qfi] \in Kept(c),
         c.ambr # 0, AmbrFine(c), Tidy(c), Unsent(c, upf), Private(c, g),
         NEW b, b = AddQoS(c, p, qfi, rate)
  PROVE  /\ Tidy(b) /\ Unsent(b, upf) /\ Private(b, g)
         /\ rate # 0 => /\ b.qerUpfMap[qfi] \in b.pool[p].qers \ {b.ambr}
                        /\ b.qer[b.qerUpfMap[qfi]].rate = rate
                              \/ b.qerUpfMap[qfi] \in Held(c)
         /\ b.pool[p].qers \subseteq {b.ambr, b.qerUpfMap[qfi]}
         /\ rate = 0 => b = c
         /\ \A f \in QFIs : f # qfi => b.qerUpfMap[f] = c.qerUpfMap[f]
         /\ Held(b) = Held(c) \cup b.pool[p].qers
         /\ Kept(b) = Kept(c) \cup b.pool[p].qers
         /\ \A d \in Held(c) : b.qer[d] = c.qer[d]
<1> DEFINE known == c.qerUpfMap[qfi]
           d == Min(FreshQers(c))
           n == NewQer(qfi, rate)
<1>1. /\ Held(c) \subseteq QerIds /\ 0 \notin QerIds /\ Kept(c) \subseteq Held(c)
      /\ \A k \in PathIds : c.pool[k].qers \subseteq Held(c)
      /\ p \in PathIds /\ p \in Pool(c) /\ c.pool[p].qers \subseteq Kept(c)
  BY HeldIds DEF Stays, Pool, Kept
<1>2. c.pool[p] \in PathRec /\ c.pool \in [PathIds -> PathRec]
      /\ c.qer \in [QerIds -> QerRec] /\ c.qerUpfMap \in [QFIs -> QerIds \cup {0}]
  BY <1>1 DEF Good, CtxRec
<1>3. p \notin upf.pdrs /\ p \notin c.doomed
  BY <1>1 DEF Unsent
<1>4. CASE rate = 0
  <2>1. b = c
    BY <1>4 DEF AddQoS
  <2>2. c.pool[p].qers \subseteq {c.ambr, c.qerUpfMap[qfi]}
    OBVIOUS
  <2>3. QED
    BY <1>1, <1>4, <2>1, <2>2
<1>5. CASE rate # 0 /\ known = 0
  <2>1. d \in FreshQers(c)
    <3>1. FreshQers(c) \subseteq Nat
      BY ConstantsOK DEF ConstantsOK, FreshQers
    <3>2. QED
      BY <3>1, MinIn
  <2>2. d \in QerIds /\ ~c.qer[d].pooled /\ d \notin Held(c) /\ upf.qer[d] = 0
    BY <2>1 DEF FreshQers
  <2>3. b = [c EXCEPT !.qer[d] = n, !.qerUpfMap[qfi] = d,
                      !.pool[p].qers = @ \cup {d}]
    BY <1>5 DEF AddQoS
  <2>4. d # c.ambr
    BY <2>2 DEF AmbrFine
  <2> DEFINE l == [c.pool EXCEPT ![p].qers = @ \cup {d}]
             m == [c.qer EXCEPT ![d] = n]
             w == [c.qerUpfMap EXCEPT ![qfi] = d]
  <2>5. n.qfi = qfi /\ n.rate = rate /\ n.state = "INITIAL" /\ n.pooled
    BY DEF NewQer
  <2> HIDE DEF d, n
  <2>6. b.pool = l /\ b.qer = m /\ b.doomed = c.doomed /\ b.ambr = c.ambr
        /\ b.qerUpfMap = w
    BY <2>3 DEF Good, CtxRec
  <2>7. l[p] = [c.pool[p] EXCEPT !.qers = @ \cup {d}]
        /\ \A k \in PathIds : k # p => l[k] = c.pool[k]
    BY <1>1, <1>2
  <2>8. /\ b.pool[p].qers = c.pool[p].qers \cup {d} /\ b.pool[p].pdr = "INITIAL"
        /\ b.pool[p].rule = c.pool[p].rule
        /\ \A k \in PathIds : k # p => b.pool[k] = c.pool[k]
    BY <1>2, <2>6, <2>7 DEF PathRec
  <2>9. /\ b.qer[d] = n /\ \A e \in QerIds : e # d => b.qer[e] = c.qer[e]
        /\ b.qerUpfMap[qfi] = d
        /\ \A f \in QFIs : f # qfi => b.qerUpfMap[f] = c.qerUpfMap[f]
    BY <1>2, <2>2, <2>6
  <2> HIDE DEF l, m, w
  <2>10. Held(b) = Held(c) \cup {d}
    BY <1>1, <2>8 DEF Held
  <2>11. Stays(b) = Stays(c)
    BY <2>6, <2>8, <1>1 DEF Stays, Pool
  <2>12. Kept(b) = Kept(c) \cup {d}
    <3>1. Stays(c) \subseteq PathIds
      BY DEF Stays, Pool
    <3>2. QED
      BY <1>1, <2>8, <2>11, <3>1 DEF Kept
  <2>13. \A e \in Held(c) : b.qer[e] = c.qer[e]
    BY <1>1, <2>2, <2>9
  <2>14. Tidy(b)
    <3>1. \A k \in PathIds : b.pool[k].pdr = "none" => b.pool[k].qers = {}
      BY <2>8 DEF Tidy
    <3>2. \A e \in Held(b) : b.qer[e].pooled /\ b.qer[e].rate # 0
      BY <1>5, <2>5, <2>9, <2>10, <2>13 DEF Tidy
    <3>3. \A e \in QerIds : b.qer[e].pooled => e = b.ambr \/ e \in Held(b)
      BY <2>6, <2>9, <2>10 DEF Tidy
    <3>4. ASSUME NEW e \in Held(b) PROVE b.qer[e].state = "REMOVE" <=> e \notin Kept(b)
      <4>1. CASE e = d
        BY <2>5, <2>9, <2>12, <4>1
      <4>2. CASE e # d
        BY <2>10, <2>12, <2>13, <4>2 DEF Tidy
      <4>3. QED
        BY <4>1, <4>2
    <3>5. ASSUME NEW e \in QerIds, b.qer[e].pooled, e # b.ambr
          PROVE  b.qerUpfMap[b.qer[e].qfi] = e
      <4>1. CASE e = d
        BY <2>5, <2>9, <4>1
      <4>2. CASE e # d
        <5>1. c.qer[e].pooled /\ e # c.ambr /\ b.qer[e] = c.qer[e]
          BY <2>6, <2>9, <3>5, <4>2
        <5>2. c.qerUpfMap[c.qer[e].qfi] = e /\ c.qer[e].qfi \in QFIs /\ e # 0
          BY <1>1, <1>2, <5>1 DEF Tidy, QerRec
        <5>3. QED
          BY <1>5, <2>9, <5>1, <5>2
      <4>3. QED
        BY <4>1, <4>2
    <3>6. b.ambr # 0 => b.qer[b.ambr].qfi = 1
      <4>1. c.ambr \in QerIds
        BY DEF Good, CtxRec
      <4>2. QED
        BY <2>4, <2>6, <2>9, <4>1 DEF Tidy
    <3>7. b.qerUpfMap[0] = 0 /\ b.qerUpfMap[1] = 0
      BY <2>9, OneQFI DEF Tidy
    <3>8. QED
      BY <3>1, <3>2, <3>3, <3>4, <3>5, <3>6, <3>7 DEF Tidy
  <2>15. Unsent(b, upf)
    <3>1. \A k \in PathIds : k \in upf.pdrs <=> b.pool[k].pdr \in {"CREATE", "REMOVE"}
      BY <1>3, <2>8 DEF Unsent
    <3>2. \A k \in PathIds : k \in b.doomed <=> b.pool[k].pdr = "REMOVE"
      BY <1>3, <2>6, <2>8 DEF Unsent
    <3>3. ASSUME NEW k \in PathIds, k \in upf.pdrs
          PROVE  /\ upf.refs[k] = b.pool[k].qers
                 /\ \A e \in b.pool[k].qers : b.qer[e].state # "INITIAL"
      <4>1. b.pool[k] = c.pool[k] /\ c.pool[k].qers \subseteq Held(c)
        BY <1>1, <1>3, <2>8, <3>3
      <4>2. QED
        BY <2>13, <3>3, <4>1 DEF Unsent
    <3>4. ASSUME NEW e \in QerIds
          PROVE  upf.qer[e] # 0 <=> e \in Held(b) /\ b.qer[e].state # "INITIAL"
      <4>1. CASE e = d
        BY <2>2, <2>5, <2>9, <4>1
      <4>2. CASE e # d
        BY <2>9, <2>10, <4>2 DEF Unsent
      <4>3. QED
        BY <4>1, <4>2
    <3>5. \A e \in QerIds : upf.qer[e] # 0 => upf.qer[e] = b.qer[e].rate
      BY <2>2, <2>9 DEF Unsent
    <3>6. b.ambr \in Held(b) \/ b.qer[b.ambr].state = "INITIAL"
      <4>1. c.ambr \in QerIds
        BY DEF Good, CtxRec
      <4>2. QED
        BY <2>4, <2>6, <2>9, <2>10, <4>1 DEF Unsent
    <3>7. QED
      BY <3>1, <3>2, <3>3, <3>4, <3>5, <3>6 DEF Unsent
  <2>16. Private(b, g)
    <3> SUFFICES ASSUME NEW k \in PathIds, NEW e \in b.pool[k].qers \ {b.ambr}
                 PROVE  /\ b.pool[k].rule \in Rules
                        /\ RefQos[b.pool[k].rule] \in Qos
                        /\ \A x \in Qos : g[x] = b.qer[e].qfi => x = RefQos[b.pool[k].rule]
      BY DEF Private
    <3>1. CASE k # p
      <4>1. b.pool[k] = c.pool[k] /\ e \in Held(c) /\ e # c.ambr
        BY <1>1, <2>6, <2>8, <3>1
      <4>2. QED
        BY <2>13, <4>1 DEF Private
    <3>2. CASE k = p
      <4>1. e = d
        BY <2>6, <2>8, <3>2
      <4>2. QED
        BY <2>5, <2>8, <2>9, <3>2, <4>1
    <3>3. QED
      BY <3>1, <3>2
  <2>17. /\ b.qerUpfMap[qfi] \in b.pool[p].qers \ {b.ambr}
         /\ b.qer[b.qerUpfMap[qfi]].rate = rate
         /\ b.pool[p].qers \subseteq {b.ambr, b.qerUpfMap[qfi]}
    BY <2>4, <2>5, <2>6, <2>8, <2>9
  <2>18. /\ Held(b) = Held(c) \cup b.pool[p].qers
         /\ Kept(b) = Kept(c) \cup b.pool[p].qers
    BY <1>1, <2>8, <2>10, <2>12
  <2>19. QED
    BY <1>5, <2>9, <2>13, <2>14, <2>15, <2>16, <2>17, <2>18
<1>6. CASE rate # 0 /\ known # 0
  <2>1. known \in Kept(c) /\ c.qer[known].pooled /\ c.qer[known].qfi = qfi
    BY <1>6 DEF Good, MapLive
  <2>2. known # c.ambr
    BY <2>1 DEF Tidy
  <2> DEFINE qs == c.pool[p].qers \cup {known}
             l == [c.pool EXCEPT ![p].qers = qs]
  <2>3. b = [c EXCEPT !.pool[p].qers = qs]
    BY <1>6, <2>1 DEF AddQoS, Good, CtxRec, PathRec
  <2> HIDE DEF qs, known
  <2>4. b.pool = l /\ b.qer = c.qer /\ b.doomed = c.doomed /\ b.ambr = c.ambr
        /\ b.qerUpfMap = c.qerUpfMap
    BY <2>3 DEF Good, CtxRec
  <2>5. l[p] = [c.pool[p] EXCEPT !.qers = qs]
        /\ \A k \in PathIds : k # p => l[k] = c.pool[k]
    BY <1>1, <1>2
  <2>6. /\ b.pool[p].qers = c.pool[p].qers \cup {known} /\ b.pool[p].pdr = "INITIAL"
        /\ b.pool[p].rule = c.pool[p].rule
        /\ \A k \in PathIds : k # p => b.pool[k] = c.pool[k]
    BY <1>2, <2>4, <2>5 DEF PathRec, qs
  <2> HIDE DEF l
  <2>7. Held(b) = Held(c)
    BY <1>1, <2>1, <2>6 DEF Held
  <2>8. Stays(b) = Stays(c)
    BY <2>4, <2>6, <1>1 DEF Stays, Pool
  <2>9. Kept(b) = Kept(c)
    <3>1. Stays(c) \subseteq PathIds
      BY DEF Stays, Pool
    <3>2. QED
      BY <1>1, <2>1, <2>6, <2>8, <3>1 DEF Kept
  <2>10. Tidy(b)
    <3>1. \A k \in PathIds : b.pool[k].pdr = "none" => b.pool[k].qers = {}
      BY <2>6 DEF Tidy
    <3>2. QED
      BY <2>4, <2>7, <2>9, <3>1 DEF Tidy
  <2>11. Unsent(b, upf)
    <3>1. \A k \in PathIds : k \in upf.pdrs <=> b.pool[k].pdr \in {"CREATE", "REMOVE"}
      BY <1>3, <2>6 DEF Unsent
    <3>2. \A k \in PathIds : k \in b.doomed <=> b.pool[k].pdr = "REMOVE"
      BY <1>3, <2>4, <2>6 DEF Unsent
    <3>3. ASSUME NEW k \in PathIds, k \in upf.pdrs
          PROVE  /\ upf.refs[k] = b.pool[k].qers
                 /\ \A e \in b.pool[k].qers : b.qer[e].state # "INITIAL"
      BY <1>3, <2>4, <2>6, <3>3 DEF Unsent
    <3>4. QED
      BY <2>4, <2>7, <3>1, <3>2, <3>3 DEF Unsent
  <2>12. Private(b, g)
    <3> SUFFICES ASSUME NEW k \in PathIds, NEW e \in b.pool[k].qers \ {b.ambr}
                 PROVE  /\ b.pool[k].rule \in Rules
                        /\ RefQos[b.pool[k].rule] \in Qos
                        /\ \A x \in Qos : g[x] = b.qer[e].qfi => x = RefQos[b.pool[k].rule]
      BY DEF Private
    <3>1. CASE k # p
      BY <2>4, <2>6, <3>1 DEF Private
    <3>2. CASE k = p
      <4>1. e = known
        BY <2>4, <2>6, <3>2
      <4>2. QED
        BY <2>1, <2>4, <2>6, <3>2, <4>1
    <3>3. QED
      BY <3>1, <3>2
  <2>13. /\ b.qerUpfMap[qfi] \in b.pool[p].qers \ {b.ambr}
         /\ b.qerUpfMap[qfi] \in Held(c)
         /\ b.pool[p].qers \subseteq {b.ambr, b.qerUpfMap[qfi]}
    BY <1>1, <2>1, <2>2, <2>4, <2>6 DEF known
  <2>14. /\ Held(b) = Held(c) \cup b.pool[p].qers
         /\ Kept(b) = Kept(c) \cup b.pool[p].qers
    BY <1>1, <2>1, <2>6, <2>7, <2>9
  <2>15. QED
    BY <1>6, <2>4, <2>10, <2>11, <2>12, <2>13, <2>14
<1>7. QED
  BY <1>4, <1>5, <1>6

(* CreatePccRuleDataPath: the two together.  A QER the path takes for its QoS
   datum has the rate asked for or was some path's before. *)
LEMMA CreateTidy ==
  ASSUME NEW c, Good(c), Cardinality(FreshQers(c)) > 1, NEW p \in PathIds \ Pool(c),
         NEW r \in Rules, NEW g, NEW qfi \in QFIs, NEW rate \in RateOr0,
         RefQos[r] # NoQos => /\ qfi # 0 /\ qfi # 1
                              /\ \A x \in Qos : g[x] = qfi => x = RefQos[r],
         RefQos[r] # NoQos /\ rate # 0 /\ c.qerUpfMap[qfi] # 0
            => c.qerUpfMap[qfi] \in Kept(c),
         AmbrFine(c), Tidy(c), Unsent(c, upf), Private(c, g),
         NEW b, b = CreatePccRuleDataPath(c, p, r, qfi, rate)
  PROVE  /\ Tidy(b) /\ Unsent(b, upf) /\ Private(b, g)
         /\ RefQos[r] # NoQos /\ rate # 0 =>
               /\ b.qerUpfMap[qfi] \in b.pool[p].qers \ {b.ambr}
               /\ \/ b.qer[b.qerUpfMap[qfi]].rate = rate
                  \/ b.qerUpfMap[qfi] \in Held(c)
               /\ b.pool[p].qers \subseteq {b.ambr, b.qerUpfMap[qfi]}
         /\ RefQos[r] = NoQos \/ rate = 0 => b.pool[p].qers \subseteq {b.ambr}
         /\ \A f \in QFIs : f # qfi \/ RefQos[r] = NoQos => b.qerUpfMap[f] = c.qerUpfMap[f]
         /\ Held(b) = Held(c) \cup b.pool[p].qers
         /\ Kept(b) = Kept(c) \cup b.pool[p].qers
         /\ \A d \in Held(c) : b.qer[d] = c.qer[d]
<1> DEFINE q == RefQos[r]
           default == GetDefaultPath(c) = {} /\ r = DefRule
           gbr == rate # 0 /\ q \in Gbr
<1>1. FreshQers(c) # {} /\ FreshQers(c) \ {AmbrQer(c).ambr} # {}
  BY FreshTwo
<1>2. default \in BOOLEAN /\ gbr \in BOOLEAN
  OBVIOUS
<1>3. rate \in Nat /\ q \in Qos \cup {NoQos}
  BY ConstantsOK DEF ConstantsOK, RateOr0
<1>4. PICK a : a = ActivateTunnelAndPDR(c, p, r, default, gbr)
  OBVIOUS
<1>5. b = IF q = NoQos THEN a ELSE AddQosFlow(AddQoS(a, p, qfi, rate), qfi, rate)
  BY <1>4 DEF CreatePccRuleDataPath
<1> HIDE DEF default, gbr
<1>6. Good(a) /\ FreshQers(a) # {}
  BY <1>1, <1>2, <1>4, ActivateGood
<1>7. Activated(c, a, p, r, default, gbr)
  BY <1>1, <1>2, <1>4, ActivateEffect
<1>8. /\ Tidy(a) /\ Unsent(a, upf) /\ Private(a, g) /\ AmbrFine(a)
      /\ a.pool[p].qers \subseteq {a.ambr}
      /\ Held(a) = Held(c) \cup a.pool[p].qers
      /\ Kept(a) = Kept(c) \cup a.pool[p].qers
      /\ \A d \in Held(c) : a.qer[d] = c.qer[d]
  BY <1>1, <1>2, <1>4, ActivateTidy
<1>9. /\ a.pool[p].pdr = "INITIAL" /\ a.pool[p].rule = r /\ a.doomed = c.doomed
      /\ a.qerUpfMap = c.qerUpfMap /\ a.ambr \in QerIds
  BY <1>7 DEF Activated
<1>10. p \in Stays(a) /\ a.ambr # 0
  <2>1. p \notin c.doomed
    BY NewPath
  <2>2. QED
    BY <1>9, <2>1, HeldIds DEF Stays, Pool
<1>11. CASE q = NoQos
  <2>1. b = a
    BY <1>5, <1>11
  <2>2. QED
    BY <1>8, <1>9, <1>11, <2>1
<1>12. CASE q # NoQos
  <2>1. PICK x : x = AddQoS(a, p, qfi, rate)
    OBVIOUS
  <2>2. rate # 0 /\ a.qerUpfMap[qfi] # 0 => a.qerUpfMap[qfi] \in Kept(a)
    BY <1>8, <1>9, <1>12
  <2>3. /\ Tidy(x) /\ Unsent(x, upf) /\ Private(x, g)
        /\ rate # 0 => /\ x.qerUpfMap[qfi] \in x.pool[p].qers \ {x.ambr}
                       /\ x.qer[x.qerUpfMap[qfi]].rate = rate
                             \/ x.qerUpfMap[qfi] \in Held(a)
        /\ x.pool[p].qers \subseteq {x.ambr, x.qerUpfMap[qfi]}
        /\ rate = 0 => x = a
        /\ \A f \in QFIs : f # qfi => x.qerUpfMap[f] = a.qerUpfMap[f]
        /\ Held(x) = Held(a) \cup x.pool[p].qers
        /\ Kept(x) = Kept(a) \cup x.pool[p].qers
        /\ \A d \in Held(a) : x.qer[d] = a.qer[d]
    <3>1. q \in Qos /\ qfi # 0 /\ qfi # 1 /\ \A y \in Qos : g[y] = qfi => y = q
      BY <1>3, <1>12
    <3>2. RefQos[a.pool[p].rule] = q /\ a.pool[p].rule \in Rules
      BY <1>9
    <3> HIDE DEF q
    <3>3. QED
      BY <1>3, <1>6, <1>8, <1>9, <1>10, <2>1, <2>2, <3>1, <3>2, AddQoSTidy
  <2>4. x.ambr = a.ambr /\ a.pool[p].qers \subseteq x.pool[p].qers
    <3>1. /\ x.doomed = a.doomed /\ x.ambr = a.ambr
          /\ \A k \in PathIds : k # p => x.pool[k] = a.pool[k]
          /\ x.pool[p] = [a.pool[p] EXCEPT !.qers = x.pool[p].qers]
          /\ a.pool[p].qers \subseteq x.pool[p].qers
          /\ \A d \in QerIds : a.qer[d].pooled => x.qer[d] = a.qer[d]
      BY <1>3, <1>6, <2>1, AddQoSEffect
    <3>2. QED
      BY <3>1
  <2>5. Good(x)
    BY <1>3, <1>6, <2>1, AddQoSGood
  <2>6. /\ b.pool = x.pool /\ b.qer = x.qer /\ b.doomed = x.doomed /\ b.ambr = x.ambr
        /\ b.qerUpfMap = x.qerUpfMap
    BY <1>5, <1>12, <2>1, <2>5 DEF AddQosFlow, Good, CtxRec
  <2>7. /\ Tidy(b) /\ Unsent(b, upf) /\ Private(b, g)
        /\ Held(b) = Held(x) /\ Kept(b) = Kept(x)
    BY <2>3, <2>6, SameTidy
  <2>8. Held(b) = Held(c) \cup b.pool[p].qers /\ Kept(b) = Kept(c) \cup b.pool[p].qers
    BY <1>8, <2>3, <2>4, <2>6, <2>7
  <2>9. \A d \in Held(c) : b.qer[d] = c.qer[d]
    BY <1>8, <2>3, <2>6
  <2>10. /\ rate # 0 =>
               /\ b.qerUpfMap[qfi] \in b.pool[p].qers \ {b.ambr}
               /\ \/ b.qer[b.qerUpfMap[qfi]].rate = rate
                  \/ b.qerUpfMap[qfi] \in Held(c)
               /\ b.pool[p].qers \subseteq {b.ambr, b.qerUpfMap[qfi]}
    BY <1>8, <2>3, <2>4, <2>6
  <2>11. rate = 0 => b.pool[p].qers \subseteq {b.ambr}
    BY <1>8, <2>3, <2>6
  <2>12. \A f \in QFIs : f # qfi => b.qerUpfMap[f] = c.qerUpfMap[f]
    BY <1>9, <2>3, <2>6
  <2>13. QED
    BY <1>12, <2>7, <2>8, <2>9, <2>10, <2>11, <2>12
<1>13. QED
  BY <1>11, <1>12

(* What refreshQERRemovalState makes of the states of the QERs of the paths to
   be removed. *)
LEMMA MarkQers ==
  ASSUME NEW c, Good(c), NEW p \in PathIds, NEW b, b = PreRemoveDataPath(c, p)
  PROVE  /\ b.qerUpfMap = c.qerUpfMap
         /\ \A d \in QerIds :
               /\ b.qer[d] = [c.qer[d] EXCEPT !.state = b.qer[d].state]
               /\ d \notin Going(b) => b.qer[d] = c.qer[d]
               /\ d \in Going(b) /\ (\E k \in Kept(b) : c.qer[k].qfi = c.qer[d].qfi)
                     => b.qer[d].state = "CREATE"
               /\ d \in Going(b) /\ ~(\E k \in Kept(b) : c.qer[k].qfi = c.qer[d].qfi)
                     => b.qer[d].state = "REMOVE"
<1> DEFINE e == [c EXCEPT !.pool[p].pdr = "REMOVE", !.doomed = @ \cup {p}]
           m == [d \in QerIds |->
                  IF d \notin Going(e) THEN e.qer[d]
                  ELSE [e.qer[d] EXCEPT !.state =
                    IF \E k \in Kept(e) : e.qer[k].qfi = e.qer[d].qfi
                    THEN "CREATE" ELSE "REMOVE"]]
<1>1. p # 0
  BY ConstantsOK DEF ConstantsOK
<1>2. b = [e EXCEPT !.qer = m]
  BY <1>1, Zenon DEF PreRemoveDataPath, refreshQERRemovalState, Stays, Kept, Going
<1>3. e.qer = c.qer /\ e.qerUpfMap = c.qerUpfMap
  BY DEF Good, CtxRec
<1>4. \A f : /\ [e EXCEPT !.qer = f].pool = e.pool
             /\ [e EXCEPT !.qer = f].doomed = e.doomed
             /\ [e EXCEPT !.qer = f].qerUpfMap = e.qerUpfMap
             /\ [e EXCEPT !.qer = f].qer = f
  BY DEF Good, CtxRec
<1> HIDE DEF e
<1>5. \A d \in QerIds : e.qer[d] \in QerRec
  BY <1>3 DEF Good, CtxRec
<1>6. \A d \in QerIds :
         /\ m[d] = [c.qer[d] EXCEPT !.state = m[d].state]
         /\ d \notin Going(e) => m[d] = c.qer[d]
         /\ d \in Going(e) /\ (\E k \in Kept(e) : c.qer[k].qfi = c.qer[d].qfi)
               => m[d].state = "CREATE"
         /\ d \in Going(e) /\ ~(\E k \in Kept(e) : c.qer[k].qfi = c.qer[d].qfi)
               => m[d].state = "REMOVE"
  BY <1>3, <1>5 DEF QerRec
<1> HIDE DEF m
<1>7. b.pool = e.pool /\ b.doomed = e.doomed /\ b.qerUpfMap = e.qerUpfMap /\ b.qer = m
  BY <1>2, <1>4
<1>8. Going(b) = Going(e) /\ Kept(b) = Kept(e)
  BY <1>7 DEF Going, Kept, Stays, Pool
<1>9. QED
  BY <1>3, <1>6, <1>7, <1>8

(* Marking a path the UPF has keeps the context tidy and the UPF in step. *)
LEMMA MarkTidy ==
  ASSUME NEW c, Good(c), NEW p \in Stays(c), c.pool[p].pdr = "CREATE",
         Tidy(c), Unsent(c, upf), NEW g, Private(c, g),
         NEW b, b = PreRemoveDataPath(c, p)
  PROVE  /\ Tidy(b) /\ Unsent(b, upf) /\ Private(b, g)
         /\ Held(b) = Held(c) /\ Kept(c) = Kept(b) \cup c.pool[p].qers
         /\ Stays(b) = Stays(c) \ {p}
         /\ b.qerUpfMap = c.qerUpfMap /\ b.ambr = c.ambr
         /\ \A k \in PathIds : /\ b.pool[k].qers = c.pool[k].qers
                               /\ b.pool[k].rule = c.pool[k].rule
         /\ \A d \in QerIds : b.qer[d] = [c.qer[d] EXCEPT !.state = b.qer[d].state]
<1>1. p \in PathIds /\ p \in Pool(c) /\ p # 0 /\ p \notin c.doomed /\ c.doomed \subseteq PathIds
  BY ConstantsOK DEF Stays, Pool, ConstantsOK, Good, CtxRec
<1>2. Marked(c, b, p)
  BY <1>1, PreRemoveEffect
<1>3. /\ b.qerUpfMap = c.qerUpfMap
      /\ \A d \in QerIds :
               /\ b.qer[d] = [c.qer[d] EXCEPT !.state = b.qer[d].state]
               /\ d \notin Going(b) => b.qer[d] = c.qer[d]
               /\ d \in Going(b) /\ (\E k \in Kept(b) : c.qer[k].qfi = c.qer[d].qfi)
                     => b.qer[d].state = "CREATE"
               /\ d \in Going(b) /\ ~(\E k \in Kept(b) : c.qer[k].qfi = c.qer[d].qfi)
                     => b.qer[d].state = "REMOVE"
  BY <1>1, MarkQers
<1>4. /\ b.ambr = c.ambr /\ b.doomed = c.doomed \cup {p}
      /\ \A k \in PathIds : k # p => b.pool[k] = c.pool[k]
      /\ b.pool[p] = [c.pool[p] EXCEPT !.pdr = "REMOVE"]
  BY <1>1, <1>2 DEF Marked
<1>5. /\ b.pool[p].pdr = "REMOVE"
      /\ \A k \in PathIds : /\ b.pool[k].qers = c.pool[k].qers
                            /\ b.pool[k].rule = c.pool[k].rule
  BY <1>1, <1>4 DEF Good, CtxRec, PathRec
<1>6. /\ Held(c) \subseteq QerIds /\ 0 \notin QerIds /\ Kept(c) \subseteq Held(c)
      /\ \A k \in PathIds : c.pool[k].qers \subseteq Held(c)
  BY HeldIds
<1>7. \A d \in QerIds : /\ b.qer[d].pooled = c.qer[d].pooled /\ b.qer[d].rate = c.qer[d].rate
                        /\ b.qer[d].qfi = c.qer[d].qfi
  <2> SUFFICES ASSUME NEW d \in QerIds
               PROVE  /\ b.qer[d].pooled = c.qer[d].pooled /\ b.qer[d].rate = c.qer[d].rate
                      /\ b.qer[d].qfi = c.qer[d].qfi
    OBVIOUS
  <2>1. b.qer[d] = [c.qer[d] EXCEPT !.state = b.qer[d].state] /\ c.qer[d] \in QerRec
    BY <1>3 DEF Good, CtxRec
  <2>2. QED
    BY <2>1 DEF QerRec
<1>8. Held(b) = Held(c)
  BY <1>5 DEF Held
<1>9. Pool(b) = Pool(c) /\ Stays(b) = Stays(c) \ {p}
  <2>1. Pool(b) = Pool(c)
    BY <1>1, <1>4, <1>5 DEF Pool
  <2>2. QED
    BY <1>4, <2>1 DEF Stays
<1>10. Kept(c) = Kept(b) \cup c.pool[p].qers
  <2>1. Stays(c) \subseteq PathIds
    BY DEF Stays, Pool
  <2>2. QED
    BY <1>5, <1>9, <2>1 DEF Kept
<1>11. Going(b) \subseteq Held(c) /\ Held(c) \ Going(b) \subseteq Kept(b)
  <2>1. Going(b) \subseteq Held(c)
    BY <1>1, <1>4, <1>5, <1>6 DEF Going
  <2>2. ASSUME NEW d \in Held(c), d \notin Going(b) PROVE d \in Kept(b)
    <3>1. PICK k \in PathIds : d \in c.pool[k].qers
      BY DEF Held
    <3>2. k \in Pool(b) /\ k \notin b.doomed
      BY <1>5, <1>9, <2>2, <3>1 DEF Tidy, Pool, Going
    <3>3. QED
      BY <1>5, <3>1, <3>2 DEF Kept, Stays
  <2>3. QED
    BY <2>1, <2>2
<1>12. ASSUME NEW d \in Going(b), NEW k \in Kept(b), c.qer[k].qfi = c.qer[d].qfi
       PROVE  d = k
  BY <1>6, <1>10, <1>11, <1>12, OneQer
<1>13. ASSUME NEW d \in Held(b) PROVE b.qer[d].state = "REMOVE" <=> d \notin Kept(b)
  <2>1. CASE d \in Going(b)
    <3>1. d \in QerIds
      BY <1>6, <1>8
    <3>2. (\E k \in Kept(b) : c.qer[k].qfi = c.qer[d].qfi) <=> d \in Kept(b)
      BY <1>12, <2>1
    <3>3. QED
      BY <1>3, <2>1, <3>1, <3>2
  <2>2. CASE d \notin Going(b)
    <3>1. d \in Kept(b) /\ d \in Kept(c) /\ d \in QerIds /\ d \in Held(c)
      BY <1>6, <1>8, <1>10, <1>11, <2>2
    <3>2. b.qer[d] = c.qer[d] /\ c.qer[d].state # "REMOVE"
      BY <1>3, <2>2, <3>1 DEF Tidy
    <3>3. QED
      BY <3>1, <3>2
  <2>3. QED
    BY <2>1, <2>2
<1>14. Tidy(b)
  <2>1. ASSUME NEW k \in PathIds, b.pool[k].pdr = "none" PROVE b.pool[k].qers = {}
    <3>1. k \notin Pool(c)
      BY <1>9, <2>1 DEF Pool
    <3>2. c.pool[k].pdr = "none"
      BY <3>1 DEF Pool
    <3>3. QED
      BY <1>5, <3>2 DEF Tidy
  <2>2. ASSUME NEW d \in Held(b) PROVE b.qer[d].pooled /\ b.qer[d].rate # 0
    <3>1. d \in Held(c) /\ d \in QerIds
      BY <1>6, <1>8
    <3>2. c.qer[d].pooled /\ c.qer[d].rate # 0
      BY <3>1 DEF Tidy
    <3>3. QED
      BY <1>7, <3>1, <3>2
  <2>3. \A d \in QerIds : b.qer[d].pooled => d = b.ambr \/ d \in Held(b)
    BY <1>4, <1>7, <1>8 DEF Tidy
  <2>4. \A d \in QerIds : b.qer[d].pooled /\ d # b.ambr => b.qerUpfMap[b.qer[d].qfi] = d
    BY <1>3, <1>4, <1>7 DEF Tidy
  <2>5. b.ambr # 0 => b.qer[b.ambr].qfi = 1
    BY <1>4, <1>7 DEF Tidy, Good, CtxRec
  <2>6. b.qerUpfMap[0] = 0 /\ b.qerUpfMap[1] = 0
    BY <1>3 DEF Tidy
  <2>7. QED
    BY <1>13, <2>1, <2>2, <2>3, <2>4, <2>5, <2>6 DEF Tidy
<1>15. ASSUME NEW d \in Going(b)
       PROVE  d \in QerIds /\ b.qer[d].state # "INITIAL" /\ c.qer[d].state # "INITIAL"
  <2>1. d \in QerIds
    BY <1>6, <1>11
  <2>2. b.qer[d].state # "INITIAL"
    BY <1>3, <2>1
  <2>3. PICK k \in c.doomed \cup {p} : d \in c.pool[k].qers
    BY <1>1, <1>4, <1>5 DEF Going
  <2>4. k \in PathIds /\ k \in upf.pdrs
    BY <1>1 DEF Unsent
  <2>5. QED
    BY <2>1, <2>2, <2>3, <2>4 DEF Unsent
<1>16. \A d \in QerIds : b.qer[d].state = "INITIAL" <=> c.qer[d].state = "INITIAL"
  BY <1>3, <1>15
<1>17. Unsent(b, upf)
  <2>1. \A k \in PathIds : k \in upf.pdrs <=> b.pool[k].pdr \in {"CREATE", "REMOVE"}
    BY <1>4, <1>5 DEF Unsent
  <2>2. \A k \in PathIds : k \in b.doomed <=> b.pool[k].pdr = "REMOVE"
    BY <1>4, <1>5 DEF Unsent
  <2>3. ASSUME NEW k \in PathIds, k \in upf.pdrs
        PROVE  /\ upf.refs[k] = b.pool[k].qers
               /\ \A d \in b.pool[k].qers : b.qer[d].state # "INITIAL"
    BY <1>5, <1>6, <1>16, <2>3 DEF Unsent
  <2>4. ASSUME NEW d \in QerIds
        PROVE  /\ upf.qer[d] # 0 <=> d \in Held(b) /\ b.qer[d].state # "INITIAL"
               /\ upf.qer[d] # 0 => upf.qer[d] = b.qer[d].rate
    BY <1>7, <1>8, <1>16 DEF Unsent
  <2>5. b.ambr # 0 => b.ambr \in Held(b) \/ b.qer[b.ambr].state = "INITIAL"
    BY <1>4, <1>8, <1>16 DEF Unsent, Good, CtxRec
  <2>6. QED
    BY <2>1, <2>2, <2>3, <2>4, <2>5 DEF Unsent
<1>18. Private(b, g)
  <2> SUFFICES ASSUME NEW k \in PathIds, NEW d \in b.pool[k].qers \ {b.ambr}
               PROVE  /\ b.pool[k].rule \in Rules
                      /\ RefQos[b.pool[k].rule] \in Qos
                      /\ \A q \in Qos : g[q] = b.qer[d].qfi => q = RefQos[b.pool[k].rule]
    BY DEF Private
  <2>1. d \in c.pool[k].qers \ {c.ambr} /\ d \in QerIds
    BY <1>4, <1>5, <1>6
  <2>2. QED
    BY <1>5, <1>7, <2>1 DEF Private
<1>19. QED
  BY <1>3, <1>4, <1>5, <1>8, <1>9, <1>10, <1>14, <1>17, <1>18

(* The states a request leaves. *)
LEMMA SentStates ==
  ASSUME NEW c, Good(c), NEW b, b = Sent(c)
  PROVE  /\ b.qerUpfMap = c.qerUpfMap
         /\ \A p \in PathIds : /\ b.pool[p].qers = c.pool[p].qers
                               /\ b.pool[p].rule = c.pool[p].rule
                               /\ p \in Pool(c) => b.pool[p].pdr = "CREATE"
                               /\ p \notin Pool(c) => b.pool[p].pdr = "none"
         /\ \A d \in QerIds :
               /\ b.qer[d].pooled = c.qer[d].pooled /\ b.qer[d].rate = c.qer[d].rate
               /\ b.qer[d].qfi = c.qer[d].qfi
               /\ est => b.qer[d].state =
                     IF d \in Held(c) /\ c.qer[d].state = "INITIAL" THEN "CREATE"
                     ELSE c.qer[d].state
               /\ ~est /\ d \in Held(c) => b.qer[d].state = "CREATE"
<1> DEFINE created == IF est THEN AskedQers(c, "INITIAL") ELSE Held(c)
           l == [p \in PathIds |->
                   IF p \in Pool(c) THEN [c.pool[p] EXCEPT !.pdr = "CREATE"]
                   ELSE c.pool[p]]
           m == [d \in QerIds |->
                   IF d \in created THEN [c.qer[d] EXCEPT !.state = "CREATE"]
                   ELSE c.qer[d]]
<1>1. b = [c EXCEPT !.pool = l, !.qer = m]
  BY DEF Sent
<1>2. est => \A d : d \in created <=> d \in Held(c) /\ c.qer[d].state = "INITIAL"
  BY DEF AskedQers
<1>3. ~est => created = Held(c)
  OBVIOUS
<1> HIDE DEF created
<1>4. \A p \in PathIds : /\ l[p].qers = c.pool[p].qers /\ l[p].rule = c.pool[p].rule
                         /\ p \in Pool(c) => l[p].pdr = "CREATE"
                         /\ p \notin Pool(c) => l[p].pdr = "none"
  BY DEF Good, CtxRec, PathRec, Pool
<1>5. \A d \in QerIds :
         /\ m[d].pooled = c.qer[d].pooled /\ m[d].rate = c.qer[d].rate
         /\ m[d].qfi = c.qer[d].qfi
         /\ m[d].state = IF d \in created THEN "CREATE" ELSE c.qer[d].state
  BY DEF Good, CtxRec, QerRec
<1> HIDE DEF l, m
<1>6. b.pool = l /\ b.qer = m /\ b.qerUpfMap = c.qerUpfMap
  BY <1>1 DEF Good, CtxRec
<1>7. QED
  BY <1>2, <1>3, <1>4, <1>5, <1>6

(* What the UPF makes of a request. *)
LEMMA ServedUpf ==
  ASSUME NEW c, Good(c), NEW u, u = Applied(c), est \/ c.doomed = {}, Unsent(c, upf), Tidy(c)
  PROVE  /\ u.pdrs \cap PathIds = Stays(c)
         /\ \A k \in Stays(c) : u.refs[k] = c.pool[k].qers
         /\ \A d \in QerIds : u.qer[d] # 0 <=> d \in Kept(c)
         /\ \A d \in QerIds : u.qer[d] # 0 => u.qer[d] = c.qer[d].rate
<1> DEFINE newP  == Asked(c, "INITIAL")
           newQ  == AskedQers(c, "INITIAL")
           goneP == IF est THEN Asked(c, "REMOVE") ELSE {}
           goneQ == IF est THEN AskedQers(c, "REMOVE") ELSE {}
           l == [p \in PathIds |->
                   CASE p \in goneP -> {}
                     [] p \in newP  -> c.pool[p].qers
                     [] p \notin goneP \cup newP -> upf.refs[p]]
           m == [d \in QerIds |->
                   CASE d \in goneQ -> 0
                     [] d \in newQ  -> c.qer[d].rate
                     [] d \notin goneQ \cup newQ -> upf.qer[d]]
<1>1. u.pdrs = (upf.pdrs \cup newP) \ goneP /\ u.refs = l /\ u.qer = m
  BY DEF Applied
<1>2. /\ Held(c) \subseteq QerIds /\ 0 \notin QerIds /\ Kept(c) \subseteq Held(c)
      /\ \A k \in PathIds : c.pool[k].qers \subseteq Held(c)
  BY HeldIds
<1>3. \A k \in PathIds : c.pool[k].pdr \in States /\ (k \in c.doomed <=> c.pool[k].pdr = "REMOVE")
  BY DEF Good, CtxRec, PathRec, Unsent
<1>4. \A k \in PathIds : k \in goneP <=> c.pool[k].pdr = "REMOVE"
  BY <1>3 DEF Asked
<1>5. \A k \in PathIds : k \in newP <=> c.pool[k].pdr = "INITIAL"
  BY DEF Asked
<1>6. \A k \in PathIds : k \in Stays(c) <=> c.pool[k].pdr \in {"INITIAL", "CREATE"}
  BY <1>3 DEF Stays, Pool, States
<1>7. ~est => Held(c) \subseteq Kept(c)
  <2> SUFFICES ASSUME ~est, NEW d \in Held(c) PROVE d \in Kept(c)
    OBVIOUS
  <2>1. PICK k \in PathIds : d \in c.pool[k].qers
    BY DEF Held
  <2>2. k \in Stays(c)
    BY <2>1 DEF Stays, Pool, Tidy
  <2>3. QED
    BY <2>1, <2>2 DEF Kept
<1>8. \A d \in QerIds : d \in goneQ <=> d \in Held(c) /\ c.qer[d].state = "REMOVE"
  BY <1>7 DEF AskedQers, Tidy
<1>9. \A d \in QerIds : d \in newQ <=> d \in Held(c) /\ c.qer[d].state = "INITIAL"
  BY DEF AskedQers
<1> HIDE DEF newP, newQ, goneP, goneQ
<1>10. u.pdrs \cap PathIds = Stays(c)
  <2>1. Stays(c) \subseteq PathIds
    BY DEF Stays, Pool
  <2>2. \A k \in PathIds : k \in upf.pdrs <=> c.pool[k].pdr \in {"CREATE", "REMOVE"}
    BY DEF Unsent
  <2>3. QED
    BY <1>1, <1>4, <1>5, <1>6, <2>1, <2>2
<1>11. ASSUME NEW k \in Stays(c) PROVE u.refs[k] = c.pool[k].qers
  <2>1. k \in PathIds
    BY <1>11 DEF Stays, Pool
  <2>2. k \notin goneP /\ (k \in newP \/ k \in upf.pdrs)
    BY <1>4, <1>5, <1>6, <2>1 DEF Unsent
  <2>3. l[k] = CASE k \in goneP -> {}
                 [] k \in newP  -> c.pool[k].qers
                 [] k \notin goneP \cup newP -> upf.refs[k]
    BY <2>1
  <2> HIDE DEF l
  <2>4. CASE k \in newP
    BY <1>1, <2>2, <2>3, <2>4
  <2>5. CASE k \notin newP
    BY <1>1, <2>1, <2>2, <2>3, <2>5 DEF Unsent
  <2>6. QED
    BY <2>4, <2>5
<1>12. ASSUME NEW d \in QerIds
       PROVE  (u.qer[d] # 0 <=> d \in Kept(c)) /\ (u.qer[d] # 0 => u.qer[d] = c.qer[d].rate)
  <2>1. m[d] = CASE d \in goneQ -> 0
                 [] d \in newQ  -> c.qer[d].rate
                 [] d \notin goneQ \cup newQ -> upf.qer[d]
    OBVIOUS
  <2> HIDE DEF m
  <2>2. /\ upf.qer[d] # 0 <=> d \in Held(c) /\ c.qer[d].state # "INITIAL"
        /\ upf.qer[d] # 0 => upf.qer[d] = c.qer[d].rate
        /\ d \in Held(c) => /\ c.qer[d].rate # 0
                            /\ c.qer[d].state = "REMOVE" <=> d \notin Kept(c)
    BY DEF Unsent, Tidy
  <2>3. CASE d \in goneQ
    BY <1>1, <1>8, <1>9, <2>1, <2>2, <2>3
  <2>4. CASE d \in newQ /\ d \notin goneQ
    BY <1>1, <1>8, <1>9, <2>1, <2>2, <2>4
  <2>5. CASE d \notin newQ /\ d \notin goneQ
    <3>1. u.qer[d] = upf.qer[d]
      BY <1>1, <2>1, <2>5
    <3>2. d \in Held(c) => c.qer[d].state # "INITIAL" /\ d \in Kept(c)
      BY <1>8, <1>9, <2>2, <2>5
    <3>3. QED
      BY <1>2, <2>2, <3>1, <3>2
  <2>6. QED
    BY <2>3, <2>4, <2>5
<1>13. QED
  BY <1>10, <1>11, <1>12

(* After the answer the UPF holds the paths that stay with their QERs. *)
LEMMA ServeTidy ==
  ASSUME NEW c, Good(c), NEW u \in UpfRec, u = Applied(c), est \/ c.doomed = {},
         c.doomed \subseteq Pool(c),
         Unsent(c, upf), Tidy(c), NEW g, Private(c, g), NEW b, b = Sent(c)
  PROVE  /\ Tidy(b) /\ Served(b, u) /\ Private(b, g)
         /\ b.doomed = c.doomed /\ b.ambr = c.ambr
         /\ b.qerUpfMap = c.qerUpfMap
<1>1. /\ b.qerUpfMap = c.qerUpfMap
      /\ \A p \in PathIds : /\ b.pool[p].qers = c.pool[p].qers
                            /\ b.pool[p].rule = c.pool[p].rule
                            /\ p \in Pool(c) => b.pool[p].pdr = "CREATE"
                            /\ p \notin Pool(c) => b.pool[p].pdr = "none"
  BY SentStates
<1>2. \A d \in QerIds :
         /\ b.qer[d].pooled = c.qer[d].pooled /\ b.qer[d].rate = c.qer[d].rate
         /\ b.qer[d].qfi = c.qer[d].qfi
         /\ est => b.qer[d].state =
               IF d \in Held(c) /\ c.qer[d].state = "INITIAL" THEN "CREATE"
               ELSE c.qer[d].state
         /\ ~est /\ d \in Held(c) => b.qer[d].state = "CREATE"
  BY SentStates
<1>3. b.doomed = c.doomed /\ b.ambr = c.ambr /\ Pool(b) = Pool(c)
  BY SentEffect
<1>4. Stays(b) = Stays(c)
  BY <1>3 DEF Stays
<1>5. Held(b) = Held(c) /\ Kept(b) = Kept(c)
  <2>1. Stays(c) \subseteq PathIds
    BY DEF Stays, Pool
  <2>2. QED
    BY <1>1, <1>4, <2>1 DEF Held, Kept
<1>6. /\ Held(c) \subseteq QerIds /\ 0 \notin QerIds /\ Kept(c) \subseteq Held(c)
      /\ \A k \in PathIds : c.pool[k].qers \subseteq Held(c)
  BY HeldIds
<1>7. ~est => Held(c) \subseteq Kept(c)
  <2> SUFFICES ASSUME ~est, NEW d \in Held(c) PROVE d \in Kept(c)
    OBVIOUS
  <2>1. PICK k \in PathIds : d \in c.pool[k].qers
    BY DEF Held
  <2>2. k \in Stays(c)
    BY <2>1 DEF Stays, Pool, Tidy
  <2>3. QED
    BY <2>1, <2>2 DEF Kept
<1>8. Tidy(b)
  <2>1. \A k \in PathIds : b.pool[k].pdr = "none" => b.pool[k].qers = {}
    BY <1>1 DEF Tidy, Pool
  <2>2. \A d \in Held(b) : b.qer[d].pooled /\ b.qer[d].rate # 0
    BY <1>2, <1>5, <1>6 DEF Tidy
  <2>3. \A d \in QerIds : b.qer[d].pooled => d = b.ambr \/ d \in Held(b)
    BY <1>2, <1>3, <1>5 DEF Tidy
  <2>4. ASSUME NEW d \in Held(b) PROVE b.qer[d].state = "REMOVE" <=> d \notin Kept(b)
    <3>1. d \in QerIds /\ (c.qer[d].state = "REMOVE" <=> d \notin Kept(c))
      BY <1>5, <1>6 DEF Tidy
    <3>2. QED
      BY <1>2, <1>5, <1>7, <3>1
  <2>5. \A d \in QerIds : b.qer[d].pooled /\ d # b.ambr => b.qerUpfMap[b.qer[d].qfi] = d
    BY <1>1, <1>2, <1>3 DEF Tidy
  <2>6. b.ambr # 0 => b.qer[b.ambr].qfi = 1
    BY <1>2, <1>3 DEF Tidy, Good, CtxRec
  <2>7. b.qerUpfMap[0] = 0 /\ b.qerUpfMap[1] = 0
    BY <1>1 DEF Tidy
  <2>8. QED
    BY <2>1, <2>2, <2>3, <2>4, <2>5, <2>6, <2>7 DEF Tidy
<1>9. /\ u.pdrs \cap PathIds = Stays(c)
      /\ \A k \in Stays(c) : u.refs[k] = c.pool[k].qers
      /\ \A d \in QerIds : u.qer[d] # 0 <=> d \in Kept(c)
      /\ \A d \in QerIds : u.qer[d] # 0 => u.qer[d] = c.qer[d].rate
  BY ServedUpf
<1>10. Served(b, u)
  <2>1. u.pdrs = Stays(b)
    BY <1>4, <1>9 DEF UpfRec
  <2>2. \A k \in PathIds : k \in u.pdrs => u.refs[k] = b.pool[k].qers
    BY <1>1, <1>4, <1>9, <2>1
  <2>3. \A k \in Pool(b) : b.pool[k].pdr = "CREATE"
    BY <1>1, <1>3 DEF Pool
  <2>4. \A d \in Held(b) : b.qer[d].state # "INITIAL"
    BY <1>2, <1>5, <1>6
  <2>5. \A d \in QerIds : (u.qer[d] # 0 <=> d \in Kept(b)) /\ (u.qer[d] # 0 => u.qer[d] = b.qer[d].rate)
    BY <1>2, <1>5, <1>9
  <2>6. b.doomed \subseteq Pool(b)
    BY <1>3
  <2>7. QED
    BY <2>1, <2>2, <2>3, <2>4, <2>5, <2>6 DEF Served
<1>11. Private(b, g)
  <2> SUFFICES ASSUME NEW k \in PathIds, NEW d \in b.pool[k].qers \ {b.ambr}
               PROVE  /\ b.pool[k].rule \in Rules
                      /\ RefQos[b.pool[k].rule] \in Qos
                      /\ \A q \in Qos : g[q] = b.qer[d].qfi => q = RefQos[b.pool[k].rule]
    BY DEF Private
  <2>1. d \in c.pool[k].qers \ {c.ambr} /\ d \in QerIds
    BY <1>1, <1>3, <1>6
  <2>2. QED
    BY <1>1, <1>2, <2>1 DEF Private
<1>12. QED
  BY <1>1, <1>3, <1>8, <1>10, <1>11

(* The QERs that leave the pool are those no path keeps. *)
LEMMA PostRemoveQers ==
  ASSUME NEW c, Good(c), Tidy(c), c.doomed \subseteq Pool(c), NEW b, b = PostRemoveDataPath(c)
  PROVE  /\ \A d \in QerIds :
               b.qer[d] = IF d \in Held(c) \ Kept(c) THEN [c.qer[d] EXCEPT !.pooled = FALSE]
                          ELSE c.qer[d]
         /\ \A f \in QFIs :
               b.qerUpfMap[f] = IF \E d \in Held(c) \ Kept(c) : c.qer[d].qfi = f THEN 0
                                ELSE c.qerUpfMap[f]
<1> DEFINE gone == {d \in UNION {c.pool[p].qers : p \in c.doomed} :
                       c.qer[d].state = "REMOVE"}
           w == [f \in QFIs |->
                   IF \E d \in gone : c.qer[d].qfi = f THEN 0 ELSE c.qerUpfMap[f]]
           m == [d \in QerIds |->
                   IF d \in gone THEN [c.qer[d] EXCEPT !.pooled = FALSE]
                   ELSE c.qer[d]]
           l == [p \in PathIds |-> IF p \in c.doomed THEN NoPath ELSE c.pool[p]]
<1>1. b = [c EXCEPT !.qerUpfMap = w, !.qer = m, !.pool = l, !.doomed = {}]
  BY DEF PostRemoveDataPath
<1>2. gone = Held(c) \ Kept(c)
  <2>1. c.doomed \subseteq PathIds
    BY DEF Good, CtxRec
  <2>2. \A d \in gone : d \in Held(c) /\ c.qer[d].state = "REMOVE"
    BY <2>1 DEF Held
  <2>3. ASSUME NEW d \in Held(c), d \notin Kept(c) PROVE d \in gone
    <3>1. PICK k \in PathIds : d \in c.pool[k].qers
      BY DEF Held
    <3>2. k \in c.doomed
      BY <2>3, <3>1 DEF Kept, Stays, Pool, Tidy
    <3>3. QED
      BY <2>3, <3>1, <3>2 DEF Tidy
  <2>4. QED
    BY <2>2, <2>3 DEF Tidy
<1> HIDE DEF gone
<1>3. /\ \A d \in QerIds : m[d] = IF d \in gone THEN [c.qer[d] EXCEPT !.pooled = FALSE]
                                   ELSE c.qer[d]
      /\ \A f \in QFIs : w[f] = IF \E d \in gone : c.qer[d].qfi = f THEN 0
                                  ELSE c.qerUpfMap[f]
  OBVIOUS
<1> HIDE DEF m, w, l
<1>4. b.qer = m /\ b.qerUpfMap = w
  BY <1>1 DEF Good, CtxRec
<1>5. QED
  BY <1>2, <1>3, <1>4

(* Between two notifications nothing is left of the paths removed. *)
LEMMA PostRemoveTidy ==
  ASSUME NEW c, Good(c), Tidy(c), NEW u, Served(c, u), NEW g, Private(c, g),
         Anchors(c) # {}, NEW b, b = PostRemoveDataPath(c)
  PROVE  /\ Tidy(b) /\ Unsent(b, u) /\ Private(b, g)
         /\ \A k \in Pool(b) : b.pool[k].pdr = "CREATE"
         /\ b.doomed = {} /\ b.ambr = c.ambr
         /\ \A f \in QFIs : b.qerUpfMap[f] \in {0, c.qerUpfMap[f]}
         /\ \A k \in PathIds : b.pool[k] = IF k \in c.doomed THEN NoPath ELSE c.pool[k]
         /\ \A d \in QerIds : b.qer[d].rate = c.qer[d].rate
<1>1. /\ b.doomed = {} /\ b.ambr = c.ambr
      /\ \A k \in PathIds : b.pool[k] = IF k \in c.doomed THEN NoPath ELSE c.pool[k]
  BY PostRemoveEffect
<1>2. /\ \A d \in QerIds :
               b.qer[d] = IF d \in Held(c) \ Kept(c) THEN [c.qer[d] EXCEPT !.pooled = FALSE]
                          ELSE c.qer[d]
      /\ \A f \in QFIs :
               b.qerUpfMap[f] = IF \E d \in Held(c) \ Kept(c) : c.qer[d].qfi = f THEN 0
                                ELSE c.qerUpfMap[f]
  BY PostRemoveQers DEF Served
<1>3. /\ Held(c) \subseteq QerIds /\ 0 \notin QerIds /\ Kept(c) \subseteq Held(c)
      /\ \A k \in PathIds : c.pool[k].qers \subseteq Held(c)
  BY HeldIds
<1>4. \A d \in QerIds : /\ b.qer[d].rate = c.qer[d].rate /\ b.qer[d].qfi = c.qer[d].qfi
                        /\ b.qer[d].state = c.qer[d].state
                        /\ b.qer[d].pooled <=> c.qer[d].pooled /\ d \notin Held(c) \ Kept(c)
  <2> SUFFICES ASSUME NEW d \in QerIds
               PROVE  /\ b.qer[d].rate = c.qer[d].rate /\ b.qer[d].qfi = c.qer[d].qfi
                      /\ b.qer[d].state = c.qer[d].state
                      /\ b.qer[d].pooled <=> c.qer[d].pooled /\ d \notin Held(c) \ Kept(c)
    OBVIOUS
  <2>1. c.qer[d] \in QerRec
    BY DEF Good, CtxRec
  <2>2. CASE d \in Held(c) \ Kept(c)
    <3>1. b.qer[d] = [c.qer[d] EXCEPT !.pooled = FALSE]
      BY <1>2, <2>2
    <3>2. QED
      BY <2>1, <2>2, <3>1 DEF QerRec
  <2>3. CASE d \notin Held(c) \ Kept(c)
    BY <1>2, <2>3
  <2>4. QED
    BY <2>2, <2>3
<1>5. Stays(b) = Stays(c) /\ Pool(b) = Stays(c)
  BY <1>1 DEF Stays, Pool, NoPath
<1>6. \A k \in Stays(c) : b.pool[k] = c.pool[k] /\ k \in PathIds
  BY <1>1 DEF Stays, Pool
<1>7. \A k \in PathIds : k \notin Stays(c) => b.pool[k].qers = {}
  BY <1>1 DEF Stays, Pool, NoPath, Tidy
<1>8. Kept(b) = Kept(c) /\ Held(b) = Kept(c)
  <2>1. Kept(b) = Kept(c)
    BY <1>5, <1>6 DEF Kept
  <2>2. Held(b) = Kept(c)
    BY <1>6, <1>7 DEF Held, Kept
  <2>3. QED
    BY <2>1, <2>2
<1>9. ASSUME NEW d \in QerIds, b.qer[d].pooled, d # b.ambr PROVE b.qerUpfMap[b.qer[d].qfi] = d
  <2>1. c.qer[d].pooled /\ d # c.ambr /\ d \in Kept(c) /\ b.qer[d].qfi = c.qer[d].qfi
    BY <1>1, <1>4, <1>9 DEF Tidy
  <2>2. c.qerUpfMap[c.qer[d].qfi] = d /\ c.qer[d].qfi \in QFIs
    BY <2>1 DEF Tidy, Good, CtxRec, QerRec
  <2>3. ~\E e \in Held(c) \ Kept(c) : c.qer[e].qfi = c.qer[d].qfi
    BY <1>3, <2>1, OneQer
  <2>4. QED
    BY <1>2, <2>1, <2>2, <2>3
<1>10. c.ambr \in Kept(c)
  BY DEF Anchors, Kept
<1>11. Tidy(b)
  <2>1. \A k \in PathIds : b.pool[k].pdr = "none" => b.pool[k].qers = {}
    BY <1>6, <1>7 DEF Tidy
  <2>2. \A d \in Held(b) : b.qer[d].pooled /\ b.qer[d].rate # 0
    BY <1>3, <1>4, <1>8 DEF Tidy
  <2>3. \A d \in QerIds : b.qer[d].pooled => d = b.ambr \/ d \in Held(b)
    BY <1>1, <1>4, <1>8 DEF Tidy
  <2>4. \A d \in Held(b) : b.qer[d].state = "REMOVE" <=> d \notin Kept(b)
    BY <1>3, <1>4, <1>8 DEF Tidy
  <2>5. b.ambr # 0 => b.qer[b.ambr].qfi = 1
    BY <1>1, <1>3, <1>4, <1>10 DEF Tidy
  <2>6. b.qerUpfMap[0] = 0 /\ b.qerUpfMap[1] = 0
    BY <1>2, OneQFI DEF Tidy
  <2>7. QED
    BY <1>9, <2>1, <2>2, <2>3, <2>4, <2>5, <2>6 DEF Tidy
<1>12. Unsent(b, u)
  <2>1. \A k \in PathIds : k \in u.pdrs <=> b.pool[k].pdr \in {"CREATE", "REMOVE"}
    BY <1>1, <1>5, <1>6 DEF Served, Stays, Pool, NoPath
  <2>2. \A k \in PathIds : k \in b.doomed <=> b.pool[k].pdr = "REMOVE"
    BY <1>1, <1>5, <1>6 DEF Served, Stays, Pool, NoPath
  <2>3. \A k \in PathIds : k \in u.pdrs =>
          /\ u.refs[k] = b.pool[k].qers
          /\ \A d \in b.pool[k].qers : b.qer[d].state # "INITIAL"
    BY <1>3, <1>4, <1>6 DEF Served
  <2>4. \A d \in QerIds : u.qer[d] # 0 <=> d \in Held(b) /\ b.qer[d].state # "INITIAL"
    BY <1>3, <1>4, <1>8 DEF Served
  <2>5. \A d \in QerIds : u.qer[d] # 0 => u.qer[d] = b.qer[d].rate
    BY <1>4 DEF Served
  <2>6. QED
    BY <1>1, <1>8, <1>10, <2>1, <2>2, <2>3, <2>4, <2>5 DEF Unsent
<1>13. Private(b, g)
  <2> SUFFICES ASSUME NEW k \in PathIds, NEW d \in b.pool[k].qers \ {b.ambr}
               PROVE  /\ b.pool[k].rule \in Rules
                      /\ RefQos[b.pool[k].rule] \in Qos
                      /\ \A q \in Qos : g[q] = b.qer[d].qfi => q = RefQos[b.pool[k].rule]
    BY DEF Private
  <2>1. k \in Stays(c)
    BY <1>7
  <2>2. b.pool[k] = c.pool[k] /\ d \in c.pool[k].qers \ {c.ambr} /\ d \in QerIds
    BY <1>1, <1>3, <1>6, <2>1
  <2>3. QED
    BY <1>4, <2>2 DEF Private
<1>14. QED
  BY <1>1, <1>2, <1>4, <1>5, <1>6, <1>11, <1>12, <1>13 DEF Served, Stays

\* No PFCP request is lost, the PCF sends a QoS datum with its rules, and every
\* AppID has its PFD.
Reliable == ~LossyN4 /\ ~PartialPcf /\ BadRules = {}

\* A rule of an app session has a QoS datum of its own, which the first decision
\* has not; one of traffic influence data has none.
OwnQos ==
    /\ \A r \in AfRules, x \in Rules :
          x # r /\ RefQos[r] # NoQos => RefQos[x] # RefQos[r]
    /\ \A r \in AfRules : RefQos[r] # NoQos => InitQos[RefQos[r]] = 0
    /\ \A r \in InfluenceRules : RefQos[r] = NoQos

\* The rates of a decision come with all the rules they are for.
Whole(rates, rules) ==
    \A r \in Rules : RefQos[r] # NoQos /\ rates[RefQos[r]] # 0 => r \in rules

\* What the PCF sends and what the SMF makes of it: a rule of the decision in
\* work is never one the SMF keeps without a new path.
Requests ==
    /\ InitRules \subseteq pcfRules /\ pcfRules \subseteq InitRules \cup usedIds
    /\ Whole(pcfQos, pcfRules)
    /\ \A n \in net \cup {dec} : n.inst \cap n.del = {} /\ Whole(n.qos, n.inst)
    /\ pc = "inDecision" => \A r \in dec.inst \ todo : PCCRules[r] = NoRule
    /\ pc = "notInDecision" => todo \cap dec.inst = {}

(* The first decision has all its rules. *)
LEMMA RequestsInit == OwnQos /\ Init => Requests
<1> SUFFICES ASSUME OwnQos, Init PROVE Requests
  OBVIOUS
<1>1. dec.inst = InitRules /\ dec.del = {} /\ dec.qos = InitQos
  BY DEF Init, Notify
<1>2. Whole(InitQos, InitRules)
  BY ConstantsOK DEF OwnQos, Whole, Rules, ConstantsOK
<1>3. QED
  BY <1>1, <1>2 DEF Init, Requests

(* The PCF changes rules and QoS data together. *)
LEMMA RequestsPcf ==
  ASSUME Reliable, OwnQos, Inv, Requests, PcfNext
  PROVE  Requests'
<1>1. UNCHANGED <<pc, dec, todo, PCCRules>>
  BY PcfFrame DEF ruleVars
<1>2. /\ AfRules \subseteq Rules /\ InfluenceRules \subseteq Rules
      /\ RefQos \in [Rules -> Qos \cup {NoQos}] /\ NoQos \notin Qos
      /\ InitRules \cap (AfRules \cup InfluenceRules) = {}
      /\ AfRules \cap InfluenceRules = {}
      /\ pcfQos \in [Qos -> RateOr0] /\ \A q \in Qos : NoQosDecs[q] = 0
  BY ConstantsOK DEF ConstantsOK, Rules, Inv, TypeOK, NoQosDecs
<1>3. ASSUME InitRules \subseteq pcfRules', pcfRules' \subseteq InitRules \cup usedIds',
             Whole(pcfQos', pcfRules'),
             \A n \in net' : n \in net \/ (n.inst \cap n.del = {} /\ Whole(n.qos, n.inst))
      PROVE  Requests'
  <2>1. \A n \in net' \cup {dec} : n.inst \cap n.del = {} /\ Whole(n.qos, n.inst)
    BY <1>3 DEF Requests
  <2>2. Whole(pcfQos, pcfRules)'
    BY <1>3 DEF Whole
  <2>3. \A n \in (net \cup {dec})' : n.inst \cap n.del = {} /\ Whole(n.qos, n.inst)'
    BY <1>1, <2>1 DEF Whole
  <2>4. QED
    BY <1>1, <1>3, <2>2, <2>3 DEF Requests
<1>4. ASSUME NEW rate \in Rates, postAppSessCtx(rate) PROVE Requests'
  <2>1. PICK r : r = FreshId(AfRules)
    OBVIOUS
  <2>2. r \in AfRules /\ r \in Rules
    BY <1>2, <1>4, <2>1, FreshIdIn DEF postAppSessCtx
  <2>3. /\ pcfRules' = pcfRules \cup {r} /\ usedIds' = usedIds \cup {r} /\ net' = net
        /\ pcfQos' = [pcfQos EXCEPT ![RefQos[r]] = rate]
    BY <1>4, <2>1 DEF postAppSessCtx
  <2>4. ASSUME NEW x \in Rules, RefQos[x] # NoQos, pcfQos'[RefQos[x]] # 0
        PROVE  x \in pcfRules'
    BY <1>2, <2>2, <2>3, <2>4 DEF OwnQos, Requests, Whole
  <2>5. QED
    BY <1>3, <2>3, <2>4 DEF Whole, Requests
<1>5. ASSUME NEW r \in Rules, SendSMPolicyUpdateNotification(r) PROVE Requests'
  BY <1>3, <1>5 DEF SendSMPolicyUpdateNotification, Notify, Requests
<1>6. ASSUME NEW r \in Rules, NEW rate \in Rates, HandleModAppSessionContext(r, rate)
      PROVE  Requests'
  <2>1. PICK n : n = FreshId(AfRules)
    OBVIOUS
  <2>2. n \in AfRules /\ n \in Rules /\ n \notin pcfRules /\ r \in AfRules /\ r \in pcfRules
    BY <1>2, <1>6, <2>1, FreshIdIn, FreshNew DEF HandleModAppSessionContext, Requests
  <2>3. PICK m : m = Notify(n, "patch", pcfRules', {r}, pcfQos', {RefQos[r]} \cap Qos)
    OBVIOUS
  <2>4. /\ pcfRules' = (pcfRules \ {r}) \cup {n} /\ usedIds' = usedIds \cup {n}
        /\ net' = net \cup {m}
        /\ pcfQos' = [pcfQos EXCEPT ![RefQos[r]] = 0, ![RefQos[n]] = rate]
    BY <1>6, <2>1, <2>3 DEF HandleModAppSessionContext
  <2>5. ASSUME NEW x \in Rules, RefQos[x] # NoQos, pcfQos'[RefQos[x]] # 0
        PROVE  x \in pcfRules'
    <3>1. CASE x = n
      BY <2>4, <3>1
    <3>2. CASE x # n
      <4>1. RefQos[x] # RefQos[n]
        BY <2>2, <2>5, <3>2 DEF OwnQos
      <4>2. RefQos[x] # RefQos[r] /\ pcfQos[RefQos[x]] # 0
        BY <1>2, <2>4, <2>5, <4>1
      <4>3. QED
        BY <2>4, <2>5, <4>2 DEF Requests, Whole
    <3>3. QED
      BY <3>1, <3>2
  <2>6. m.inst = pcfRules' /\ m.del = {r} /\ m.qos = pcfQos' /\ r \notin pcfRules'
    BY <2>2, <2>3, <2>4 DEF Notify
  <2>7. Whole(pcfQos', pcfRules') /\ Whole(m.qos, m.inst)
    BY <2>5, <2>6 DEF Whole
  <2>8. InitRules \subseteq pcfRules' /\ pcfRules' \subseteq InitRules \cup usedIds'
    BY <1>2, <2>2, <2>4 DEF Requests
  <2>9. QED
    BY <1>3, <2>4, <2>6, <2>7, <2>8
<1>7. ASSUME NEW r \in pcfRules, r \in AfRules \cup InfluenceRules, Remove(r)
      PROVE  Requests'
  <2>1. PICK m : m = Notify(r, "delete", {}, {r}, NoQosDecs, {})
    OBVIOUS
  <2>2. /\ pcfRules' = pcfRules \ {r} /\ usedIds' = usedIds /\ net' = net \cup {m}
        /\ pcfQos' = IF RefQos[r] = NoQos THEN pcfQos ELSE [pcfQos EXCEPT ![RefQos[r]] = 0]
    BY <1>7, <2>1 DEF Remove
  <2>3. ASSUME NEW x \in Rules, RefQos[x] # NoQos, pcfQos'[RefQos[x]] # 0
        PROVE  x \in pcfRules'
    BY <1>2, <2>2, <2>3 DEF Requests, Whole
  <2>4. Whole(pcfQos', pcfRules')
    BY <2>3 DEF Whole
  <2>5. m.inst = {} /\ m.qos = NoQosDecs
    BY <2>1 DEF Notify
  <2>6. m.inst \cap m.del = {} /\ Whole(m.qos, m.inst)
    BY <1>2, <2>5 DEF Whole
  <2>7. InitRules \subseteq pcfRules' /\ pcfRules' \subseteq InitRules \cup usedIds'
    BY <1>2, <1>7, <2>2 DEF Requests
  <2>8. QED
    BY <1>3, <2>2, <2>4, <2>6, <2>7
<1>8. ASSUME NewInfluenceData PROVE Requests'
  BY <1>3, <1>8 DEF NewInfluenceData, Requests, Whole
<1>9. \A q, rate : ~UpdateQosData(q, rate)
  BY DEF Reliable, UpdateQosData
<1>10. QED
  BY <1>4, <1>5, <1>6, <1>7, <1>8, <1>9
  DEF PcfNext, HandleDeleteAppSessionContext, RemoveInfluenceData

(* ApplyPccRules handles the rules of the decision before the rest. *)
LEMMA RequestsSmf ==
  ASSUME Reliable, Inv, Requests, SmfNext
  PROVE  Requests'
<1>1. PCCRules \in [Rules -> RuleRec] /\ todo \subseteq Rules /\ dec \in DecRec /\ net \subseteq DecRec
  BY DEF Inv, TypeOK
<1>2. ASSUME UNCHANGED <<pcfRules, pcfQos, usedIds>>, net' \subseteq net, dec' \in net \cup {dec},
             pc' = "inDecision" => \A r \in dec'.inst \ todo' : PCCRules'[r] = NoRule,
             pc' = "notInDecision" => todo' \cap dec'.inst = {}
      PROVE  Requests'
  <2>1. \A n \in net' \cup {dec'} : n.inst \cap n.del = {} /\ Whole(n.qos, n.inst)
    BY <1>2 DEF Requests
  <2>2. QED
    BY <1>2, <2>1 DEF Requests, Whole
<1>3. ASSUME NEW n \in net, HandleSMPolicyUpdateNotify(n) PROVE Requests'
  BY <1>2, <1>3 DEF HandleSMPolicyUpdateNotify, pcfVars
<1>4. ASSUME NEW r \in todo, RemovePccRule(r) \/ InstallPccRule(r) PROVE Requests'
  <2>1. /\ UNCHANGED <<pcfRules, pcfQos, usedIds, net, dec, pc>> /\ todo' = todo \ {r}
        /\ pc = "inDecision" /\ PCCRules' = [PCCRules EXCEPT ![r] = NoRule] /\ r \in Rules
    BY <1>1, <1>4 DEF RemovePccRule, InstallPccRule, pcfVars
  <2>2. \A x \in dec.inst \ todo' : PCCRules'[x] = NoRule
    BY <1>1, <2>1 DEF Requests, DecRec
  <2>3. QED
    BY <1>2, <2>1, <2>2
<1>5. ASSUME NEW r \in todo, KeepPccRule(r) \/ ChangePccRule(r) PROVE Requests'
  BY <1>2, <1>5 DEF KeepPccRule, ChangePccRule, Keep, Requests, pcfVars
<1>6. ASSUME EndInDecision PROVE Requests'
  BY <1>1, <1>2, <1>6 DEF EndInDecision, Requests, DecRec, pcfVars, ruleVars
<1>7. ASSUME EndApplyPccRules \/ ActivateUPFSession \/ ModificationFails \/ EndNotification
      PROVE  Requests'
  BY <1>2, <1>7 DEF EndApplyPccRules, ActivateUPFSession, ModificationFails,
     EndNotification, pcfVars
<1>8. \A r : ~InstallPccRuleFails(r)
  BY DEF Reliable, InstallPccRuleFails
<1>9. QED
  BY <1>3, <1>4, <1>5, <1>6, <1>7, <1>8 DEF SmfNext

(* The parts above, of every state. *)
LEMMA RequestsAlways ==
  ASSUME Reliable, OwnQos
  PROVE  Spec => []Requests
<1>1. Inv /\ Requests /\ [Next]_vars => Requests'
  <2>1. ASSUME Requests, UNCHANGED vars PROVE Requests'
    BY <2>1 DEF Requests, Whole, vars, pcfVars, ruleVars
  <2>2. QED
    BY <2>1, RequestsPcf, RequestsSmf DEF Next, Rest
<1>2. QED
  BY <1>1, RequestsInit, InvAlways, PTL DEF Spec

(* So a rule that is not in the decision keeps its data path. *)
LEMMA OnlyKept ==
  ASSUME Inv, Requests, NEW r \in todo
  PROVE  ~ChangePccRule(r)
<1> SUFFICES ASSUME pc = "notInDecision" PROVE SameQos(r)
  BY DEF ChangePccRule
<1>1. r \in Rules /\ r \notin dec.inst
  BY DEF Inv, TypeOK, Requests
<1>2. RefQos[r] # NoQos => dec.qos[RefQos[r]] = 0
  BY <1>1 DEF Requests, Whole
<1>3. QED
  BY <1>2 DEF SameQos, TargetQos

\* The generator of QFIs never starts over: every QoS datum gets at most one QFI
\* for each rule id the PCF hands out.
EnoughQFIs ==
    /\ IsFiniteSet(Qos) /\ IsFiniteSet(AfRules)
    /\ Cardinality(Qos) + Cardinality(AfRules) + 2 <= MaxQFI

\* the QoS data without QFI, the notifications that make one lose its QFI, the
\* rule ids left
Unnumbered == {q \in Qos : qosDataToQFI[q] = 0}
Releases == {n \in net : n.qdel # {}}
Left == AfRules \ usedIds

\* A QFI is one datum's, taken before the offset.
Distinct ==
    /\ \A q, x \in Qos : qosDataToQFI[q] = qosDataToQFI[x] /\ qosDataToQFI[q] # 0 => q = x
    /\ \A q \in Qos : qosDataToQFI[q] < qfiOffset /\ qosDataToQFI[q] # 1

\* There is a QFI for every datum that may still ask for one.
Spare ==
    /\ \A n \in net : \A q, x \in n.qdel : q = x
    /\ IsFiniteSet(Releases)
    /\ qfiOffset + Cardinality(Unnumbered) + Cardinality(Releases) + Cardinality(Left)
          <= MaxQFI

Numbers == Distinct /\ Spare

(* A rule's QoS datum has its QFI or gets the offset. *)
LEMMA SetQFIEffect ==
  ASSUME EnoughQFIs, Inv, Numbers, NEW r \in Rules, SetQFI(r),
         NEW f, f = AssignQFI(RefQos[r])
  PROVE  /\ RefQos[r] = NoQos \/ qosDataToQFI[RefQos[r]] # 0 =>
               qosDataToQFI' = qosDataToQFI /\ qfiOffset' = qfiOffset
         /\ RefQos[r] # NoQos /\ qosDataToQFI[RefQos[r]] # 0 => f = qosDataToQFI[RefQos[r]]
         /\ RefQos[r] # NoQos /\ qosDataToQFI[RefQos[r]] = 0 =>
               /\ f = qfiOffset /\ qfiOffset' = qfiOffset + 1
               /\ qosDataToQFI' = [qosDataToQFI EXCEPT ![RefQos[r]] = f]
               /\ Unnumbered' = Unnumbered \ {RefQos[r]}
               /\ Cardinality(Unnumbered') + 1 = Cardinality(Unnumbered)
<1> DEFINE q == RefQos[r]
<1>1. /\ q \in Qos \cup {NoQos} /\ NoQos \notin Qos /\ qosDataToQFI \in [Qos -> QFIs]
      /\ qfiOffset \in 2..MaxQFI /\ MaxQFI \in Nat
  BY ConstantsOK DEF ConstantsOK, Inv, TypeOK
<1>2. /\ qosDataToQFI' = [x \in Qos |-> IF x = q THEN AssignQFI(x) ELSE qosDataToQFI[x]]
      /\ qfiOffset' = NextOffset(q)
  BY DEF SetQFI
<1>3. CASE q = NoQos
  <2>1. qosDataToQFI' = qosDataToQFI /\ qfiOffset' = qfiOffset
    BY <1>1, <1>2, <1>3 DEF NextOffset
  <2>2. QED
    BY <1>3, <2>1
<1>4. CASE q # NoQos /\ qosDataToQFI[q] # 0
  <2>1. AssignQFI(q) = qosDataToQFI[q]
    BY <1>4 DEF AssignQFI
  <2>2. qosDataToQFI' = qosDataToQFI /\ qfiOffset' = qfiOffset
    BY <1>1, <1>2, <1>4, <2>1 DEF NextOffset
  <2>3. QED
    BY <1>4, <2>1, <2>2
<1>5. CASE q # NoQos /\ qosDataToQFI[q] = 0
  <2>1. q \in Unnumbered /\ Unnumbered \subseteq Qos /\ IsFiniteSet(Unnumbered)
    <3>1. Unnumbered \subseteq Qos
      BY DEF Unnumbered
    <3>2. QED
      BY <1>1, <1>5, <3>1, FS_Subset DEF Unnumbered, EnoughQFIs
  <2>2. Cardinality(Unnumbered \ {q}) = Cardinality(Unnumbered) - 1
        /\ Cardinality(Unnumbered) \in Nat /\ Cardinality(Unnumbered \ {q}) \in Nat
    BY <2>1, FS_RemoveElement, FS_CardinalityType
  <2>3. Cardinality(Releases) \in Nat /\ Cardinality(Left) \in Nat
    <3>1. Left \subseteq AfRules
      BY DEF Left
    <3>2. QED
      BY <3>1, FS_Subset, FS_CardinalityType DEF Numbers, Spare, EnoughQFIs
  <2>4. qfiOffset < MaxQFI
    BY <1>1, <2>2, <2>3 DEF Numbers, Spare
  <2>5. qfiOffset \in FreeQFIs
    BY <1>1, <2>4 DEF FreeQFIs, Numbers, Distinct, QFIs
  <2> DEFINE ahead == {x \in FreeQFIs : x >= qfiOffset}
  <2>6. Min(ahead) = qfiOffset
    <3>1. qfiOffset \in ahead /\ \A x \in ahead : qfiOffset <= x /\ x \in Nat
      BY <1>1, <2>5 DEF FreeQFIs
    <3> HIDE DEF ahead
    <3>2. PICK m : m = Min(ahead)
      OBVIOUS
    <3>3. m \in ahead /\ \A x \in ahead : m <= x
      BY <3>1, <3>2 DEF Min
    <3>4. m \in Nat /\ m <= qfiOffset /\ qfiOffset <= m
      BY <3>1, <3>3
    <3>5. QED
      BY <1>1, <3>2, <3>4
  <2>7. AssignQFI(q) = qfiOffset
    <3>1. ahead # {}
      BY <1>1, <2>5
    <3>2. NextQFI = Min(ahead)
      BY <3>1 DEF NextQFI
    <3> HIDE DEF ahead
    <3>3. QED
      BY <1>5, <2>5, <2>6, <3>2 DEF AssignQFI
  <2>8. qfiOffset' = qfiOffset + 1
    BY <1>1, <1>2, <1>5, <2>4, <2>7 DEF NextOffset
  <2>9. qosDataToQFI' = [qosDataToQFI EXCEPT ![q] = qfiOffset]
    BY <1>1, <1>2, <2>7
  <2>10. Unnumbered' = Unnumbered \ {q}
    BY <1>1, <1>5, <2>9 DEF Unnumbered
  <2>11. QED
    BY <1>5, <2>2, <2>7, <2>8, <2>9, <2>10
<1>6. QED
  BY <1>3, <1>4, <1>5

(* At first nothing has a QFI. *)
LEMMA NumbersInit == EnoughQFIs /\ Init => Numbers
<1> SUFFICES ASSUME EnoughQFIs, Init PROVE Numbers
  OBVIOUS
<1>1. Unnumbered = Qos /\ Releases = {} /\ Left = AfRules /\ qfiOffset = 2
  BY DEF Init, Unnumbered, Releases, Left
<1>2. Cardinality(Releases) = 0 /\ IsFiniteSet(Releases)
  BY <1>1, FS_EmptySet
<1>3. Cardinality(Qos) \in Nat /\ Cardinality(AfRules) \in Nat /\ MaxQFI \in Nat
  BY ConstantsOK, FS_CardinalityType DEF EnoughQFIs, ConstantsOK
<1>4. Spare
  BY <1>1, <1>2, <1>3 DEF Init, Spare, EnoughQFIs
<1>5. QED
  BY <1>4 DEF Init, Numbers, Distinct

(* A request of an application function takes a rule id for what it may make the
   SMF number. *)
LEMMA NumbersPcf ==
  ASSUME EnoughQFIs, Inv, Numbers, PcfNext
  PROVE  Numbers'
<1>1. UNCHANGED <<qosDataToQFI, qfiOffset>>
  BY PcfFrame DEF ruleVars
<1>2. Distinct' /\ Unnumbered' = Unnumbered
  BY <1>1 DEF Numbers, Distinct, Unnumbered
<1>3. IsFiniteSet(Left) /\ IsFiniteSet(Unnumbered)
  <2>1. Left \subseteq AfRules /\ Unnumbered \subseteq Qos
    BY DEF Left, Unnumbered
  <2>2. QED
    BY <2>1, FS_Subset DEF EnoughQFIs
<1>4. /\ Cardinality(Releases) \in Nat /\ Cardinality(Left) \in Nat
      /\ Cardinality(Unnumbered) \in Nat /\ qfiOffset \in Nat /\ MaxQFI \in Nat
      /\ IsFiniteSet(Releases)
  BY <1>3, ConstantsOK, FS_CardinalityType DEF Numbers, Spare, Inv, TypeOK, ConstantsOK
<1>5. ASSUME usedIds \subseteq usedIds', NEW m, m.qdel = {}, net' \subseteq net \cup {m}
      PROVE  Numbers'
  <2>1. Releases' \subseteq Releases /\ Left' \subseteq Left
    BY <1>5 DEF Releases, Left
  <2>2. /\ Cardinality(Releases') <= Cardinality(Releases) /\ IsFiniteSet(Releases')
        /\ Cardinality(Left') <= Cardinality(Left)
        /\ Cardinality(Releases') \in Nat /\ Cardinality(Left') \in Nat
    BY <1>3, <1>4, <2>1, FS_Subset, FS_CardinalityType
  <2>3. \A n \in net' : \A q, x \in n.qdel : q = x
    BY <1>5 DEF Numbers, Spare
  <2>4. Spare'
    BY <1>1, <1>2, <1>4, <2>2, <2>3 DEF Numbers, Spare
  <2>5. QED
    BY <1>2, <2>4 DEF Numbers
<1>6. NoDec.qdel = {}
  BY DEF NoDec
<1>7. ASSUME NEW rate \in Rates, postAppSessCtx(rate) PROVE Numbers'
  BY <1>5, <1>6, <1>7 DEF postAppSessCtx
<1>8. ASSUME NEW r \in Rules, SendSMPolicyUpdateNotification(r) PROVE Numbers'
  <2>1. PICK m : m = Notify(r, "post", pcfRules, {}, pcfQos, {})
    OBVIOUS
  <2>2. m.qdel = {}
    BY <2>1 DEF Notify
  <2>3. QED
    BY <1>5, <1>8, <2>1, <2>2 DEF SendSMPolicyUpdateNotification
<1>9. ASSUME NEW r \in Rules, NEW rate \in Rates, HandleModAppSessionContext(r, rate)
      PROVE  Numbers'
  <2>1. PICK n : n = FreshId(AfRules)
    OBVIOUS
  <2>2. n \in Left
    <3>1. AfRules \subseteq Rules /\ AfRules \subseteq Nat
      BY ConstantsOK DEF ConstantsOK, Rules
    <3>2. Fresh(AfRules)
      BY <1>9 DEF HandleModAppSessionContext
    <3>3. AfRules \ usedIds \in SUBSET Nat /\ AfRules \ usedIds # {}
      BY <3>1, <3>2 DEF Fresh
    <3>4. QED
      BY <2>1, <3>3, MinIn DEF FreshId, Left
  <2>3. PICK m : m = Notify(n, "patch", pcfRules', {r}, pcfQos', {RefQos[r]} \cap Qos)
    OBVIOUS
  <2>4. /\ usedIds' = usedIds \cup {n} /\ net' = net \cup {m}
        /\ m.qdel = {RefQos[r]} \cap Qos
    BY <1>9, <2>1, <2>3 DEF HandleModAppSessionContext, Notify
  <2>5. Left' = Left \ {n}
    BY <2>4 DEF Left
  <2>6. Cardinality(Left') = Cardinality(Left) - 1
    BY <1>3, <2>2, <2>5, FS_RemoveElement
  <2>7. Releases' \subseteq Releases \cup {m}
    BY <2>4 DEF Releases
  <2>8. /\ IsFiniteSet(Releases') /\ Cardinality(Releases') \in Nat
        /\ Cardinality(Releases') <= Cardinality(Releases) + 1
    <3>1. /\ IsFiniteSet(Releases \cup {m})
          /\ Cardinality(Releases \cup {m}) <= Cardinality(Releases) + 1
      <4>1. /\ IsFiniteSet(Releases \cup {m})
            /\ Cardinality(Releases \cup {m}) =
                 IF m \in Releases THEN Cardinality(Releases) ELSE Cardinality(Releases) + 1
        BY <1>4, FS_AddElement
      <4>2. QED
        BY <1>4, <4>1
    <3>2. /\ IsFiniteSet(Releases') /\ Cardinality(Releases') <= Cardinality(Releases \cup {m})
      BY <2>7, <3>1, FS_Subset
    <3>3. Cardinality(Releases') \in Nat /\ Cardinality(Releases \cup {m}) \in Nat
      BY <3>1, <3>2, FS_CardinalityType
    <3>4. QED
      BY <1>4, <3>1, <3>2, <3>3
  <2>9. \A x \in net' : \A q, y \in x.qdel : q = y
    BY <2>4 DEF Numbers, Spare
  <2>10. Spare'
    BY <1>1, <1>2, <1>4, <2>6, <2>8, <2>9 DEF Numbers, Spare
  <2>11. QED
    BY <1>2, <2>10 DEF Numbers
<1>10. ASSUME NEW r, Remove(r) PROVE Numbers'
  <2>1. PICK m : m = Notify(r, "delete", {}, {r}, NoQosDecs, {})
    OBVIOUS
  <2>2. m.qdel = {}
    BY <2>1 DEF Notify
  <2>3. QED
    BY <1>5, <1>10, <2>1, <2>2 DEF Remove
<1>11. ASSUME NewInfluenceData PROVE Numbers'
  BY <1>5, <1>6, <1>11 DEF NewInfluenceData
<1>12. ASSUME NEW q, NEW rate, UpdateQosData(q, rate) PROVE Numbers'
  <2>1. PICK m : m = Notify(0, "qos", {}, {}, [NoQosDecs EXCEPT ![q] = rate], {})
    OBVIOUS
  <2>2. m.qdel = {}
    BY <2>1 DEF Notify
  <2>3. QED
    BY <1>5, <1>12, <2>1, <2>2 DEF UpdateQosData
<1>13. QED
  BY <1>7, <1>8, <1>9, <1>10, <1>11, <1>12
  DEF PcfNext, HandleDeleteAppSessionContext, RemoveInfluenceData

(* The SMF numbers a datum or takes its number back. *)
LEMMA NumbersSmf ==
  ASSUME Reliable, EnoughQFIs, Inv, Numbers, SmfNext
  PROVE  Numbers'
<1>1. /\ todo \subseteq Rules /\ qosDataToQFI \in [Qos -> QFIs]
      /\ qfiOffset \in Nat /\ MaxQFI \in Nat /\ net \subseteq DecRec
  BY ConstantsOK DEF Inv, TypeOK, ConstantsOK
<1>2. IsFiniteSet(Left) /\ IsFiniteSet(Unnumbered) /\ IsFiniteSet(Releases)
  <2>1. Left \subseteq AfRules /\ Unnumbered \subseteq Qos
    BY DEF Left, Unnumbered
  <2>2. QED
    BY <2>1, FS_Subset DEF EnoughQFIs, Numbers, Spare
<1>3. /\ Cardinality(Releases) \in Nat /\ Cardinality(Left) \in Nat
      /\ Cardinality(Unnumbered) \in Nat
  BY <1>2, FS_CardinalityType
<1>4. ASSUME NEW n \in net, HandleSMPolicyUpdateNotify(n) PROVE Numbers'
  <2>1. /\ UNCHANGED <<qfiOffset, usedIds>> /\ net' = net \ {n}
        /\ qosDataToQFI' = [q \in Qos |-> IF q \in n.qdel THEN 0 ELSE qosDataToQFI[q]]
    BY <1>4 DEF HandleSMPolicyUpdateNotify, pcfVars
  <2>2. Distinct'
    <3>1. \A q \in Qos : qosDataToQFI'[q] \in {0, qosDataToQFI[q]}
      BY <2>1
    <3>2. qfiOffset > 0
      BY DEF Inv, TypeOK
    <3>3. QED
      BY <1>1, <2>1, <3>1, <3>2 DEF Numbers, Distinct
  <2>3. Left' = Left /\ Unnumbered' \subseteq Unnumbered \cup n.qdel
    BY <2>1 DEF Left, Unnumbered
  <2>4. \A m \in net' : \A q, x \in m.qdel : q = x
    BY <2>1 DEF Numbers, Spare
  <2>5. CASE n.qdel = {}
    <3>1. Releases' = Releases /\ Unnumbered' = Unnumbered
      BY <1>1, <2>1, <2>5 DEF Releases, Unnumbered
    <3>2. QED
      BY <2>1, <2>2, <2>3, <2>4, <3>1 DEF Numbers, Spare
  <2>6. CASE n.qdel # {}
    <3>1. PICK q \in n.qdel : n.qdel = {q}
      BY <2>6 DEF Numbers, Spare
    <3>2. n \in Releases /\ Releases' = Releases \ {n}
      BY <2>1, <2>6 DEF Releases
    <3>3. Cardinality(Releases') = Cardinality(Releases) - 1 /\ IsFiniteSet(Releases')
      BY <1>2, <3>2, FS_RemoveElement
    <3>4. /\ IsFiniteSet(Unnumbered \cup {q})
          /\ Cardinality(Unnumbered \cup {q}) <= Cardinality(Unnumbered) + 1
      <4>1. /\ IsFiniteSet(Unnumbered \cup {q})
            /\ Cardinality(Unnumbered \cup {q}) =
                 IF q \in Unnumbered THEN Cardinality(Unnumbered) ELSE Cardinality(Unnumbered) + 1
        BY <1>2, <1>3, FS_AddElement
      <4>2. QED
        BY <1>2, <1>3, <4>1
    <3>5. /\ IsFiniteSet(Unnumbered')
          /\ Cardinality(Unnumbered') <= Cardinality(Unnumbered \cup {q})
      BY <2>3, <3>1, <3>4, FS_Subset
    <3>6. Cardinality(Unnumbered') \in Nat /\ Cardinality(Unnumbered \cup {q}) \in Nat
      BY <3>4, <3>5, FS_CardinalityType
    <3>7. qfiOffset + Cardinality(Unnumbered') + Cardinality(Releases') + Cardinality(Left)
             <= MaxQFI
      BY <1>1, <1>3, <3>3, <3>4, <3>5, <3>6 DEF Numbers, Spare
    <3>8. Spare'
      BY <2>1, <2>3, <2>4, <3>3, <3>7 DEF Spare
    <3>9. QED
      BY <2>2, <3>8 DEF Numbers
  <2>7. QED
    BY <2>5, <2>6
<1>5. ASSUME UNCHANGED <<usedIds, net, qosDataToQFI, qfiOffset>> PROVE Numbers'
  BY <1>5 DEF Numbers, Distinct, Spare, Unnumbered, Releases, Left
<1>6. ASSUME NEW r \in todo, InstallPccRule(r) PROVE Numbers'
  <2>1. SetQFI(r) /\ UNCHANGED <<usedIds, net>> /\ r \in Rules
    BY <1>1, <1>6 DEF InstallPccRule, pcfVars
  <2>2. PICK f : f = AssignQFI(RefQos[r])
    OBVIOUS
  <2>3. /\ RefQos[r] = NoQos \/ qosDataToQFI[RefQos[r]] # 0 =>
               qosDataToQFI' = qosDataToQFI /\ qfiOffset' = qfiOffset
        /\ RefQos[r] # NoQos /\ qosDataToQFI[RefQos[r]] # 0 => f = qosDataToQFI[RefQos[r]]
        /\ RefQos[r] # NoQos /\ qosDataToQFI[RefQos[r]] = 0 =>
               /\ f = qfiOffset /\ qfiOffset' = qfiOffset + 1
               /\ qosDataToQFI' = [qosDataToQFI EXCEPT ![RefQos[r]] = f]
               /\ Unnumbered' = Unnumbered \ {RefQos[r]}
               /\ Cardinality(Unnumbered') + 1 = Cardinality(Unnumbered)
    BY <2>1, <2>2, SetQFIEffect
  <2>4. CASE RefQos[r] = NoQos \/ qosDataToQFI[RefQos[r]] # 0
    BY <1>5, <2>1, <2>3, <2>4
  <2>5. CASE RefQos[r] # NoQos /\ qosDataToQFI[RefQos[r]] = 0
    <3>1. Distinct'
      <4>1. qfiOffset >= 2 /\ \A q \in Qos : qosDataToQFI[q] \in Nat
        BY <1>1 DEF Inv, TypeOK, QFIs
      <4>2. \A q \in Qos : qosDataToQFI'[q] = IF q = RefQos[r] THEN qfiOffset ELSE qosDataToQFI[q]
        BY <1>1, <2>3, <2>5
      <4>3. QED
        BY <1>1, <2>3, <2>5, <4>1, <4>2 DEF Numbers, Distinct
    <3>2. Releases' = Releases /\ Left' = Left
      BY <2>1 DEF Releases, Left
    <3>3. Cardinality(Unnumbered') \in Nat
      <4>1. IsFiniteSet(Unnumbered')
        BY <1>2, <2>3, <2>5, FS_Subset
      <4>2. QED
        BY <4>1, FS_CardinalityType
    <3>4. Spare'
      BY <1>1, <1>3, <2>1, <2>3, <2>5, <3>2, <3>3 DEF Numbers, Spare
    <3>5. QED
      BY <3>1, <3>4 DEF Numbers
  <2>6. QED
    BY <2>4, <2>5
<1>7. ASSUME NEW r \in todo, RemovePccRule(r) \/ KeepPccRule(r) \/ ChangePccRule(r)
      PROVE  Numbers'
  BY <1>5, <1>7 DEF RemovePccRule, KeepPccRule, ChangePccRule, Keep, pcfVars
<1>8. ASSUME EndInDecision \/ EndApplyPccRules \/ ActivateUPFSession
             \/ ModificationFails \/ EndNotification
      PROVE  Numbers'
  BY <1>5, <1>8 DEF EndInDecision, EndApplyPccRules, ActivateUPFSession,
     ModificationFails, EndNotification, pcfVars, ruleVars
<1>9. \A r : ~InstallPccRuleFails(r)
  BY DEF Reliable, InstallPccRuleFails
<1>10. QED
  BY <1>4, <1>6, <1>7, <1>8, <1>9 DEF SmfNext

(* QFIs never run out. *)
LEMMA NumbersAlways ==
  ASSUME Reliable, EnoughQFIs
  PROVE  Spec => []Numbers
<1>1. Inv /\ Numbers /\ [Next]_vars => Numbers'
  <2>1. ASSUME Numbers, UNCHANGED vars PROVE Numbers'
    BY <2>1 DEF Numbers, Distinct, Spare, Unnumbered, Releases, Left, vars, pcfVars, ruleVars
  <2>2. QED
    BY <2>1, NumbersPcf, NumbersSmf DEF Next, Rest
<1>2. QED
  BY <1>1, NumbersInit, InvAlways, PTL DEF Spec

\* No QER has a QFI from the offset o on.
Unused(c, o) == \A f \in QFIs : f >= o => c.qerUpfMap[f] = 0

\* A rule still to be installed with a rate does not find a QER that is to go.
Unclaimed ==
    pc = "inDecision" =>
        \A d \in Held(ctx) \ Kept(ctx) : \A r \in todo \cap dec.inst :
            RefQos[r] # NoQos /\ TargetQos(RefQos[r]) # 0
                => qosDataToQFI[RefQos[r]] # ctx.qer[d].qfi

\* The UPF is what the SMF's record of it says, at every step of the handler.
InSync ==
    /\ Tidy(ctx) /\ Private(ctx, qosDataToQFI) /\ Unused(ctx, qfiOffset)
    /\ pc # "postRemove" => Unsent(ctx, upf)
    /\ pc = "postRemove" => est /\ Served(ctx, upf)
    /\ pc = "idle" => est /\ \A k \in Pool(ctx) : ctx.pool[k].pdr = "CREATE"
    /\ ~est => upf.pdrs = {}
    /\ Deciding => \A r \in Rules : Pending(r) /\ PCCRules[r] # NoRule
                                       => ctx.pool[OldPath(r)].pdr = "CREATE"
    /\ Unclaimed

\* b is context c once rule r has path p for QFI f and rate v, and its old path
\* o is marked.
Replaced(c, b, p, o, r, f, v) ==
    /\ \A k \in PathIds \ {p} : /\ b.pool[k].qers = c.pool[k].qers
                                /\ b.pool[k].rule = c.pool[k].rule
    /\ \A k \in PathIds \ {p, o} : b.pool[k] = c.pool[k]
    /\ b.pool[p].rule = r
    /\ c.ambr # 0 => b.ambr = c.ambr
    /\ RefQos[r] # NoQos /\ v # 0 =>
          /\ b.qerUpfMap[f] \in b.pool[p].qers \ {b.ambr}
          /\ b.qer[b.qerUpfMap[f]].rate = v \/ b.qerUpfMap[f] \in Held(c)
          /\ b.pool[p].qers \subseteq {b.ambr, b.qerUpfMap[f]}
    /\ RefQos[r] = NoQos \/ v = 0 => b.pool[p].qers \subseteq {b.ambr}
    /\ \A x \in QFIs : x # f \/ RefQos[r] = NoQos => b.qerUpfMap[x] = c.qerUpfMap[x]
    /\ Held(b) = Held(c) \cup b.pool[p].qers
    /\ b.pool[p].qers \subseteq Kept(b)
    /\ o = 0 => Kept(b) = Kept(c) \cup b.pool[p].qers
    /\ o # 0 => Kept(b) \cup c.pool[o].qers = Kept(c) \cup b.pool[p].qers
    /\ \A d \in Held(c) : b.qer[d].rate = c.qer[d].rate /\ b.qer[d].qfi = c.qer[d].qfi

(* The QFI of a rule that is installed is its datum's own, and the QER it leads
   to is one that stays. *)
LEMMA InstallNumber ==
  ASSUME EnoughQFIs, Inv, Numbers, InSync, NEW r \in todo, InstallPccRule(r),
         NEW f, f = AssignQFI(RefQos[r]), NEW g, g = qosDataToQFI'
  PROVE  /\ Private(ctx, g)
         /\ RefQos[r] # NoQos =>
               /\ f # 0 /\ f # 1 /\ g[RefQos[r]] = f /\ f < qfiOffset'
               /\ \A x \in Qos : g[x] = f => x = RefQos[r]
               /\ TargetQos(RefQos[r]) # 0 /\ ctx.qerUpfMap[f] # 0
                     => ctx.qerUpfMap[f] \in Kept(ctx)
         /\ qfiOffset <= qfiOffset'
         /\ \A x \in Qos : g[x] = qosDataToQFI[x] \/ g[x] = qfiOffset
<1> DEFINE q == RefQos[r]
<1>1. /\ r \in Rules /\ q \in Qos \cup {NoQos} /\ NoQos \notin Qos
      /\ qosDataToQFI \in [Qos -> QFIs] /\ qfiOffset \in 2..MaxQFI /\ MaxQFI \in Nat
      /\ SetQFI(r) /\ r \in dec.inst /\ pc = "inDecision" /\ Good(ctx)
  BY ConstantsOK, GoodStep DEF ConstantsOK, Inv, TypeOK, InstallPccRule
<1>2. /\ RefQos[r] = NoQos \/ qosDataToQFI[RefQos[r]] # 0 =>
               qosDataToQFI' = qosDataToQFI /\ qfiOffset' = qfiOffset
      /\ RefQos[r] # NoQos /\ qosDataToQFI[RefQos[r]] # 0 => f = qosDataToQFI[RefQos[r]]
      /\ RefQos[r] # NoQos /\ qosDataToQFI[RefQos[r]] = 0 =>
            /\ f = qfiOffset /\ qfiOffset' = qfiOffset + 1
            /\ qosDataToQFI' = [qosDataToQFI EXCEPT ![RefQos[r]] = f]
            /\ Unnumbered' = Unnumbered \ {RefQos[r]}
            /\ Cardinality(Unnumbered') + 1 = Cardinality(Unnumbered)
  BY <1>1, SetQFIEffect
<1>3. \A x \in Qos : /\ qosDataToQFI[x] < qfiOffset /\ qosDataToQFI[x] # 1
                     /\ qosDataToQFI[x] \in Nat /\ qosDataToQFI[x] \in QFIs
  BY <1>1 DEF Numbers, Distinct, QFIs
<1>4. \A x \in Qos : g[x] = qosDataToQFI[x] \/ (x = q /\ g[x] = qfiOffset /\ f = qfiOffset)
  BY <1>1, <1>2
<1>5. qfiOffset <= qfiOffset'
  BY <1>1, <1>2
<1>6. q # NoQos => /\ f # 0 /\ f # 1 /\ g[q] = f /\ f < qfiOffset'
                   /\ \A x \in Qos : g[x] = f => x = q
  <2>1. CASE q # NoQos /\ qosDataToQFI[q] = 0
    <3>1. f = qfiOffset /\ g[q] = f /\ f < qfiOffset' /\ f # 0 /\ f # 1
      BY <1>1, <1>2, <2>1
    <3>2. \A x \in Qos : g[x] = f => x = q
      BY <1>1, <1>3, <1>4, <3>1
    <3>3. QED
      BY <3>1, <3>2
  <2>2. CASE q # NoQos /\ qosDataToQFI[q] # 0
    <3>1. g = qosDataToQFI /\ f = g[q] /\ qfiOffset' = qfiOffset
      BY <1>2, <2>2
    <3>2. QED
      BY <1>1, <1>3, <2>2, <3>1 DEF Numbers, Distinct
  <2>3. QED
    BY <2>1, <2>2
<1>7. ASSUME q # NoQos, TargetQos(q) # 0, ctx.qerUpfMap[f] # 0
      PROVE  ctx.qerUpfMap[f] \in Kept(ctx)
  <2>1. qosDataToQFI[q] # 0
    BY <1>1, <1>2, <1>7 DEF InSync, Unused, QFIs
  <2>2. f = qosDataToQFI[q] /\ f \in QFIs /\ f # 1
    BY <1>1, <1>2, <1>3, <1>7, <2>1
  <2>3. PICK d : d = ctx.qerUpfMap[f]
    OBVIOUS
  <2>4. d \in QerIds /\ ctx.qer[d].pooled /\ ctx.qer[d].qfi = f
    BY <1>1, <1>7, <2>2, <2>3 DEF Good, CtxRec, MapLive
  <2>5. d \in Held(ctx)
    BY <1>7, <2>2, <2>3, <2>4 DEF InSync, Tidy
  <2>6. QED
    BY <1>1, <1>7, <2>2, <2>3, <2>4, <2>5 DEF InSync, Unclaimed
<1>8. Private(ctx, g)
  <2> SUFFICES ASSUME NEW k \in PathIds, NEW d \in ctx.pool[k].qers \ {ctx.ambr}
               PROVE  /\ ctx.pool[k].rule \in Rules
                      /\ RefQos[ctx.pool[k].rule] \in Qos
                      /\ \A x \in Qos : g[x] = ctx.qer[d].qfi => x = RefQos[ctx.pool[k].rule]
    BY DEF Private
  <2>1. d \in Held(ctx) /\ Tidy(ctx)
    BY <1>1, HeldIds DEF InSync
  <2>2. ctx.qerUpfMap[ctx.qer[d].qfi] # 0 /\ ctx.qer[d].qfi \in QFIs
    BY <1>1, <2>1, QerNumber
  <2>3. ctx.qer[d].qfi # qfiOffset
    BY <1>1, <2>2 DEF InSync, Unused, QFIs
  <2>4. QED
    BY <1>4, <2>3 DEF InSync, Private
<1>9. QED
  BY <1>4, <1>5, <1>6, <1>7, <1>8

(* A rule installed: its new path, then the mark of the old one. *)
LEMMA InstallSync ==
  ASSUME EnoughQFIs, Inv, Owners, AmbrInv, Numbers, InSync, NEW r \in todo,
         InstallPccRule(r), NEW p, p = Min(FreshPaths(ctx)),
         NEW f, f = AssignQFI(RefQos[r]), NEW v, v = TargetQos(RefQos[r]),
         NEW g, g = qosDataToQFI', NEW b, b = ctx'
  PROVE  /\ Tidy(b) /\ Unsent(b, upf) /\ Private(b, g) /\ Good(b)
         /\ Replaced(ctx, b, p, OldPath(r), r, f, v)
         /\ p \in PathIds \ Pool(ctx)
<1> DEFINE q == RefQos[r]
           o == OldPath(r)
<1>1. /\ r \in Rules /\ q \in Qos \cup {NoQos} /\ pc = "inDecision" /\ Deciding /\ Pending(r)
      /\ Good(ctx) /\ FreshPaths(ctx) # {} /\ Cardinality(FreshQers(ctx)) > 1
      /\ b = PreRemoveDataPath(CreatePccRuleDataPath(ctx, p, r, f, v), o)
      /\ qosDataToQFI \in [Qos -> QFIs] /\ qfiOffset \in 2..MaxQFI
  BY ConstantsOK, GoodStep
  DEF ConstantsOK, Inv, TypeOK, InstallPccRule, Deciding, Pending, NewThenOld, OldPath
<1>2. p \in PathIds \ Pool(ctx) /\ f \in QFIs /\ v \in RateOr0
  BY <1>1, FreshPathNew, QFIType, TargetType DEF Inv
<1>3. /\ Private(ctx, g)
      /\ q # NoQos => /\ f # 0 /\ f # 1 /\ \A x \in Qos : g[x] = f => x = q
                      /\ v # 0 /\ ctx.qerUpfMap[f] # 0 => ctx.qerUpfMap[f] \in Kept(ctx)
  BY InstallNumber
<1>4. AmbrFine(ctx) /\ Tidy(ctx) /\ Unsent(ctx, upf)
  BY <1>1 DEF AmbrInv, AmbrHeld, InSync
<1>5. PICK e : e = CreatePccRuleDataPath(ctx, p, r, f, v)
  OBVIOUS
<1>6. /\ Tidy(e) /\ Unsent(e, upf) /\ Private(e, g)
      /\ RefQos[r] # NoQos /\ v # 0 =>
            /\ e.qerUpfMap[f] \in e.pool[p].qers \ {e.ambr}
            /\ \/ e.qer[e.qerUpfMap[f]].rate = v
               \/ e.qerUpfMap[f] \in Held(ctx)
            /\ e.pool[p].qers \subseteq {e.ambr, e.qerUpfMap[f]}
      /\ RefQos[r] = NoQos \/ v = 0 => e.pool[p].qers \subseteq {e.ambr}
      /\ \A x \in QFIs : x # f \/ RefQos[r] = NoQos => e.qerUpfMap[x] = ctx.qerUpfMap[x]
      /\ Held(e) = Held(ctx) \cup e.pool[p].qers
      /\ Kept(e) = Kept(ctx) \cup e.pool[p].qers
      /\ \A d \in Held(ctx) : e.qer[d] = ctx.qer[d]
  BY <1>1, <1>2, <1>3, <1>4, <1>5, CreateTidy
<1>7. Good(e) /\ Created(ctx, e, p, r)
  BY <1>1, <1>2, <1>5, CreateGood, CreateEffect
<1>8. /\ \A k \in PathIds : k # p => e.pool[k] = ctx.pool[k]
      /\ e.pool[p].rule = r /\ e.pool[p].pdr = "INITIAL"
      /\ ctx.ambr # 0 => e.ambr = ctx.ambr
  BY <1>7 DEF Created
<1>9. /\ Pool(e) = Pool(ctx) \cup {p} /\ Stays(e) = Stays(ctx) \cup {p}
      /\ p \notin ctx.doomed
  BY <1>1, <1>2, <1>7, CreatedStays DEF Owners
<1>10. CASE o = 0
  <2>1. b = e
    BY <1>1, <1>5, <1>10 DEF PreRemoveDataPath
  <2>2. Replaced(ctx, e, p, o, r, f, v)
    BY <1>6, <1>8, <1>10 DEF Replaced
  <2>3. QED
    BY <1>2, <1>6, <1>7, <2>1, <2>2
<1>11. CASE o # 0
  <2>1. o \in Stays(ctx) /\ o # p /\ ctx.pool[o].pdr = "CREATE" /\ o \in PathIds
    <3>1. PCCRules[r] # NoRule
      BY <1>11 DEF OldPath, NoRule
    <3>2. o \in Stays(ctx)
      BY <1>1, <3>1 DEF Owners, Owns, OldPath
    <3>3. QED
      BY <1>1, <1>2, <3>1, <3>2 DEF InSync, Stays, Pool
  <2>2. o \in Stays(e) /\ e.pool[o] = ctx.pool[o]
    BY <1>8, <1>9, <2>1
  <2>3. b = PreRemoveDataPath(e, o)
    BY <1>1, <1>5
  <2> HIDE DEF o
  <2>4. /\ Tidy(b) /\ Unsent(b, upf) /\ Private(b, g)
        /\ Held(b) = Held(e) /\ Kept(e) = Kept(b) \cup e.pool[o].qers
        /\ Stays(b) = Stays(e) \ {o}
        /\ b.qerUpfMap = e.qerUpfMap /\ b.ambr = e.ambr
        /\ \A k \in PathIds : /\ b.pool[k].qers = e.pool[k].qers
                              /\ b.pool[k].rule = e.pool[k].rule
        /\ \A d \in QerIds : b.qer[d] = [e.qer[d] EXCEPT !.state = b.qer[d].state]
    BY <1>6, <1>7, <2>1, <2>2, <2>3, MarkTidy
  <2>5. Good(b) /\ Marked(e, b, o)
    BY <1>7, <2>1, <2>3, PreRemoveGood, PreRemoveEffect
  <2>6. \A k \in PathIds \ {o} : b.pool[k] = e.pool[k]
    BY <2>5 DEF Marked
  <2>7. \A d \in QerIds : b.qer[d].rate = e.qer[d].rate /\ b.qer[d].qfi = e.qer[d].qfi
    <3> SUFFICES ASSUME NEW d \in QerIds
                 PROVE  b.qer[d].rate = e.qer[d].rate /\ b.qer[d].qfi = e.qer[d].qfi
      OBVIOUS
    <3>1. b.qer[d] = [e.qer[d] EXCEPT !.state = b.qer[d].state] /\ e.qer[d] \in QerRec
      BY <1>7, <2>4 DEF Good, CtxRec
    <3>2. QED
      BY <3>1 DEF QerRec
  <2>8. Held(ctx) \subseteq QerIds /\ Held(e) \subseteq QerIds
    BY <1>1, <1>7, HeldIds
  <2>9. b.pool[p].qers = e.pool[p].qers /\ b.pool[p].rule = r
    BY <1>2, <1>8, <2>4
  <2>10. /\ \A k \in PathIds \ {p} : /\ b.pool[k].qers = ctx.pool[k].qers
                                     /\ b.pool[k].rule = ctx.pool[k].rule
         /\ \A k \in PathIds \ {p, o} : b.pool[k] = ctx.pool[k]
    BY <1>8, <2>4, <2>6
  <2>11. b.pool[p].qers \subseteq Kept(b)
    <3>1. p \in Stays(b)
      BY <1>9, <2>1, <2>4
    <3>2. QED
      BY <3>1 DEF Kept
  <2>12. RefQos[r] # NoQos /\ v # 0 =>
            /\ b.qerUpfMap[f] \in b.pool[p].qers \ {b.ambr}
            /\ b.qer[b.qerUpfMap[f]].rate = v \/ b.qerUpfMap[f] \in Held(ctx)
            /\ b.pool[p].qers \subseteq {b.ambr, b.qerUpfMap[f]}
    <3> SUFFICES ASSUME RefQos[r] # NoQos, v # 0
                 PROVE  /\ b.qerUpfMap[f] \in b.pool[p].qers \ {b.ambr}
                        /\ b.qer[b.qerUpfMap[f]].rate = v \/ b.qerUpfMap[f] \in Held(ctx)
                        /\ b.pool[p].qers \subseteq {b.ambr, b.qerUpfMap[f]}
      OBVIOUS
    <3>1. e.qerUpfMap[f] \in Held(e)
      BY <1>6
    <3>2. b.qer[e.qerUpfMap[f]].rate = e.qer[e.qerUpfMap[f]].rate
      BY <2>7, <2>8, <3>1
    <3>3. QED
      BY <1>6, <2>4, <2>9, <3>2
  <2>13. Replaced(ctx, b, p, o, r, f, v)
    <3>1. \A d \in Held(ctx) : b.qer[d].rate = ctx.qer[d].rate /\ b.qer[d].qfi = ctx.qer[d].qfi
      BY <1>6, <2>7, <2>8
    <3>2. Kept(b) \cup ctx.pool[o].qers = Kept(ctx) \cup b.pool[p].qers
      BY <1>6, <2>2, <2>4, <2>9
    <3>3. /\ \A x \in QFIs : x # f \/ RefQos[r] = NoQos => b.qerUpfMap[x] = ctx.qerUpfMap[x]
          /\ Held(b) = Held(ctx) \cup b.pool[p].qers
          /\ RefQos[r] = NoQos \/ v = 0 => b.pool[p].qers \subseteq {b.ambr}
          /\ ctx.ambr # 0 => b.ambr = ctx.ambr
      BY <1>6, <1>8, <2>4, <2>9
    <3>4. QED
      BY <1>11, <2>9, <2>10, <2>11, <2>12, <3>1, <3>2, <3>3 DEF Replaced, o
  <2>14. QED
    BY <1>2, <2>4, <2>5, <2>13 DEF o
<1>12. QED
  BY <1>10, <1>11

(* What a step has to show. *)
LEMMA SyncPrime ==
  ASSUME NEW b, b = ctx', NEW u, u = upf', NEW g, g = qosDataToQFI', NEW o, o = qfiOffset',
         Tidy(b), Private(b, g), Unused(b, o),
         pc' # "postRemove" => Unsent(b, u),
         pc' = "postRemove" => est' /\ Served(b, u),
         pc' = "idle" => est' /\ \A k \in Pool(b) : b.pool[k].pdr = "CREATE",
         ~est' => u.pdrs = {},
         Deciding' => \A r \in Rules : (pc' = "notInDecision" => r \in todo') /\ PCCRules'[r] # NoRule
                                          => b.pool[PCCRules'[r].path].pdr = "CREATE",
         pc' = "inDecision" =>
            \A d \in Held(b) \ Kept(b) : \A r \in todo' \cap dec'.inst :
               RefQos[r] # NoQos /\ TargetQos(RefQos[r])' # 0 => g[RefQos[r]] # b.qer[d].qfi
  PROVE  InSync'
<1>1. /\ Tidy(ctx)' /\ Private(ctx, qosDataToQFI)' /\ Unused(ctx, qfiOffset)'
  BY DEF Tidy, Private, Unused, Held, Kept, Stays, Pool
<1>2. (pc # "postRemove" => Unsent(ctx, upf))'
  BY DEF Unsent, Held
<1>3. (pc = "postRemove" => est /\ Served(ctx, upf))'
  BY DEF Served, Held, Kept, Stays, Pool
<1>4. (pc = "idle" => est /\ \A k \in Pool(ctx) : ctx.pool[k].pdr = "CREATE")'
  BY DEF Pool
<1>5. (Deciding => \A r \in Rules : Pending(r) /\ PCCRules[r] # NoRule
                                       => ctx.pool[OldPath(r)].pdr = "CREATE")'
  BY DEF Pending, OldPath
<1>6. Unclaimed'
  BY DEF Unclaimed, Held, Kept, Stays, Pool
<1>7. QED
  BY <1>1, <1>2, <1>3, <1>4, <1>5, <1>6 DEF InSync

(* In the first state the SMF has no path and the UPF no rule. *)
LEMMA SyncInit == Init => InSync
<1> SUFFICES ASSUME Init PROVE InSync
  OBVIOUS
<1>1. /\ \A p \in PathIds : ctx.pool[p].pdr = "none" /\ ctx.pool[p].qers = {}
      /\ \A d \in QerIds : ~ctx.qer[d].pooled
      /\ \A f \in QFIs : ctx.qerUpfMap[f] = 0
      /\ ctx.ambr = 0 /\ ctx.doomed = {}
      /\ upf.pdrs = {} /\ \A d \in QerIds : upf.qer[d] = 0
  BY DEF Init, NoPath, NoQer
<1>2. Held(ctx) = {} /\ Pool(ctx) = {}
  BY <1>1 DEF Held, Pool
<1>3. Tidy(ctx)
  BY <1>1, <1>2, OneQFI DEF Tidy
<1>4. Unsent(ctx, upf)
  BY <1>1, <1>2 DEF Unsent
<1>5. Private(ctx, qosDataToQFI) /\ Unused(ctx, qfiOffset)
  BY <1>1 DEF Private, Unused
<1>6. Unclaimed
  BY <1>2 DEF Unclaimed
<1>7. QED
  BY <1>1, <1>2, <1>3, <1>4, <1>5, <1>6 DEF Init, InSync, Deciding

(* Between two notifications nothing is marked. *)
LEMMA IdleKept ==
  ASSUME Inv, InSync, pc = "idle"
  PROVE  ctx.doomed = {} /\ Held(ctx) = Kept(ctx)
<1>1. Good(ctx) /\ \A k \in PathIds : k \in ctx.doomed <=> ctx.pool[k].pdr = "REMOVE"
  BY GoodStep DEF InSync, Unsent
<1>2. ctx.doomed = {}
  BY <1>1 DEF InSync, Pool, Good, CtxRec
<1>3. ASSUME NEW k \in PathIds, NEW d \in ctx.pool[k].qers PROVE d \in Kept(ctx)
  <2>1. k \in Stays(ctx)
    BY <1>2 DEF InSync, Tidy, Stays, Pool
  <2>2. QED
    BY <2>1 DEF Kept
<1>4. Held(ctx) \subseteq Kept(ctx)
  BY <1>3 DEF Held
<1>5. QED
  BY <1>1, <1>2, <1>4, HeldIds

(* A rule taken out marks its path; no rule of the decision shares its datum. *)
LEMMA RemoveSync ==
  ASSUME OwnQos, Inv, Owners, AmbrInv, Requests, Numbers, InSync,
         NEW r \in todo, RemovePccRule(r)
  PROVE  InSync'
<1> DEFINE o == OldPath(r)
<1>1. /\ r \in Rules /\ r \in dec.del /\ pc = "inDecision" /\ pc' = pc /\ todo' = todo \ {r}
      /\ Deciding /\ Pending(r) /\ Good(ctx) /\ dec \in DecRec
      /\ UNCHANGED <<dec, QosDatas, qosDataToQFI, qfiOffset, est, upf>>
      /\ ctx' = PreRemoveDataPath(ctx, o)
      /\ PCCRules' = [PCCRules EXCEPT ![r] = NoRule]
      /\ PCCRules \in [Rules -> RuleRec]
  BY GoodStep DEF Inv, TypeOK, RemovePccRule, Deciding, Pending, OldPath
<1>2. \A x \in dec.inst : TargetQos(RefQos[x])' = TargetQos(RefQos[x])
  BY <1>1 DEF TargetQos, SourceQos
<1>3. PICK b : b = ctx'
  OBVIOUS
<1>4. CASE o = 0
  <2>1. ctx' = ctx
    BY <1>1, <1>4 DEF PreRemoveDataPath
  <2>2. Deciding => \A x \in Rules : (pc' = "notInDecision" => x \in todo') /\ PCCRules'[x] # NoRule
                                        => ctx.pool[PCCRules'[x].path].pdr = "CREATE"
    BY <1>1 DEF InSync, OldPath, Pending
  <2>3. pc = "inDecision" =>
            \A d \in Held(ctx) \ Kept(ctx) : \A x \in todo' \cap dec.inst :
               RefQos[x] # NoQos /\ TargetQos(RefQos[x])' # 0
                  => qosDataToQFI[RefQos[x]] # ctx.qer[d].qfi
    BY <1>1, <1>2 DEF InSync, Unclaimed
  <2>4. QED
    BY <1>1, <2>1, <2>2, <2>3, SyncPrime DEF InSync, Deciding
<1>5. CASE o # 0
  <2>1. PCCRules[r] # NoRule
    BY <1>5 DEF OldPath, NoRule
  <2>2. /\ o \in Stays(ctx) /\ ctx.pool[o].rule = r /\ ctx.pool[o].pdr = "CREATE"
        /\ o \in PathIds
    BY <1>1, <2>1 DEF Owners, Owns, OldPath, InSync, Stays, Pool
  <2>3. Tidy(ctx) /\ Unsent(ctx, upf) /\ Private(ctx, qosDataToQFI)
    BY <1>1 DEF InSync
  <2> HIDE DEF o
  <2>4. /\ Tidy(b) /\ Unsent(b, upf) /\ Private(b, qosDataToQFI)
        /\ Held(b) = Held(ctx) /\ Kept(ctx) = Kept(b) \cup ctx.pool[o].qers
        /\ Stays(b) = Stays(ctx) \ {o}
        /\ b.qerUpfMap = ctx.qerUpfMap /\ b.ambr = ctx.ambr
        /\ \A k \in PathIds : /\ b.pool[k].qers = ctx.pool[k].qers
                              /\ b.pool[k].rule = ctx.pool[k].rule
        /\ \A d \in QerIds : b.qer[d] = [ctx.qer[d] EXCEPT !.state = b.qer[d].state]
    BY <1>1, <1>3, <2>2, <2>3, MarkTidy
  <2>5. \A k \in PathIds : k # o => b.pool[k] = ctx.pool[k]
    <3>1. Marked(ctx, b, o)
      BY <1>1, <1>3, <2>2, PreRemoveEffect
    <3>2. QED
      BY <3>1 DEF Marked
  <2>6. \A x \in Rules : PCCRules'[x] # NoRule => b.pool[PCCRules'[x].path].pdr = "CREATE"
    <3> SUFFICES ASSUME NEW x \in Rules, PCCRules'[x] # NoRule
                 PROVE  b.pool[PCCRules'[x].path].pdr = "CREATE"
      OBVIOUS
    <3>1. x # r /\ PCCRules'[x] = PCCRules[x] /\ Pending(x)
      BY <1>1 DEF Pending
    <3>2. OldPath(x) \in Stays(ctx) /\ ctx.pool[OldPath(x)].rule = x
      BY <3>1 DEF Owners, Owns, OldPath
    <3>3. OldPath(x) # o /\ OldPath(x) \in PathIds
      BY <2>2, <3>1, <3>2 DEF Stays, Pool
    <3>4. QED
      BY <1>1, <2>5, <3>1, <3>3 DEF InSync, OldPath
  <2>7. ASSUME NEW d \in Held(b) \ Kept(b), NEW x \in todo' \cap dec.inst,
               RefQos[x] # NoQos, TargetQos(RefQos[x])' # 0
        PROVE  qosDataToQFI[RefQos[x]] # b.qer[d].qfi
    <3>1. d \in QerIds /\ b.qer[d].qfi = ctx.qer[d].qfi
      <4>1. d \in QerIds
        BY <1>1, <2>4, HeldIds
      <4>2. ctx.qer[d] \in QerRec /\ b.qer[d] = [ctx.qer[d] EXCEPT !.state = b.qer[d].state]
        BY <1>1, <2>4, <4>1 DEF Good, CtxRec
      <4>3. QED
        BY <4>1, <4>2 DEF QerRec
    <3>2. /\ x \in Rules /\ x \in todo /\ x \in dec.inst /\ TargetQos(RefQos[x]) # 0
          /\ RefQos[x] \in Qos
      BY <1>1, <1>2, <2>7, ConstantsOK DEF Inv, TypeOK, ConstantsOK
    <3>3. CASE d \notin Kept(ctx)
      BY <1>1, <2>4, <2>7, <3>1, <3>2, <3>3 DEF InSync, Unclaimed
    <3>4. CASE d \in Kept(ctx) /\ d = ctx.ambr
      BY <1>1, <3>1, <3>2, <3>4, HeldIds DEF InSync, Tidy, Numbers, Distinct
    <3>5. CASE d \in Kept(ctx) /\ d # ctx.ambr
      <4>1. d \in ctx.pool[o].qers \ {ctx.ambr}
        BY <2>4, <2>7, <3>5
      <4>2. SUFFICES ASSUME qosDataToQFI[RefQos[x]] = ctx.qer[d].qfi PROVE FALSE
        BY <3>1
      <4>3. RefQos[x] = RefQos[r] /\ RefQos[r] \in Qos
        BY <2>2, <2>3, <3>2, <4>1, <4>2 DEF Private
      <4>4. r \notin InitRules /\ x # r
        BY <1>1, <3>2 DEF AmbrInv, Deletions, Requests
      <4>5. r \in AfRules
        BY <1>1, <4>3, <4>4, ConstantsOK DEF OwnQos, Rules, ConstantsOK
      <4>6. QED
        BY <2>7, <3>2, <4>3, <4>4, <4>5 DEF OwnQos
    <3>6. QED
      BY <3>3, <3>4, <3>5
  <2>8. Unused(b, qfiOffset)
    BY <2>4 DEF InSync, Unused
  <2>9. QED
    BY <1>1, <1>3, <2>4, <2>6, <2>7, <2>8, SyncPrime DEF InSync
<1>6. QED
  BY <1>4, <1>5

(* A rule installed leaves the rest in step. *)
LEMMA InstallInSync ==
  ASSUME EnoughQFIs, Inv, Owners, AmbrInv, Numbers, InSync, NEW r \in todo, InstallPccRule(r)
  PROVE  InSync'
<1>1. PICK p : p = Min(FreshPaths(ctx))
  OBVIOUS
<1>2. PICK f : f = AssignQFI(RefQos[r])
  OBVIOUS
<1>3. PICK v : v = TargetQos(RefQos[r])
  OBVIOUS
<1>4. PICK g : g = qosDataToQFI'
  OBVIOUS
<1>5. PICK b : b = ctx'
  OBVIOUS
<1> DEFINE o == OldPath(r)
<1>6. /\ Tidy(b) /\ Unsent(b, upf) /\ Private(b, g) /\ Good(b)
      /\ Replaced(ctx, b, p, o, r, f, v)
      /\ p \in PathIds \ Pool(ctx)
  BY <1>1, <1>2, <1>3, <1>4, <1>5, InstallSync
<1>7. /\ r \in Rules /\ pc = "inDecision" /\ pc' = pc /\ todo' = todo \ {r}
      /\ Deciding /\ Pending(r) /\ Good(ctx)
      /\ UNCHANGED <<dec, QosDatas, est, upf>>
      /\ PCCRules' = [PCCRules EXCEPT ![r] = NoRule]
      /\ PCCRules \in [Rules -> RuleRec] /\ todo \subseteq Rules
      /\ qosDataToQFI \in [Qos -> QFIs] /\ qfiOffset \in 2..MaxQFI
  BY GoodStep DEF Inv, TypeOK, InstallPccRule, Deciding, Pending
<1>8. /\ Private(ctx, g)
      /\ RefQos[r] # NoQos => /\ f < qfiOffset' /\ g[RefQos[r]] = f
                              /\ \A x \in Qos : g[x] = f => x = RefQos[r]
      /\ qfiOffset <= qfiOffset'
      /\ \A x \in Qos : g[x] = qosDataToQFI[x] \/ g[x] = qfiOffset
  BY <1>2, <1>4, InstallNumber
<1>9. \A x \in dec.inst : TargetQos(RefQos[x])' = TargetQos(RefQos[x])
  BY <1>7 DEF TargetQos, SourceQos
<1>10. ASSUME NEW x \in Rules, PCCRules'[x] # NoRule
       PROVE  b.pool[PCCRules'[x].path].pdr = "CREATE"
  <2>1. x # r /\ PCCRules'[x] = PCCRules[x] /\ Pending(x)
    BY <1>7, <1>10 DEF Pending
  <2>2. OldPath(x) \in Stays(ctx) /\ ctx.pool[OldPath(x)].rule = x
    BY <1>10, <2>1 DEF Owners, Owns, OldPath
  <2>3. o # 0 => ctx.pool[o].rule = r
    BY <1>7 DEF Owners, Owns, OldPath, NoRule
  <2>4. OldPath(x) \in PathIds \ {p, o}
    BY <1>6, <2>1, <2>2, <2>3, ConstantsOK DEF Stays, Pool, ConstantsOK
  <2>5. ctx.pool[OldPath(x)].pdr = "CREATE" /\ b.pool[OldPath(x)] = ctx.pool[OldPath(x)]
    BY <1>6, <1>7, <1>10, <2>1, <2>4 DEF InSync, Replaced
  <2>6. QED
    BY <2>1, <2>5 DEF OldPath
<1>11. Unused(b, qfiOffset')
  <2> SUFFICES ASSUME NEW x \in QFIs, x >= qfiOffset' PROVE b.qerUpfMap[x] = 0
    BY DEF Unused
  <2>1. x >= qfiOffset /\ (RefQos[r] # NoQos => x # f)
    <3>1. x \in Nat /\ qfiOffset' \in Nat
      BY <1>7, ConstantsOK, SetQFIType DEF QFIs, InstallPccRule, ConstantsOK
    <3>2. f \in QFIs
      BY <1>2, <1>7, ConstantsOK, QFIType DEF ConstantsOK
    <3>3. QED
      BY <1>7, <1>8, <3>1, <3>2 DEF QFIs
  <2>2. ctx.qerUpfMap[x] = 0
    BY <2>1 DEF InSync, Unused
  <2>3. QED
    BY <1>6, <2>1, <2>2 DEF Replaced
<1>12. ASSUME NEW d \in Held(b) \ Kept(b), NEW x \in todo' \cap dec.inst,
              RefQos[x] # NoQos, TargetQos(RefQos[x])' # 0
       PROVE  g[RefQos[x]] # b.qer[d].qfi
  <2>1. d \in Held(ctx) /\ d \notin b.pool[p].qers /\ b.qer[d].qfi = ctx.qer[d].qfi
        /\ d \in QerIds
    <3>1. d \in Held(ctx) /\ d \notin b.pool[p].qers
      BY <1>6, <1>12 DEF Replaced
    <3>2. QED
      BY <1>6, <1>7, <3>1, HeldIds DEF Replaced
  <2>2. /\ x \in Rules /\ x \in todo /\ x \in dec.inst /\ TargetQos(RefQos[x]) # 0
        /\ RefQos[x] \in Qos
    BY <1>7, <1>9, <1>12, ConstantsOK DEF ConstantsOK
  <2>3. Tidy(ctx)
    BY DEF InSync
  <2>4. d # ctx.ambr => /\ ctx.qerUpfMap[ctx.qer[d].qfi] = d /\ d # 0
                        /\ ctx.qer[d].qfi \in QFIs /\ ctx.qer[d].qfi # 1
                        /\ ctx.qer[d].qfi # qfiOffset
    <3>1. d # ctx.ambr => /\ ctx.qerUpfMap[ctx.qer[d].qfi] = d /\ d # 0
                          /\ ctx.qer[d].qfi \in QFIs /\ ctx.qer[d].qfi # 1
      BY <1>7, <2>1, <2>3, QerNumber
    <3>2. QED
      BY <1>7, <3>1 DEF InSync, Unused, QFIs
  <2>5. d = ctx.ambr => ctx.qer[d].qfi = 1
    BY <1>7, <2>1, <2>3, HeldIds DEF Tidy
  <2>6. g[RefQos[x]] # 1
    BY <1>7, <1>8, <2>2 DEF Numbers, Distinct
  <2>7. CASE d = ctx.ambr
    BY <2>1, <2>5, <2>6, <2>7
  <2>8. CASE d # ctx.ambr /\ d \notin Kept(ctx)
    <3>1. Unclaimed
      BY DEF InSync
    <3>2. d \in Held(ctx) \ Kept(ctx) /\ x \in todo \cap dec.inst
      BY <2>1, <2>2, <2>8
    <3>3. qosDataToQFI[RefQos[x]] # ctx.qer[d].qfi
      BY <1>7, <1>12, <2>2, <3>1, <3>2 DEF Unclaimed
    <3>4. QED
      BY <1>8, <2>1, <2>2, <2>4, <2>8, <3>3
  <2>9. CASE d # ctx.ambr /\ d \in Kept(ctx)
    <3>1. o # 0 /\ d \in ctx.pool[o].qers
      BY <1>6, <1>12, <2>9 DEF Replaced
    <3>2. o \in PathIds /\ ctx.pool[o].rule = r
      BY <1>7, <3>1 DEF Owners, Owns, OldPath, NoRule, Stays, Pool
    <3>3. SUFFICES ASSUME g[RefQos[x]] = ctx.qer[d].qfi PROVE FALSE
      BY <2>1
    <3>4. RefQos[x] = RefQos[r] /\ RefQos[r] # NoQos /\ v # 0 /\ ctx.qer[d].qfi = f
      BY <1>3, <1>8, <1>12, <2>2, <2>9, <3>1, <3>2, <3>3 DEF Private
    <3>5. b.qerUpfMap[f] \in Kept(b)
      BY <1>6, <3>4 DEF Replaced
    <3>6. d # b.ambr
      <4>1. b.ambr # 0 => b.qer[b.ambr].qfi = 1
        BY <1>6 DEF Tidy
      <4>2. QED
        BY <2>1, <2>4, <2>9, <4>1
    <3>7. b.qerUpfMap[b.qer[d].qfi] = d
      BY <1>6, <1>12, <3>6, QerNumber
    <3>8. QED
      BY <1>12, <2>1, <3>4, <3>5, <3>7
  <2>10. QED
    BY <2>7, <2>8, <2>9
<1>13. QED
  BY <1>4, <1>5, <1>6, <1>7, <1>10, <1>11, <1>12, SyncPrime DEF InSync

(* The default path the creation of a session may add. *)
LEMMA DefaultSync ==
  ASSUME Inv, Owners, AmbrInv, InSync, EndApplyPccRules, NEW b, b = ctx'
  PROVE  /\ Tidy(b) /\ Unsent(b, upf) /\ Private(b, qosDataToQFI)
         /\ b.qerUpfMap = ctx.qerUpfMap
         /\ \A k \in Pool(ctx) : b.pool[k] = ctx.pool[k]
         /\ \A k \in PathIds \ Pool(ctx) : b.pool[k].qers \subseteq {b.ambr}
         /\ ctx.ambr # 0 => b.ambr = ctx.ambr
         /\ \A d \in Held(ctx) : b.qer[d] = ctx.qer[d]
<1>1. /\ Good(ctx) /\ AmbrFine(ctx) /\ Tidy(ctx) /\ Unsent(ctx, upf)
      /\ Private(ctx, qosDataToQFI)
  BY GoodStep DEF AmbrInv, AmbrHeld, InSync, EndApplyPccRules
<1>2. CASE est \/ GetDefaultPath(ctx) # {}
  <2>1. b = ctx
    BY <1>2 DEF EndApplyPccRules, SelectDefaultDataPath
  <2>2. \A k \in PathIds \ Pool(ctx) : ctx.pool[k].qers \subseteq {ctx.ambr}
    BY <1>1 DEF Tidy, Pool
  <2>3. QED
    BY <1>1, <2>1, <2>2
<1>3. CASE ~est /\ GetDefaultPath(ctx) = {}
  <2>1. PICK p : p = Min(FreshPaths(ctx))
    OBVIOUS
  <2>2. FreshPaths(ctx) # {} /\ Cardinality(FreshQers(ctx)) > 1
        /\ b = ActivateTunnelAndPDR(ctx, p, 0, TRUE, FALSE)
    BY <1>3, <2>1 DEF EndApplyPccRules, SelectDefaultDataPath
  <2>3. p \in PathIds \ Pool(ctx) /\ FreshQers(ctx) # {}
    BY <2>1, <2>2, FreshPathNew, FreshTwo
  <2>4. Activated(ctx, b, p, 0, TRUE, FALSE)
    BY <1>1, <2>2, <2>3, ActivateEffect
  <2>5. /\ Tidy(b) /\ Unsent(b, upf) /\ Private(b, qosDataToQFI) /\ AmbrFine(b)
        /\ b.pool[p].qers \subseteq {b.ambr}
        /\ Held(b) = Held(ctx) \cup b.pool[p].qers
        /\ Kept(b) = Kept(ctx) \cup b.pool[p].qers
        /\ \A d \in Held(ctx) : b.qer[d] = ctx.qer[d]
    <3>1. PICK c, r, default, gbr, g :
            c = ctx /\ r = 0 /\ default = TRUE /\ gbr = FALSE /\ g = qosDataToQFI
      OBVIOUS
    <3>2. /\ r \in Rules \cup {0} /\ default \in BOOLEAN /\ gbr \in BOOLEAN
          /\ b = ActivateTunnelAndPDR(c, p, r, default, gbr)
          /\ Good(c) /\ AmbrFine(c) /\ Tidy(c) /\ Unsent(c, upf) /\ Private(c, g)
          /\ p \in PathIds \ Pool(c) /\ FreshQers(c) # {}
      BY <1>1, <2>2, <2>3, <3>1
    <3>3. /\ Tidy(b) /\ Unsent(b, upf) /\ Private(b, g) /\ AmbrFine(b)
          /\ b.pool[p].qers \subseteq {b.ambr}
          /\ Held(b) = Held(c) \cup b.pool[p].qers
          /\ Kept(b) = Kept(c) \cup b.pool[p].qers
          /\ \A d \in Held(c) : b.qer[d] = c.qer[d]
      BY <3>2, ActivateTidy
    <3>4. QED
      BY <3>1, <3>3
  <2>6. /\ b.qerUpfMap = ctx.qerUpfMap
        /\ \A k \in PathIds : k # p => b.pool[k] = ctx.pool[k]
        /\ ctx.ambr # 0 => b.ambr = ctx.ambr
    BY <2>4 DEF Activated
  <2>7. \A k \in PathIds \ Pool(ctx) : b.pool[k].qers \subseteq {b.ambr}
    BY <1>1, <2>5, <2>6 DEF Tidy, Pool
  <2>8. \A k \in Pool(ctx) : b.pool[k] = ctx.pool[k]
    BY <2>3, <2>6 DEF Pool
  <2>9. QED
    BY <2>5, <2>6, <2>7, <2>8
<1>4. QED
  BY <1>2, <1>3

(* Each step of the SMF. *)
LEMMA SyncSmf ==
  ASSUME Reliable, OwnQos, EnoughQFIs, Inv, Owners, AmbrInv, Requests, Numbers, InSync,
         SmfNext
  PROVE  InSync'
<1>1. /\ Good(ctx) /\ Tidy(ctx) /\ Private(ctx, qosDataToQFI) /\ Unused(ctx, qfiOffset)
      /\ todo \subseteq Rules /\ qosDataToQFI \in [Qos -> QFIs] /\ upf \in UpfRec
  BY GoodStep DEF InSync, Inv, TypeOK
<1>2. ASSUME NEW n \in net, HandleSMPolicyUpdateNotify(n) PROVE InSync'
  <2>1. PICK b : b = ctx'
    OBVIOUS
  <2>2. PICK g : g = qosDataToQFI'
    OBVIOUS
  <2>3. /\ pc = "idle" /\ pc' = "inDecision" /\ UNCHANGED <<PCCRules, qfiOffset, est, upf>>
        /\ b.pool = ctx.pool /\ b.doomed = ctx.doomed /\ b.ambr = ctx.ambr
        /\ b.qer = ctx.qer /\ b.qerUpfMap = ctx.qerUpfMap
        /\ g = [q \in Qos |-> IF q \in n.qdel THEN 0 ELSE qosDataToQFI[q]]
    BY <1>1, <1>2, <2>1, <2>2 DEF HandleSMPolicyUpdateNotify, Good, CtxRec
  <2>4. Private(ctx, g)
    <3> SUFFICES ASSUME NEW k \in PathIds, NEW d \in ctx.pool[k].qers \ {ctx.ambr}
                 PROVE  /\ ctx.pool[k].rule \in Rules
                        /\ RefQos[ctx.pool[k].rule] \in Qos
                        /\ \A q \in Qos : g[q] = ctx.qer[d].qfi => q = RefQos[ctx.pool[k].rule]
      BY DEF Private
    <3>1. d \in Held(ctx)
      BY <1>1, HeldIds
    <3>2. ctx.qer[d].qfi # 0
      BY <1>1, <3>1, QerNumber
    <3>3. QED
      BY <1>1, <2>3, <3>2 DEF Private
  <2>5. /\ Held(b) = Held(ctx) /\ Kept(b) = Kept(ctx) /\ Stays(b) = Stays(ctx)
        /\ Tidy(ctx) => Tidy(b)
        /\ \A u : Unsent(ctx, u) => Unsent(b, u)
        /\ \A m : Private(ctx, m) => Private(b, m)
        /\ AmbrFine(ctx) => AmbrFine(b)
    BY <2>3, SameTidy
  <2>6. Held(b) \ Kept(b) = {}
    BY <2>3, <2>5, IdleKept
  <2>7. Unused(b, qfiOffset)
    BY <1>1, <2>3 DEF Unused
  <2>8. \A r \in Rules : PCCRules[r] # NoRule => b.pool[PCCRules[r].path].pdr = "CREATE"
    BY <2>3 DEF InSync, Owners, Owns, Pending, Stays
  <2>9. Tidy(b) /\ Unsent(b, upf) /\ Private(b, g)
    BY <1>1, <2>3, <2>4, <2>5 DEF InSync
  <2>10. QED
    BY <2>1, <2>2, <2>3, <2>6, <2>7, <2>8, <2>9, SyncPrime DEF InSync
<1>3. ASSUME NEW r \in todo, RemovePccRule(r) PROVE InSync'
  BY <1>3, RemoveSync
<1>4. ASSUME NEW r \in todo, InstallPccRule(r) PROVE InSync'
  BY <1>4, InstallInSync
<1>5. ASSUME NEW r \in todo, KeepPccRule(r) PROVE InSync'
  <2>1. /\ pc = "notInDecision" /\ pc' = pc /\ todo' = todo \ {r}
        /\ UNCHANGED <<PCCRules, qosDataToQFI, qfiOffset, ctx, est, upf>>
    BY <1>5 DEF KeepPccRule, Keep
  <2>2. Deciding => \A x \in Rules : (pc' = "notInDecision" => x \in todo') /\ PCCRules'[x] # NoRule
                                          => ctx.pool[PCCRules'[x].path].pdr = "CREATE"
    BY <2>1 DEF InSync, Pending, OldPath
  <2>3. QED
    BY <1>1, <2>1, <2>2, SyncPrime DEF InSync, Deciding
<1>6. \A r \in todo : ~ChangePccRule(r) /\ ~InstallPccRuleFails(r)
  BY OnlyKept DEF Reliable, InstallPccRuleFails
<1>7. ASSUME EndInDecision PROVE InSync'
  <2>1. /\ pc = "inDecision" /\ pc' = "notInDecision"
        /\ UNCHANGED <<PCCRules, qosDataToQFI, qfiOffset, ctx, est, upf>>
    BY <1>7 DEF EndInDecision, ruleVars
  <2>2. \A x \in Rules : PCCRules'[x] # NoRule => ctx.pool[PCCRules'[x].path].pdr = "CREATE"
    BY <2>1 DEF InSync, Pending, OldPath, Deciding
  <2>3. QED
    BY <1>1, <2>1, <2>2, SyncPrime DEF InSync
<1>8. ASSUME EndApplyPccRules PROVE InSync'
  <2>1. /\ pc = "notInDecision" /\ pc' = "activate"
        /\ UNCHANGED <<qosDataToQFI, qfiOffset, est, upf>>
    BY <1>8 DEF EndApplyPccRules
  <2>2. PICK b : b = ctx'
    OBVIOUS
  <2>3. /\ Tidy(b) /\ Unsent(b, upf) /\ Private(b, qosDataToQFI)
        /\ b.qerUpfMap = ctx.qerUpfMap
        /\ \A k \in Pool(ctx) : b.pool[k] = ctx.pool[k]
        /\ \A k \in PathIds \ Pool(ctx) : b.pool[k].qers \subseteq {b.ambr}
        /\ ctx.ambr # 0 => b.ambr = ctx.ambr
        /\ \A d \in Held(ctx) : b.qer[d] = ctx.qer[d]
    BY <1>8, <2>2, DefaultSync
  <2>4. Unused(b, qfiOffset)
    BY <1>1, <2>3 DEF Unused
  <2>5. QED
    BY <2>1, <2>2, <2>3, <2>4, SyncPrime DEF InSync, Deciding
<1>9. ASSUME ActivateUPFSession PROVE InSync'
  <2>1. /\ pc = "activate" /\ pc' = "postRemove" /\ est'
        /\ UNCHANGED <<qosDataToQFI, qfiOffset>> /\ upf' = Applied(ctx) /\ ctx' = Sent(ctx)
    BY <1>9 DEF ActivateUPFSession, ruleVars
  <2>2. PICK b : b = Sent(ctx)
    OBVIOUS
  <2>3. PICK u : u = Applied(ctx)
    OBVIOUS
  <2>4. Unsent(ctx, upf) /\ ctx.doomed \subseteq Pool(ctx)
    BY <2>1 DEF InSync, Owners
  <2>5. est \/ ctx.doomed = {}
    BY <1>1, <2>4 DEF InSync, Unsent, Good, CtxRec
  <2>6. u \in UpfRec
    BY <1>1, <2>3, AppliedType DEF Good
  <2>7. /\ Tidy(b) /\ Served(b, u) /\ Private(b, qosDataToQFI)
        /\ b.doomed = ctx.doomed /\ b.ambr = ctx.ambr
        /\ b.qerUpfMap = ctx.qerUpfMap
    BY <1>1, <2>2, <2>3, <2>4, <2>5, <2>6, ServeTidy
  <2>8. Unused(b, qfiOffset)
    BY <1>1, <2>7 DEF Unused
  <2>9. QED
    BY <2>1, <2>2, <2>3, <2>7, <2>8, SyncPrime DEF Deciding
<1>10. ~ModificationFails
  BY DEF Reliable, ModificationFails
<1>11. ASSUME EndNotification PROVE InSync'
  <2>1. /\ pc = "postRemove" /\ pc' = "idle" /\ ctx' = PostRemoveDataPath(ctx)
        /\ UNCHANGED <<qosDataToQFI, qfiOffset, est, upf>> /\ est /\ Served(ctx, upf)
    BY <1>11 DEF EndNotification, ruleVars, InSync
  <2>2. PICK b : b = PostRemoveDataPath(ctx)
    OBVIOUS
  <2>3. Anchors(ctx) # {}
    BY <2>1 DEF AmbrInv, AmbrHeld
  <2>4. /\ Tidy(b) /\ Unsent(b, upf) /\ Private(b, qosDataToQFI)
        /\ \A k \in Pool(b) : b.pool[k].pdr = "CREATE"
        /\ b.doomed = {} /\ b.ambr = ctx.ambr
        /\ \A f \in QFIs : b.qerUpfMap[f] \in {0, ctx.qerUpfMap[f]}
        /\ \A k \in PathIds : b.pool[k] = IF k \in ctx.doomed THEN NoPath ELSE ctx.pool[k]
        /\ \A d \in QerIds : b.qer[d].rate = ctx.qer[d].rate
    BY <1>1, <2>1, <2>2, <2>3, PostRemoveTidy
  <2>5. Unused(b, qfiOffset)
    BY <1>1, <2>4 DEF Unused
  <2>6. QED
    BY <2>1, <2>2, <2>4, <2>5, SyncPrime DEF Deciding
<1>12. QED
  BY <1>2, <1>3, <1>4, <1>5, <1>6, <1>7, <1>8, <1>9, <1>10, <1>11 DEF SmfNext

(* The invariant of all states. *)
LEMMA SyncAlways ==
  ASSUME Reliable, OwnQos, EnoughQFIs, DefaultRuleHasNoQos
  PROVE  Spec => []InSync
<1>1. Inv /\ Owners /\ AmbrInv /\ Requests /\ Numbers /\ InSync /\ [Next]_vars => InSync'
  <2>1. ASSUME InSync, UNCHANGED <<pc, dec, todo, ruleVars, ctx, est, upf>> PROVE InSync'
    <3>1. Deciding => \A x \in Rules : (pc' = "notInDecision" => x \in todo') /\ PCCRules'[x] # NoRule
                                          => ctx.pool[PCCRules'[x].path].pdr = "CREATE"
      BY <2>1 DEF InSync, Pending, OldPath, ruleVars
    <3>2. pc = "inDecision" =>
            \A d \in Held(ctx) \ Kept(ctx) : \A r \in todo \cap dec.inst :
               RefQos[r] # NoQos /\ TargetQos(RefQos[r])' # 0
                  => qosDataToQFI[RefQos[r]] # ctx.qer[d].qfi
      BY <2>1 DEF InSync, Unclaimed, TargetQos, SourceQos, ruleVars
    <3>3. QED
      BY <2>1, <3>1, <3>2, SyncPrime DEF InSync, Deciding, ruleVars
  <2>2. QED
    BY <2>1, PcfFrame, SyncSmf DEF Next, Rest, vars
<1>2. QED
  BY <1>1, SyncInit, InvAlways, OwnersAlways, AmbrAlways, RequestsAlways, NumbersAlways, PTL DEF Spec

(* At rest every request has been answered. *)
LEMMA SyncMatches ==
  ASSUME Inv, InSync, AtRest
  PROVE  /\ upf.pdrs = Pool(ctx)
         /\ \A p \in Pool(ctx) : upf.refs[p] = ctx.pool[p].qers
         /\ \A d \in QerIds : upf.qer[d] # 0 <=> d \in Held(ctx)
<1>1. Unsent(ctx, upf) /\ Tidy(ctx) /\ upf \in UpfRec /\ Pool(ctx) \subseteq PathIds
      /\ \A k \in Pool(ctx) : ctx.pool[k].pdr = "CREATE"
  BY DEF AtRest, InSync, Inv, TypeOK, Pool
<1>2. upf.pdrs = Pool(ctx)
  BY <1>1 DEF Unsent, UpfRec, Pool
<1>3. \A p \in Pool(ctx) : upf.refs[p] = ctx.pool[p].qers
  BY <1>1, <1>2 DEF Unsent
<1>4. ASSUME NEW d \in Held(ctx) PROVE ctx.qer[d].state # "INITIAL"
  <2>1. PICK k \in PathIds : d \in ctx.pool[k].qers
    BY DEF Held
  <2>2. k \in upf.pdrs
    BY <1>1, <1>2, <2>1 DEF Tidy, Pool
  <2>3. QED
    BY <1>1, <2>1, <2>2 DEF Unsent
<1>5. \A d \in QerIds : upf.qer[d] # 0 <=> d \in Held(ctx)
  BY <1>1, <1>4 DEF Unsent
<1>6. QED
  BY <1>2, <1>3, <1>5

(* Between two notifications the UPF holds exactly the PDRs of the SMF's data
   paths with their QERs, and no QER else: for any number of rules and requests,
   in any order, as long as PFCP requests are answered and QFIs do not run out. *)
THEOREM UpfMatchesPoolHolds ==
  ASSUME Reliable, OwnQos, EnoughQFIs, DefaultRuleHasNoQos
  PROVE  Spec => []UpfMatchesPool
<1>1. Inv /\ InSync => UpfMatchesPool
  BY SyncMatches DEF UpfMatchesPool
<1>2. QED
  BY <1>1, InvAlways, SyncAlways, PTL

(* No QER that the next request removes is a QER of a path that stays. *)
THEOREM QerRemovalUnsharedHolds ==
  ASSUME Reliable, OwnQos, EnoughQFIs, DefaultRuleHasNoQos
  PROVE  Spec => []QerRemovalUnshared
<1>1. InSync => QerRemovalUnshared
  <2> SUFFICES ASSUME InSync, NEW d \in AskedQers(ctx, "REMOVE"), NEW p \in Pool(ctx) \ ctx.doomed
               PROVE  d \notin ctx.pool[p].qers
    BY DEF QerRemovalUnshared
  <2>1. d \in Held(ctx) /\ ctx.qer[d].state = "REMOVE"
    BY DEF AskedQers
  <2>2. d \notin Kept(ctx)
    BY <2>1 DEF InSync, Tidy
  <2>3. QED
    BY <2>2 DEF Kept, Stays
<1>2. QED
  BY <1>1, SyncAlways, PTL

-----------------------------------------------------------------------------
(* The rate of a QoS datum is the rate of its QER.                           *)

\* Data path k of c has a QER of a QoS datum ...
HasQer(c, k) == c.pool[k].qers \ {c.ambr} # {}

\* ... and every such QER has the rate that rate gives the datum of its rule.
Carries(c, k, rate) ==
    \A d \in c.pool[k].qers \ {c.ambr} : c.qer[d].rate = rate[RefQos[c.pool[k].rule]]

\* Whoever knows a rate of a QoS datum knows the same; a rule id not yet handed
\* out has a datum without a rate.
Agree(rate) ==
    /\ \A q \in Qos : {pcfQos[q], dec.qos[q], QosDatas[q], finalQosDatas[q]} \subseteq {0, rate[q]}
    /\ \A n \in net : \A q \in Qos : n.qos[q] \in {0, rate[q]}
    /\ \A k \in PathIds : Carries(ctx, k, rate)
    /\ \A r \in Left : RefQos[r] # NoQos => rate[RefQos[r]] = 0

OneRate == \E rate \in [Qos -> Nat] : Agree(rate)

\* The path of a rule whose QoS datum has a rate has a QER for it: an installed
\* rule's with the datum the SMF has, and, while ApplyPccRules runs, a final
\* rule's with the datum the SMF will have.
Rating ==
    /\ \A r \in Rules :
          Pending(r) /\ PCCRules[r] # NoRule /\ RefQos[r] # NoQos /\ QosDatas[RefQos[r]] # 0
             => HasQer(ctx, PCCRules[r].path)
    /\ Deciding => \A r \in Rules :
          finalPccRules[r] # NoRule /\ RefQos[r] # NoQos /\ TargetQos(RefQos[r]) # 0
             => HasQer(ctx, finalPccRules[r].path)
    /\ Deciding => \A q \in Qos : finalQosDatas[q] \in {0, TargetQos(q)}

(* A path that a step leaves alone keeps its QERs. *)
LEMMA QersStay ==
  ASSUME NEW c, Good(c), Tidy(c), NEW b, Tidy(b),
         b.ambr # c.ambr => c.ambr = 0 /\ \A d \in Held(c) : b.qer[d].qfi = c.qer[d].qfi,
         \A d \in Held(c) : b.qer[d].rate = c.qer[d].rate,
         NEW k \in PathIds, b.pool[k].qers = c.pool[k].qers, b.pool[k].rule = c.pool[k].rule
  PROVE  /\ HasQer(c, k) => HasQer(b, k)
         /\ \A rate : Carries(c, k, rate) => Carries(b, k, rate)
<1>1. Held(c) \subseteq QerIds /\ 0 \notin QerIds /\ c.pool[k].qers \subseteq Held(c)
  BY HeldIds
<1>2. ASSUME NEW d \in c.pool[k].qers, d # c.ambr PROVE d # b.ambr
  <2>1. CASE b.ambr = c.ambr
    BY <1>2, <2>1
  <2>2. CASE b.ambr # c.ambr
    <3>1. c.qer[d].qfi # 1 /\ d # 0
      BY <1>1, <1>2, QerNumber
    <3>2. b.qer[d].qfi # 1
      BY <1>1, <2>2, <3>1
    <3>3. QED
      BY <3>1, <3>2 DEF Tidy
  <2>3. QED
    BY <2>1, <2>2
<1>3. ASSUME NEW d \in c.pool[k].qers, d # b.ambr PROVE d # c.ambr
  BY <1>1, <1>3
<1>4. HasQer(c, k) => HasQer(b, k)
  BY <1>2 DEF HasQer
<1>5. ASSUME NEW rate, Carries(c, k, rate) PROVE Carries(b, k, rate)
  BY <1>1, <1>3, <1>5 DEF Carries
<1>6. QED
  BY <1>4, <1>5

(* A fresh rule id is one of those left. *)
LEMMA FreshLeft ==
  ASSUME Fresh(AfRules)
  PROVE  FreshId(AfRules) \in Left
<1>1. AfRules \ usedIds \subseteq Nat
  BY ConstantsOK DEF ConstantsOK, Rules
<1>2. Min(AfRules \ usedIds) \in AfRules \ usedIds
  BY <1>1, MinIn DEF Fresh
<1>3. QED
  BY <1>2 DEF FreshId, Left

(* A rule id handed out gives its QoS datum its rate, the first it has. *)
LEMMA NewRate ==
  ASSUME OwnQos, Inv, InSync, NEW rate \in [Qos -> Nat], Agree(rate),
         NEW r \in Left, NEW v \in Rates
  PROVE  \E w \in [Qos -> Nat] :
            /\ \A q \in Qos : {pcfQos[q], dec.qos[q], QosDatas[q], finalQosDatas[q]} \subseteq {0, w[q]}
            /\ \A n \in net : \A q \in Qos : n.qos[q] \in {0, w[q]}
            /\ \A k \in PathIds : Carries(ctx, k, w)
            /\ \A x \in Left \ {r} : RefQos[x] # NoQos => w[RefQos[x]] = 0
            /\ RefQos[r] # NoQos => w[RefQos[r]] = v
<1>1. /\ v \in Nat /\ RefQos \in [Rules -> Qos \cup {NoQos}] /\ Left \subseteq AfRules
      /\ AfRules \subseteq Rules /\ NoQos \notin Qos
  BY ConstantsOK DEF ConstantsOK, Rules, Left
<1>2. CASE RefQos[r] = NoQos
  BY <1>2 DEF Agree
<1>3. CASE RefQos[r] # NoQos
  <2>1. PICK q : q = RefQos[r] /\ q \in Qos /\ rate[q] = 0
    BY <1>1, <1>3 DEF Agree
  <2>2. PICK w : w = [rate EXCEPT ![q] = v]
    OBVIOUS
  <2>3. w \in [Qos -> Nat] /\ w[q] = v /\ \A x \in Qos : x # q => w[x] = rate[x]
    BY <1>1, <2>1, <2>2
  <2>4. \A x \in Qos : {pcfQos[x], dec.qos[x], QosDatas[x], finalQosDatas[x]} \subseteq {0, w[x]}
    BY <2>1, <2>3 DEF Agree
  <2>5. \A n \in net : \A x \in Qos : n.qos[x] \in {0, w[x]}
    BY <2>1, <2>3 DEF Agree
  <2>6. ASSUME NEW k \in PathIds, NEW d \in ctx.pool[k].qers \ {ctx.ambr}
        PROVE  ctx.qer[d].rate = w[RefQos[ctx.pool[k].rule]]
    <3>1. PICK x : x = RefQos[ctx.pool[k].rule]
      OBVIOUS
    <3>2. x \in Qos /\ ctx.qer[d].rate = rate[x]
      BY <3>1 DEF InSync, Private, Agree, Carries
    <3>3. d \in Held(ctx) /\ Tidy(ctx)
      BY HeldIds, GoodStep DEF InSync
    <3>4. x # q
      BY <2>1, <3>2, <3>3 DEF Tidy
    <3>5. QED
      BY <2>3, <3>1, <3>2, <3>4
  <2>7. \A k \in PathIds : Carries(ctx, k, w)
    BY <2>6 DEF Carries
  <2>8. ASSUME NEW x \in Left \ {r}, RefQos[x] # NoQos PROVE w[RefQos[x]] = 0
    <3>1. RefQos[x] \in Qos /\ RefQos[x] # q
      BY <1>1, <1>3, <2>1, <2>8 DEF OwnQos
    <3>2. QED
      BY <2>3, <2>8, <3>1 DEF Agree
  <2>9. QED
    BY <2>1, <2>3, <2>4, <2>5, <2>7, <2>8
<1>4. QED
  BY <1>2, <1>3

(* The PCF gives a QoS datum one rate and takes it back. *)
LEMMA RatePcf ==
  ASSUME Reliable, OwnQos, Inv, InSync, OneRate, PcfNext
  PROVE  OneRate'
<1>1. UNCHANGED <<pc, dec, todo, ruleVars, ctx, est, upf>>
  BY PcfFrame
<1>2. PICK rate \in [Qos -> Nat] : Agree(rate)
  BY DEF OneRate
<1>3. /\ RefQos \in [Rules -> Qos \cup {NoQos}] /\ NoQos \notin Qos
      /\ AfRules \subseteq Rules /\ InfluenceRules \subseteq Rules
      /\ pcfQos \in [Qos -> RateOr0] /\ \A q \in Qos : NoQosDecs[q] = 0
  BY ConstantsOK DEF ConstantsOK, Rules, Inv, TypeOK, NoQosDecs
<1>4. ASSUME NEW w \in [Qos -> Nat],
             \A q \in Qos : {dec.qos[q], QosDatas[q], finalQosDatas[q]} \subseteq {0, w[q]},
             \A k \in PathIds : Carries(ctx, k, w),
             \A q \in Qos : pcfQos'[q] \in {0, w[q]},
             \A n \in net' : \A q \in Qos : n.qos[q] \in {0, w[q]},
             \A r \in AfRules \ usedIds' : RefQos[r] # NoQos => w[RefQos[r]] = 0
      PROVE  OneRate'
  <2>1. Agree(w)'
    BY <1>1, <1>4 DEF Agree, Carries, Left, ruleVars
  <2>2. QED
    BY <2>1 DEF OneRate
<1>5. ASSUME NEW v \in Rates, postAppSessCtx(v) PROVE OneRate'
  <2>1. PICK r : r = FreshId(AfRules)
    OBVIOUS
  <2>2. r \in Left /\ r \in AfRules /\ r \in Rules
    BY <1>3, <1>5, <2>1, FreshLeft DEF postAppSessCtx, Left
  <2>3. /\ usedIds' = usedIds \cup {r} /\ net' = net
        /\ pcfQos' = [pcfQos EXCEPT ![RefQos[r]] = v]
    BY <1>5, <2>1 DEF postAppSessCtx
  <2>4. PICK w \in [Qos -> Nat] :
            /\ \A q \in Qos : {pcfQos[q], dec.qos[q], QosDatas[q], finalQosDatas[q]} \subseteq {0, w[q]}
            /\ \A n \in net : \A q \in Qos : n.qos[q] \in {0, w[q]}
            /\ \A k \in PathIds : Carries(ctx, k, w)
            /\ \A x \in Left \ {r} : RefQos[x] # NoQos => w[RefQos[x]] = 0
            /\ RefQos[r] # NoQos => w[RefQos[r]] = v
    BY <1>2, <2>2, NewRate
  <2>5. \A q \in Qos : pcfQos'[q] \in {0, w[q]}
    BY <1>3, <2>2, <2>3, <2>4
  <2>6. QED
    BY <1>4, <2>3, <2>4, <2>5 DEF Left
<1>6. ASSUME NEW r \in Rules, SendSMPolicyUpdateNotification(r) PROVE OneRate'
  <2>1. PICK m : m = Notify(r, "post", pcfRules, {}, pcfQos, {})
    OBVIOUS
  <2>2. net' = net \cup {m} /\ m.qos = pcfQos /\ UNCHANGED <<pcfQos, usedIds>>
    BY <1>6, <2>1 DEF SendSMPolicyUpdateNotification, Notify
  <2>3. QED
    BY <1>2, <1>4, <2>2 DEF Agree, Left
<1>7. ASSUME NEW r \in Rules, NEW v \in Rates, HandleModAppSessionContext(r, v)
      PROVE  OneRate'
  <2>1. PICK n : n = FreshId(AfRules)
    OBVIOUS
  <2>2. n \in Left /\ n \in Rules
    BY <1>3, <1>7, <2>1, FreshLeft DEF Left, HandleModAppSessionContext
  <2>3. PICK m : m = Notify(n, "patch", pcfRules', {r}, pcfQos', {RefQos[r]} \cap Qos)
    OBVIOUS
  <2>4. /\ usedIds' = usedIds \cup {n} /\ net' = net \cup {m} /\ m.qos = pcfQos'
        /\ pcfQos' = [pcfQos EXCEPT ![RefQos[r]] = 0, ![RefQos[n]] = v]
    BY <1>7, <2>1, <2>3 DEF HandleModAppSessionContext, Notify
  <2>5. PICK w \in [Qos -> Nat] :
            /\ \A q \in Qos : {pcfQos[q], dec.qos[q], QosDatas[q], finalQosDatas[q]} \subseteq {0, w[q]}
            /\ \A x \in net : \A q \in Qos : x.qos[q] \in {0, w[q]}
            /\ \A k \in PathIds : Carries(ctx, k, w)
            /\ \A x \in Left \ {n} : RefQos[x] # NoQos => w[RefQos[x]] = 0
            /\ RefQos[n] # NoQos => w[RefQos[n]] = v
    BY <1>2, <2>2, NewRate
  <2>6. \A q \in Qos : pcfQos'[q] \in {0, w[q]}
    BY <1>3, <2>2, <2>4, <2>5
  <2>7. /\ \A q \in Qos : {dec.qos[q], QosDatas[q], finalQosDatas[q]} \subseteq {0, w[q]}
        /\ \A k \in PathIds : Carries(ctx, k, w)
    BY <2>5
  <2>8. \A x \in net' : \A q \in Qos : x.qos[q] \in {0, w[q]}
    BY <2>4, <2>5, <2>6
  <2>9. \A x \in AfRules \ usedIds' : RefQos[x] # NoQos => w[RefQos[x]] = 0
    BY <2>4, <2>5 DEF Left
  <2>10. QED
    BY <1>4, <2>6, <2>7, <2>8, <2>9
<1>8. ASSUME NEW r \in Rules, Remove(r) PROVE OneRate'
  <2>1. PICK m : m = Notify(r, "delete", {}, {r}, NoQosDecs, {})
    OBVIOUS
  <2>2. /\ usedIds' = usedIds /\ net' = net \cup {m} /\ m.qos = NoQosDecs
        /\ pcfQos' = IF RefQos[r] = NoQos THEN pcfQos ELSE [pcfQos EXCEPT ![RefQos[r]] = 0]
    BY <1>8, <2>1 DEF Remove, Notify
  <2>3. \A q \in Qos : pcfQos'[q] \in {0, pcfQos[q]}
    BY <1>3, <2>2
  <2>4. QED
    BY <1>2, <1>3, <1>4, <2>2, <2>3 DEF Agree, Left
<1>9. ASSUME NewInfluenceData PROVE OneRate'
  <2>1. pcfQos' = pcfQos /\ net' = net /\ usedIds \subseteq usedIds'
    BY <1>9 DEF NewInfluenceData
  <2>2. QED
    BY <1>2, <1>4, <2>1 DEF Agree, Left
<1>10. \A q, v : ~UpdateQosData(q, v)
  BY DEF Reliable, UpdateQosData
<1>11. QED
  BY <1>5, <1>6, <1>7, <1>8, <1>9, <1>10
  DEF PcfNext, HandleDeleteAppSessionContext, RemoveInfluenceData

\* From context c to b the QERs of paths stay what they are: only a path that
\* goes, or a new one, changes, and it then has no QER of a QoS datum.
Framed(c, b) ==
    /\ b.ambr # c.ambr => c.ambr = 0 /\ \A d \in Held(c) : b.qer[d].qfi = c.qer[d].qfi
    /\ \A d \in Held(c) : b.qer[d].rate = c.qer[d].rate
    /\ \A k \in PathIds :
          \/ b.pool[k].qers = c.pool[k].qers /\ b.pool[k].rule = c.pool[k].rule
          \/ k \notin Stays(c) /\ b.pool[k].qers \subseteq {b.ambr}

(* Every step of the SMF but the installation of a rule is of that kind. *)
LEMMA SmfFramed ==
  ASSUME Reliable, Inv, Owners, AmbrInv, Requests, InSync, SmfNext, NEW b, b = ctx'
  PROVE  (\E r \in todo : InstallPccRule(r)) \/ Framed(ctx, b)
<1>1. /\ Good(ctx) /\ Tidy(ctx) /\ Private(ctx, qosDataToQFI) /\ todo \subseteq Rules
      /\ Held(ctx) \subseteq QerIds /\ Pool(ctx) \subseteq PathIds
      /\ \A d \in QerIds : ctx.qer[d] \in QerRec
      /\ \A k \in PathIds : ctx.pool[k] \in PathRec
  BY GoodStep, HeldIds DEF InSync, Inv, TypeOK, Pool, Good, CtxRec
<1>2. ASSUME NEW n \in net, HandleSMPolicyUpdateNotify(n) PROVE Framed(ctx, b)
  <2>1. b.pool = ctx.pool /\ b.ambr = ctx.ambr /\ b.qer = ctx.qer
    BY <1>1, <1>2 DEF HandleSMPolicyUpdateNotify, Good, CtxRec
  <2>2. QED
    BY <2>1 DEF Framed
<1>3. ASSUME NEW r \in todo, RemovePccRule(r) PROVE Framed(ctx, b)
  <2>1. PICK o : o = PCCRules[r].path
    OBVIOUS
  <2>2. o \in PathIds \cup {0} /\ b = PreRemoveDataPath(ctx, o)
    BY <1>1, <1>3, <2>1 DEF RemovePccRule, Inv, TypeOK, RuleRec
  <2>3. Marked(ctx, b, o)
    BY <1>1, <2>2, PreRemoveEffect
  <2>4. b.ambr = ctx.ambr
    BY <2>3 DEF Marked
  <2>5. ASSUME NEW d \in QerIds PROVE b.qer[d].rate = ctx.qer[d].rate
    <3>1. b.qer[d] = [ctx.qer[d] EXCEPT !.state = b.qer[d].state]
      BY <2>3 DEF Marked
    <3>2. QED
      BY <1>1, <3>1 DEF QerRec
  <2>6. ASSUME NEW k \in PathIds
        PROVE  b.pool[k].qers = ctx.pool[k].qers /\ b.pool[k].rule = ctx.pool[k].rule
    <3>1. \/ b.pool[k] = ctx.pool[k]
          \/ b.pool[k] = [ctx.pool[k] EXCEPT !.pdr = "REMOVE"]
      BY <2>3 DEF Marked
    <3>2. QED
      BY <1>1, <3>1 DEF PathRec
  <2>7. QED
    BY <1>1, <2>4, <2>5, <2>6 DEF Framed
<1>4. ASSUME UNCHANGED ctx PROVE Framed(ctx, b)
  BY <1>4 DEF Framed
<1>5. ASSUME EndApplyPccRules PROVE Framed(ctx, b)
  <2>1. /\ Tidy(b) /\ Unsent(b, upf) /\ Private(b, qosDataToQFI)
        /\ b.qerUpfMap = ctx.qerUpfMap
        /\ \A k \in Pool(ctx) : b.pool[k] = ctx.pool[k]
        /\ \A k \in PathIds \ Pool(ctx) : b.pool[k].qers \subseteq {b.ambr}
        /\ ctx.ambr # 0 => b.ambr = ctx.ambr
        /\ \A d \in Held(ctx) : b.qer[d] = ctx.qer[d]
    BY <1>5, DefaultSync
  <2>2. QED
    BY <1>1, <2>1 DEF Framed, Stays
<1>6. ASSUME ActivateUPFSession PROVE Framed(ctx, b)
  <2>1. PICK e : e = Sent(ctx)
    OBVIOUS
  <2>2. /\ e.ambr = ctx.ambr
        /\ \A p \in PathIds : e.pool[p] = [ctx.pool[p] EXCEPT !.pdr = e.pool[p].pdr]
        /\ \A d \in QerIds : e.qer[d] = [ctx.qer[d] EXCEPT !.state = e.qer[d].state]
    BY <1>1, <2>1, SentEffect
  <2>3. b = e
    BY <1>6, <2>1 DEF ActivateUPFSession
  <2>4. ASSUME NEW d \in QerIds PROVE e.qer[d].rate = ctx.qer[d].rate
    <3>1. e.qer[d] = [ctx.qer[d] EXCEPT !.state = e.qer[d].state]
      BY <2>2
    <3>2. QED
      BY <1>1, <3>1 DEF QerRec
  <2>5. ASSUME NEW k \in PathIds
        PROVE  e.pool[k].qers = ctx.pool[k].qers /\ e.pool[k].rule = ctx.pool[k].rule
    <3>1. e.pool[k] = [ctx.pool[k] EXCEPT !.pdr = e.pool[k].pdr]
      BY <2>2
    <3>2. QED
      BY <1>1, <3>1 DEF PathRec
  <2>6. QED
    BY <1>1, <2>2, <2>3, <2>4, <2>5 DEF Framed
<1>7. ASSUME EndNotification PROVE Framed(ctx, b)
  <2>1. /\ pc = "postRemove" /\ b = PostRemoveDataPath(ctx) /\ Served(ctx, upf)
        /\ est
    BY <1>7 DEF EndNotification, InSync
  <2>2. Anchors(ctx) # {}
    BY <2>1 DEF AmbrInv, AmbrHeld
  <2>3. /\ Tidy(b) /\ Unsent(b, upf) /\ Private(b, qosDataToQFI)
        /\ \A k \in Pool(b) : b.pool[k].pdr = "CREATE"
        /\ b.doomed = {} /\ b.ambr = ctx.ambr
        /\ \A f \in QFIs : b.qerUpfMap[f] \in {0, ctx.qerUpfMap[f]}
        /\ \A k \in PathIds : b.pool[k] = IF k \in ctx.doomed THEN NoPath ELSE ctx.pool[k]
        /\ \A d \in QerIds : b.qer[d].rate = ctx.qer[d].rate
    BY <1>1, <2>1, <2>2, PostRemoveTidy
  <2>4. ASSUME NEW k \in PathIds
        PROVE  \/ b.pool[k].qers = ctx.pool[k].qers /\ b.pool[k].rule = ctx.pool[k].rule
               \/ k \notin Stays(ctx) /\ b.pool[k].qers \subseteq {b.ambr}
    BY <2>3 DEF Stays, NoPath
  <2>5. QED
    BY <1>1, <2>3, <2>4 DEF Framed
<1>8. \A r \in todo : ~ChangePccRule(r) /\ ~InstallPccRuleFails(r)
  BY OnlyKept DEF Reliable, InstallPccRuleFails
<1>9. ~ModificationFails
  BY DEF Reliable, ModificationFails
<1>10. QED
  BY <1>2, <1>3, <1>4, <1>5, <1>6, <1>7, <1>8, <1>9
  DEF SmfNext, KeepPccRule, EndInDecision

(* A path with no QER of a QoS datum carries no rate. *)
LEMMA FramedCarries ==
  ASSUME NEW c, Good(c), Tidy(c), NEW b, Tidy(b), Framed(c, b),
         NEW rate, \A k \in PathIds : Carries(c, k, rate), NEW k \in PathIds
  PROVE  Carries(b, k, rate)
<1>1. CASE b.pool[k].qers \subseteq {b.ambr}
  BY <1>1 DEF Carries
<1>2. CASE b.pool[k].qers = c.pool[k].qers /\ b.pool[k].rule = c.pool[k].rule
  BY <1>2, QersStay DEF Framed
<1>3. QED
  BY <1>1, <1>2 DEF Framed

(* The QERs of the path of a rule that is installed. *)
LEMMA InstallCarries ==
  ASSUME EnoughQFIs, Inv, Owners, AmbrInv, Numbers, InSync, NEW r \in todo,
         InstallPccRule(r), NEW b, b = ctx', NEW p, p = Min(FreshPaths(ctx))
  PROVE  /\ p \in PathIds \ Pool(ctx)
         /\ RefQos[r] # NoQos /\ TargetQos(RefQos[r]) # 0 => HasQer(b, p)
         /\ \A k \in PathIds \ {p} : HasQer(ctx, k) => HasQer(b, k)
         /\ \A rate : (\A k \in PathIds : Carries(ctx, k, rate))
                /\ (RefQos[r] # NoQos => TargetQos(RefQos[r]) \in {0, rate[RefQos[r]]})
                => \A k \in PathIds : Carries(b, k, rate)
<1>1. PICK f, v, g, o : /\ f = AssignQFI(RefQos[r]) /\ v = TargetQos(RefQos[r])
                        /\ g = qosDataToQFI' /\ o = OldPath(r)
  OBVIOUS
<1>2. /\ Tidy(b) /\ Unsent(b, upf) /\ Private(b, g) /\ Good(b)
      /\ Replaced(ctx, b, p, o, r, f, v)
      /\ p \in PathIds \ Pool(ctx)
  BY <1>1, InstallSync
<1>3. /\ Private(ctx, g)
      /\ RefQos[r] # NoQos =>
            /\ f # 0 /\ f # 1 /\ g[RefQos[r]] = f
            /\ \A x \in Qos : g[x] = f => x = RefQos[r]
  BY <1>1, InstallNumber
<1>4. /\ Good(ctx) /\ Tidy(ctx) /\ Held(ctx) \subseteq QerIds /\ r \in Rules
      /\ RefQos[r] \in Qos \cup {NoQos} /\ f \in QFIs
  BY <1>1, GoodStep, HeldIds, ConstantsOK, QFIType DEF InSync, Inv, TypeOK, ConstantsOK
<1>5. b.ambr # ctx.ambr => ctx.ambr = 0 /\ \A d \in Held(ctx) : b.qer[d].qfi = ctx.qer[d].qfi
  BY <1>2 DEF Replaced
<1>6. \A d \in Held(ctx) : b.qer[d].rate = ctx.qer[d].rate
  BY <1>2 DEF Replaced
<1>7. ASSUME NEW k \in PathIds \ {p}
      PROVE  /\ HasQer(ctx, k) => HasQer(b, k)
             /\ \A rate : Carries(ctx, k, rate) => Carries(b, k, rate)
  <2>1. b.pool[k].qers = ctx.pool[k].qers /\ b.pool[k].rule = ctx.pool[k].rule
    BY <1>2 DEF Replaced
  <2>2. QED
    BY <1>2, <1>4, <1>5, <1>6, <2>1, QersStay
<1>8. RefQos[r] # NoQos /\ v # 0 => HasQer(b, p)
  BY <1>2 DEF Replaced, HasQer
<1>9. ASSUME NEW rate, \A k \in PathIds : Carries(ctx, k, rate),
             RefQos[r] # NoQos => v \in {0, rate[RefQos[r]]}
      PROVE  Carries(b, p, rate)
  <2>1. SUFFICES ASSUME NEW d \in b.pool[p].qers \ {b.ambr}
                 PROVE  b.qer[d].rate = rate[RefQos[r]]
    BY <1>2 DEF Carries, Replaced
  <2>2. RefQos[r] # NoQos /\ v # 0 /\ d = b.qerUpfMap[f]
    BY <1>2 DEF Replaced
  <2>3. CASE b.qer[d].rate = v
    BY <1>9, <2>2, <2>3
  <2>4. CASE d \in Held(ctx)
    <3>1. PICK k \in PathIds : d \in ctx.pool[k].qers
      BY <2>4 DEF Held
    <3>2. d # ctx.ambr
      <4>1. 0 \notin QerIds
        BY <1>4, HeldIds
      <4>2. QED
        BY <1>4, <1>5, <2>4, <4>1
    <3>3. ctx.qer[d].qfi = f
      <4>1. d # 0
        BY <1>4, <2>4, HeldIds
      <4>2. b.qer[d].qfi = f
        BY <1>2, <1>4, <2>2, <4>1 DEF Good, MapLive
      <4>3. QED
        BY <1>2, <2>4, <4>2 DEF Replaced
    <3>4. RefQos[ctx.pool[k].rule] = RefQos[r]
      BY <1>3, <1>4, <2>2, <3>1, <3>2, <3>3 DEF Private
    <3>5. ctx.qer[d].rate = rate[RefQos[r]]
      BY <1>9, <3>1, <3>2, <3>4 DEF Carries
    <3>6. QED
      BY <1>6, <2>4, <3>5
  <2>5. QED
    BY <1>2, <2>2, <2>3, <2>4 DEF Replaced
<1>10. ASSUME NEW rate, \A k \in PathIds : Carries(ctx, k, rate),
              RefQos[r] # NoQos => TargetQos(RefQos[r]) \in {0, rate[RefQos[r]]}
       PROVE  \A k \in PathIds : Carries(b, k, rate)
  BY <1>1, <1>7, <1>9, <1>10
<1>11. QED
  BY <1>1, <1>2, <1>7, <1>8, <1>10

(* The SMF learns rates from the PCF only. *)
LEMMA RateSmf ==
  ASSUME Reliable, EnoughQFIs, Inv, Owners, AmbrInv, Requests, Numbers, InSync, InSync',
         OneRate, SmfNext
  PROVE  OneRate'
<1>1. PICK rate \in [Qos -> Nat] : Agree(rate)
  BY DEF OneRate
<1>2. PICK b : b = ctx'
  OBVIOUS
<1>3. Tidy(b)
  <2>1. Tidy(ctx)'
    BY DEF InSync
  <2>2. QED
    BY <1>2, <2>1 DEF Tidy, Held, Kept, Stays, Pool
<1>4. /\ Good(ctx) /\ Tidy(ctx) /\ todo \subseteq Rules
      /\ RefQos \in [Rules -> Qos \cup {NoQos}] /\ NoQos \notin Qos
      /\ finalQosDatas \in [Qos -> RateOr0] /\ QosDatas \in [Qos -> RateOr0]
  BY GoodStep, ConstantsOK DEF InSync, Inv, TypeOK, ConstantsOK
<1>5. \A q \in Qos : TargetQos(q) \in {0, rate[q]}
  BY <1>1, <1>4 DEF TargetQos, SourceQos, Agree
<1>6. \A k \in PathIds : Carries(b, k, rate)
  <2>1. CASE \E r \in todo : InstallPccRule(r)
    <3>1. PICK r \in todo : InstallPccRule(r)
      BY <2>1
    <3>2. PICK p : p = Min(FreshPaths(ctx))
      OBVIOUS
    <3>3. RefQos[r] # NoQos => TargetQos(RefQos[r]) \in {0, rate[RefQos[r]]}
      BY <1>4, <1>5
    <3>4. \A k \in PathIds : Carries(ctx, k, rate)
      BY <1>1 DEF Agree
    <3>5. QED
      BY <1>2, <3>1, <3>2, <3>3, <3>4, InstallCarries
  <2>2. CASE Framed(ctx, b)
    BY <1>1, <1>3, <1>4, <2>2, FramedCarries DEF Agree
  <2>3. QED
    BY <1>2, <2>1, <2>2, SmfFramed
<1> DEFINE Known ==
              /\ UNCHANGED <<pcfQos, usedIds>> /\ net' \subseteq net /\ dec' \in net \cup {dec}
              /\ \A q \in Qos : /\ QosDatas'[q] \in {QosDatas[q], finalQosDatas[q]}
                                /\ finalQosDatas'[q] \in {0, finalQosDatas[q], TargetQos(q)}
<1>7. Known
  <2>1. ASSUME NEW n \in net, HandleSMPolicyUpdateNotify(n) PROVE Known
    BY <2>1 DEF HandleSMPolicyUpdateNotify, NoQosDecs, pcfVars
  <2>2. ASSUME NEW r \in todo,
               \/ RemovePccRule(r) \/ InstallPccRule(r) \/ InstallPccRuleFails(r)
               \/ KeepPccRule(r) \/ ChangePccRule(r)
        PROVE  Known
    BY <2>2 DEF RemovePccRule, InstallPccRule, InstallPccRuleFails, KeepPccRule,
       ChangePccRule, Keep, pcfVars
  <2>3. ASSUME \/ EndInDecision \/ EndApplyPccRules \/ ActivateUPFSession
               \/ ModificationFails \/ EndNotification
        PROVE  Known
    BY <2>3 DEF EndInDecision, EndApplyPccRules, ActivateUPFSession, ModificationFails,
       EndNotification, pcfVars, ruleVars
  <2>4. QED
    BY <2>1, <2>2, <2>3 DEF SmfNext
<1>8. /\ \A q \in Qos : {pcfQos'[q], dec'.qos[q], QosDatas'[q], finalQosDatas'[q]} \subseteq {0, rate[q]}
      /\ \A n \in net' : \A q \in Qos : n.qos[q] \in {0, rate[q]}
      /\ \A r \in AfRules \ usedIds' : RefQos[r] # NoQos => rate[RefQos[r]] = 0
  BY <1>1, <1>5, <1>7 DEF Agree, Left
<1>9. Agree(rate)'
  BY <1>2, <1>6, <1>8 DEF Agree, Carries, Left
<1>10. QED
  BY <1>9 DEF OneRate

(* At first every datum has the rate of the first decision. *)
LEMMA RateInit == OwnQos /\ Init => OneRate
<1> SUFFICES ASSUME OwnQos, Init PROVE OneRate
  OBVIOUS
<1>1. InitQos \in [Qos -> Nat]
  <2>1. InitQos \in [Qos -> RateOr0]
    BY ConstantsOK DEF ConstantsOK
  <2>2. RateOr0 \subseteq Nat
    BY ConstantsOK DEF ConstantsOK, RateOr0
  <2>3. QED
    BY <2>1, <2>2
<1>2. \A q \in Qos : {pcfQos[q], dec.qos[q], QosDatas[q], finalQosDatas[q]} \subseteq {0, InitQos[q]}
  BY DEF Init, Notify, NoQosDecs
<1>3. \A k \in PathIds : Carries(ctx, k, InitQos)
  BY DEF Init, Carries, NoPath
<1>4. Agree(InitQos)
  BY <1>2, <1>3 DEF Init, Agree, OwnQos, Left
<1>5. QED
  BY <1>1, <1>4 DEF OneRate

(* All of them agree on the rate of a datum, in every state. *)
LEMMA RateAlways ==
  ASSUME Reliable, OwnQos, EnoughQFIs, DefaultRuleHasNoQos
  PROVE  Spec => []OneRate
<1>1. Inv /\ Owners /\ AmbrInv /\ Requests /\ Numbers /\ InSync /\ InSync' /\ OneRate /\ [Next]_vars
         => OneRate'
  <2>1. ASSUME OneRate, UNCHANGED vars PROVE OneRate'
    BY <2>1 DEF OneRate, Agree, Carries, Left, vars, pcfVars, ruleVars
  <2>2. QED
    BY <2>1, RatePcf, RateSmf DEF Next, Rest
<1>2. QED
  BY <1>1, RateInit, InvAlways, OwnersAlways, AmbrAlways, RequestsAlways, NumbersAlways,
     SyncAlways, PTL DEF Spec

(* The path of a rule stays where it is while its rule is not worked on. *)
LEMMA SmfKeepsQers ==
  ASSUME Reliable, EnoughQFIs, Inv, Owners, AmbrInv, Requests, Numbers, InSync, InSync',
         SmfNext, NEW b, b = ctx', NEW k \in Stays(ctx), HasQer(ctx, k)
  PROVE  HasQer(b, k)
<1>1. Tidy(b)
  <2>1. Tidy(ctx)'
    BY DEF InSync
  <2>2. QED
    BY <2>1 DEF Tidy, Held, Kept, Stays, Pool
<1>2. Good(ctx) /\ Tidy(ctx) /\ k \in PathIds /\ k \in Pool(ctx)
  BY GoodStep DEF InSync, Stays, Pool
<1>3. CASE \E r \in todo : InstallPccRule(r)
  <2>1. PICK r \in todo : InstallPccRule(r)
    BY <1>3
  <2>2. PICK p : p = Min(FreshPaths(ctx))
    OBVIOUS
  <2>3. p \notin Pool(ctx) /\ \A x \in PathIds \ {p} : HasQer(ctx, x) => HasQer(b, x)
    BY <2>1, <2>2, InstallCarries
  <2>4. QED
    BY <1>2, <2>3
<1>4. CASE Framed(ctx, b)
  <2>1. b.pool[k].qers = ctx.pool[k].qers /\ b.pool[k].rule = ctx.pool[k].rule
    BY <1>2, <1>4 DEF Framed
  <2>2. QED
    BY <1>1, <1>2, <1>4, <2>1, QersStay DEF Framed
<1>5. QED
  BY <1>3, <1>4, SmfFramed

(* Every rule that is to have a rate gets a QER for it. *)
LEMMA RatingSmf ==
  ASSUME Reliable, EnoughQFIs, Inv, Owners, AmbrInv, Requests, Numbers, InSync, InSync',
         Rating, SmfNext
  PROVE  Rating'
<1>1. PICK b : b = ctx'
  OBVIOUS
<1>2. /\ PCCRules \in [Rules -> RuleRec] /\ finalPccRules \in [Rules -> RuleRec]
      /\ QosDatas \in [Qos -> RateOr0] /\ finalQosDatas \in [Qos -> RateOr0]
      /\ RefQos \in [Rules -> Qos \cup {NoQos}] /\ NoQos \notin Qos /\ todo \subseteq Rules
  BY ConstantsOK DEF Inv, TypeOK, ConstantsOK
<1>3. /\ \A r \in Rules : Pending(r) /\ PCCRules[r] # NoRule => PCCRules[r].path \in Stays(ctx)
      /\ Deciding => \A r \in Rules :
            finalPccRules[r] # NoRule => finalPccRules[r].path \in Stays(ctx)
  BY DEF Owners, Owns
<1>4. \A k \in Stays(ctx) : HasQer(ctx, k) => HasQer(b, k)
  BY <1>1, SmfKeepsQers
<1>5. ASSUME \A r \in Rules :
                (pc' = "notInDecision" => r \in todo') /\ PCCRules'[r] # NoRule
                /\ RefQos[r] # NoQos /\ QosDatas'[RefQos[r]] # 0 => HasQer(b, PCCRules'[r].path),
             pc' \in {"inDecision", "notInDecision"} => \A r \in Rules :
                finalPccRules'[r] # NoRule /\ RefQos[r] # NoQos /\ TargetQos(RefQos[r])' # 0
                   => HasQer(b, finalPccRules'[r].path),
             pc' \in {"inDecision", "notInDecision"} =>
                \A q \in Qos : finalQosDatas'[q] \in {0, TargetQos(q)'}
      PROVE  Rating'
  BY <1>1, <1>5 DEF Rating, Pending, Deciding, HasQer
<1>6. ASSUME NEW n \in net, HandleSMPolicyUpdateNotify(n) PROVE Rating'
  <2>1. /\ pc = "idle" /\ pc' = "inDecision" /\ UNCHANGED <<PCCRules, QosDatas>>
        /\ finalPccRules' = [r \in Rules |-> NoRule] /\ \A q \in Qos : finalQosDatas'[q] = 0
    BY <1>6 DEF HandleSMPolicyUpdateNotify, NoQosDecs
  <2>2. \A r \in Rules : PCCRules[r] # NoRule /\ RefQos[r] # NoQos /\ QosDatas[RefQos[r]] # 0
           => HasQer(b, PCCRules[r].path)
    BY <1>3, <1>4, <2>1 DEF Rating, Pending
  <2>3. QED
    BY <1>5, <2>1, <2>2
<1>7. ASSUME UNCHANGED <<dec, QosDatas>>, Deciding, Deciding',
             \A r \in Rules : (pc' = "notInDecision" => r \in todo') /\ PCCRules'[r] # NoRule
                                 => Pending(r) /\ PCCRules'[r] = PCCRules[r],
             \A r \in Rules : finalPccRules'[r] = finalPccRules[r]
                 \/ (finalPccRules'[r] # NoRule /\ RefQos[r] # NoQos /\ TargetQos(RefQos[r]) # 0
                        => HasQer(b, finalPccRules'[r].path)),
             \A q \in Qos : finalQosDatas'[q] \in {finalQosDatas[q], TargetQos(q)}
      PROVE  Rating'
  <2>1. \A q : TargetQos(q)' = TargetQos(q)
    BY <1>7 DEF TargetQos, SourceQos
  <2>2. ASSUME NEW r \in Rules, pc' = "notInDecision" => r \in todo', PCCRules'[r] # NoRule,
               RefQos[r] # NoQos, QosDatas'[RefQos[r]] # 0
        PROVE  HasQer(b, PCCRules'[r].path)
    BY <1>3, <1>4, <1>7, <2>2 DEF Rating
  <2>3. ASSUME NEW r \in Rules, finalPccRules'[r] # NoRule, RefQos[r] # NoQos,
               TargetQos(RefQos[r]) # 0
        PROVE  HasQer(b, finalPccRules'[r].path)
    BY <1>3, <1>4, <1>7, <2>3 DEF Rating
  <2>4. \A q \in Qos : finalQosDatas'[q] \in {0, TargetQos(q)}
    BY <1>7 DEF Rating
  <2>5. QED
    BY <1>5, <2>1, <2>2, <2>3, <2>4
<1>8. ASSUME NEW r \in todo, RemovePccRule(r) PROVE Rating'
  <2>1. /\ pc = "inDecision" /\ UNCHANGED <<pc, dec, QosDatas, finalPccRules, finalQosDatas>>
        /\ PCCRules' = [PCCRules EXCEPT ![r] = NoRule]
    BY <1>8 DEF RemovePccRule
  <2>2. QED
    BY <1>2, <1>7, <2>1 DEF Deciding, Pending
<1>9. ASSUME NEW r \in todo, InstallPccRule(r) PROVE Rating'
  <2>1. PICK p : p = Min(FreshPaths(ctx))
    OBVIOUS
  <2>2. /\ pc = "inDecision" /\ UNCHANGED <<pc, dec, QosDatas>>
        /\ PCCRules' = [PCCRules EXCEPT ![r] = NoRule]
        /\ \A q \in Qos : finalQosDatas'[q] \in {finalQosDatas[q], TargetQos(q)}
    BY <1>9 DEF InstallPccRule
  <2>3. /\ finalPccRules'[r].path = p
        /\ \A x \in Rules : x # r => finalPccRules'[x] = finalPccRules[x]
    BY <1>2, <1>9, <2>1, InstallMaps
  <2>4. RefQos[r] # NoQos /\ TargetQos(RefQos[r]) # 0 => HasQer(b, p)
    BY <1>1, <1>9, <2>1, InstallCarries
  <2>5. QED
    BY <1>2, <1>7, <2>2, <2>3, <2>4 DEF Deciding, Pending
<1>10. ASSUME NEW r \in todo, KeepPccRule(r) PROVE Rating'
  <2>1. /\ pc = "notInDecision" /\ UNCHANGED <<pc, dec, QosDatas, PCCRules>>
        /\ todo' = todo \ {r} /\ TargetQos(RefQos[r]) = SourceQos(RefQos[r])
        /\ finalPccRules' = [finalPccRules EXCEPT ![r] = PCCRules[r]]
        /\ \A q \in Qos : finalQosDatas'[q] \in {finalQosDatas[q], TargetQos(q)}
    BY <1>10 DEF KeepPccRule, Keep, SameQos
  <2>2. Pending(r) /\ r \in Rules
    BY <1>2 DEF Pending
  <2>3. ASSUME PCCRules[r] # NoRule, RefQos[r] # NoQos, TargetQos(RefQos[r]) # 0
        PROVE  HasQer(b, PCCRules[r].path)
    BY <1>3, <1>4, <2>1, <2>2, <2>3 DEF Rating, SourceQos
  <2>4. QED
    BY <1>2, <1>7, <2>1, <2>2, <2>3 DEF Deciding, Pending
<1>11. ASSUME EndInDecision PROVE Rating'
  <2>1. /\ pc = "inDecision" /\ pc' = "notInDecision"
        /\ UNCHANGED <<dec, QosDatas, PCCRules, finalPccRules, finalQosDatas>>
    BY <1>11 DEF EndInDecision, ruleVars
  <2>2. QED
    BY <1>7, <2>1 DEF Deciding, Pending
<1>12. ASSUME EndApplyPccRules PROVE Rating'
  <2>1. /\ pc = "notInDecision" /\ pc' = "activate" /\ PCCRules' = finalPccRules
        /\ QosDatas' = finalQosDatas
    BY <1>12 DEF EndApplyPccRules
  <2>2. ASSUME NEW r \in Rules, finalPccRules[r] # NoRule, RefQos[r] # NoQos,
               finalQosDatas[RefQos[r]] # 0
        PROVE  HasQer(b, finalPccRules[r].path)
    BY <1>2, <1>3, <1>4, <2>1, <2>2 DEF Rating, Deciding
  <2>3. QED
    BY <1>5, <2>1, <2>2
<1>13. ASSUME ActivateUPFSession \/ EndNotification PROVE Rating'
  <2>1. /\ pc \in {"activate", "postRemove"} /\ pc' \in {"postRemove", "idle"}
        /\ UNCHANGED <<PCCRules, QosDatas>>
    BY <1>13 DEF ActivateUPFSession, EndNotification, ruleVars
  <2>2. ASSUME NEW r \in Rules, PCCRules[r] # NoRule, RefQos[r] # NoQos,
               QosDatas[RefQos[r]] # 0
        PROVE  HasQer(b, PCCRules[r].path)
    BY <1>3, <1>4, <2>1, <2>2 DEF Rating, Pending
  <2>3. QED
    BY <1>5, <2>1, <2>2
<1>14. \A r \in todo : ~ChangePccRule(r) /\ ~InstallPccRuleFails(r)
  BY OnlyKept DEF Reliable, InstallPccRuleFails
<1>15. ~ModificationFails
  BY DEF Reliable, ModificationFails
<1>16. QED
  BY <1>6, <1>8, <1>9, <1>10, <1>11, <1>12, <1>13, <1>14, <1>15 DEF SmfNext

(* The first decision finds nothing installed. *)
LEMMA RatingInit == Init => Rating
  BY DEF Init, Rating, NoQosDecs

(* Each rule's path has the QER it needs, in every state. *)
LEMMA RatingAlways ==
  ASSUME Reliable, OwnQos, EnoughQFIs, DefaultRuleHasNoQos
  PROVE  Spec => []Rating
<1>1. Inv /\ Owners /\ AmbrInv /\ Requests /\ Numbers /\ InSync /\ InSync' /\ Rating /\ [Next]_vars
         => Rating'
  <2>1. ASSUME Rating, UNCHANGED <<pc, dec, todo, ruleVars, ctx>> PROVE Rating'
    BY <2>1 DEF Rating, Pending, Deciding, HasQer, TargetQos, SourceQos, ruleVars
  <2>2. QED
    BY <2>1, PcfFrame, RatingSmf DEF Next, Rest, vars
<1>2. QED
  BY <1>1, RatingInit, InvAlways, OwnersAlways, AmbrAlways, RequestsAlways, NumbersAlways,
     SyncAlways, PTL DEF Spec

(* Between two notifications the PDR of every installed rule refers to a QER that
   the UPF has with the rate of the rule's QoS datum, although AddQoS finds QERs
   again by QFI and leaves the rate of one it finds as it is. *)
THEOREM RatesInstalledHolds ==
  ASSUME Reliable, OwnQos, EnoughQFIs, DefaultRuleHasNoQos
  PROVE  Spec => []RatesInstalled
<1>1. Inv /\ Owners /\ InSync /\ OneRate /\ Rating => RatesInstalled
  <2> SUFFICES ASSUME Inv, Owners, InSync, OneRate, Rating, AtRest,
                      NEW r \in Installed, RefQos[r] # NoQos, QosDatas[RefQos[r]] # 0
               PROVE  \E d \in upf.refs[PCCRules[r].path] : upf.qer[d] = QosDatas[RefQos[r]]
    BY DEF RatesInstalled
  <2>1. PICK k : k = PCCRules[r].path
    OBVIOUS
  <2>2. r \in Rules /\ PCCRules[r] # NoRule /\ Pending(r) /\ RefQos[r] \in Qos
    BY ConstantsOK DEF Installed, Pending, AtRest, ConstantsOK
  <2>3. k \in Pool(ctx) /\ k \in PathIds /\ ctx.pool[k].rule = r
    BY <2>1, <2>2 DEF Owners, Owns, Stays, Pool
  <2>4. PICK d \in ctx.pool[k].qers : d # ctx.ambr
    BY <2>1, <2>2 DEF Rating, HasQer
  <2>5. PICK rate \in [Qos -> Nat] : Agree(rate)
    BY DEF OneRate
  <2>6. ctx.qer[d].rate = rate[RefQos[r]]
    BY <2>3, <2>4, <2>5 DEF Agree, Carries
  <2>7. QosDatas[RefQos[r]] = rate[RefQos[r]]
    BY <2>2, <2>5 DEF Agree
  <2>8. /\ upf.refs[k] = ctx.pool[k].qers
        /\ \A e \in QerIds : upf.qer[e] # 0 <=> e \in Held(ctx)
    BY <2>3, SyncMatches
  <2>9. d \in Held(ctx) /\ d \in QerIds
    BY <2>3, <2>4, HeldIds, GoodStep
  <2>10. upf.qer[d] = ctx.qer[d].rate
    BY <2>8, <2>9 DEF InSync, Unsent, AtRest
  <2>11. QED
    BY <2>1, <2>4, <2>6, <2>7, <2>8, <2>10
<1>2. QED
  BY <1>1, InvAlways, OwnersAlways, SyncAlways, RateAlways, RatingAlways, PTL

=============================================================================
