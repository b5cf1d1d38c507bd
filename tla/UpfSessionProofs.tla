-------------------------- MODULE UpfSessionProofs --------------------------
(***************************************************************************)
(* Proofs about UpfSession for every set of SMFs, rules and every bound.   *)
(***************************************************************************)
EXTENDS UpfSession, FiniteSetTheorems, SequenceTheorems, TLAPS

XType == [b : Books, k : Kerns, us : SUBSET (Reasons \X URRs)]

(* Counting PDRs gives a natural number. *)
LEMMA CountPDRs == ASSUME NEW S \in SUBSET PDRs PROVE Count(S) \in Nat
  BY BoundsAssumption, FS_Subset, FS_CardinalityType DEF BoundsAssumption, Count

(* A created or removed FAR, QER or BAR leaves tables of the right shape. *)
LEMMA CreateRuleType ==
  ASSUME NEW x \in XType, NEW S \in SUBSET Rules, NEW f
  PROVE  CreateRule(x, S, f) \in XType
  BY DEF XType, Books, Kerns, CreateRule

(* Removing FARs, QERs or BARs keeps the tables well formed. *)
LEMMA RemoveRuleType ==
  ASSUME NEW x \in XType, NEW S \in SUBSET Rules, NEW f
  PROVE  RemoveRule(x, S, f) \in XType
  BY DEF XType, Books, Kerns, RemoveRule

(* The same of URRs. *)
LEMMA CreateURRType ==
  ASSUME NEW x \in XType, NEW S \in SUBSET URRs, NEW f
  PROVE  CreateURR(x, S, f) \in XType
  BY ZenonT(60) DEF XType, Books, Kerns, CreateURR

(* Removing URRs keeps the tables well formed. *)
LEMMA RemoveURRType ==
  ASSUME NEW x \in XType, NEW S \in SUBSET URRs, NEW f, NEW quiet
  PROVE  RemoveURR(x, S, f, quiet) \in XType
<1> DEFINE found == S \cap x.b.urrs
           done == (found \cap x.k.urrs) \ f
           sent == {<<"remove", u>> : u \in done \ quiet}
           b == [x.b EXCEPT !.removed = @ \cup found]
           k == [x.k EXCEPT !.urrs = @ \ done]
<1>1. x.us \cup sent \subseteq Reasons \X URRs
  BY DEF XType, Kerns, Reasons
<1>2. b \in Books /\ k \in Kerns
  BY DEF XType, Books, Kerns
<1>3. RemoveURR(x, S, f, quiet) = [x EXCEPT !.b = b, !.k = k, !.us = @ \cup sent]
  BY DEF XType, Books, Kerns, RemoveURR
<1> HIDE DEF b, k, sent
<1>4. QED
  BY <1>1, <1>2, <1>3 DEF XType

(* Updating URRs only collects reports. *)
LEMMA UpdateURRType ==
  ASSUME NEW x \in XType, NEW S \in SUBSET URRs, NEW f, NEW quiet
  PROVE  UpdateURR(x, S, f, quiet) \in XType
  BY DEF XType, Books, Kerns, UpdateURR, Reasons

(* Querying URRs only collects reports. *)
LEMMA QueryURRType ==
  ASSUME NEW x \in XType, NEW S \in SUBSET URRs, NEW f, NEW quiet
  PROVE  QueryURR(x, S, f, quiet) \in XType
  BY DEF XType, Books, Kerns, QueryURR, Reasons

(* The same of PDRs. *)
LEMMA CreatePDRType ==
  ASSUME NEW x \in XType, NEW m \in PdrMap, NEW f
  PROVE  CreatePDR(x, m, f) \in XType
<1>1. DOMAIN m \subseteq PDRs /\ \A p \in DOMAIN m : m[p] \subseteq URRs
  BY DEF PdrMap
<1>2. \A u \in URRs : Count({p \in DOMAIN m : u \in m[p]}) \in Nat
  BY <1>1, CountPDRs
<1> DEFINE b == [x.b EXCEPT !.pdrs = @ \cup DOMAIN m,
                   !.rel = [p \in PDRs |-> IF p \in DOMAIN m THEN m[p] ELSE @[p]],
                   !.ref = [u \in URRs |->
                              IF u \in x.b.urrs
                              THEN @[u] + Count({p \in DOMAIN m : u \in m[p]}) ELSE @[u]]]
           k == [x.k EXCEPT !.pdrs = @ \cup (DOMAIN m \ f)]
<1>3. b \in Books
  <2> DEFINE rel == [p \in PDRs |-> IF p \in DOMAIN m THEN m[p] ELSE x.b.rel[p]]
             ref == [u \in URRs |->
                       IF u \in x.b.urrs
                       THEN x.b.ref[u] + Count({p \in DOMAIN m : u \in m[p]})
                       ELSE x.b.ref[u]]
  <2>1. x.b \in Books
    BY DEF XType
  <2>2. rel \in [PDRs -> SUBSET URRs]
    BY <1>1, <2>1 DEF Books
  <2>3. ref \in [URRs -> Nat]
    <3> DEFINE c(u) == Count({p \in DOMAIN m : u \in m[p]})
    <3> SUFFICES ASSUME NEW u \in URRs PROVE x.b.ref[u] + c(u) \in Nat /\ x.b.ref[u] \in Nat
      BY Zenon
    <3> c(u) \in Nat
      BY <1>2
    <3> HIDE DEF c
    <3> QED BY <2>1 DEF Books
  <2>4. b = [x.b EXCEPT !.pdrs = @ \cup DOMAIN m, !.rel = rel, !.ref = ref]
    OBVIOUS
  <2> HIDE DEF b, rel, ref
  <2>5. QED
    BY <1>1, <2>1, <2>2, <2>3, <2>4 DEF Books
<1>4. k \in Kerns
  BY <1>1 DEF XType, Kerns
<1>5. CreatePDR(x, m, f) = [x EXCEPT !.b = b, !.k = k]
  BY DEF XType, Books, Kerns, CreatePDR
<1> HIDE DEF b, k
<1>6. QED
  BY <1>3, <1>4, <1>5 DEF XType

(* Dissociating URRs keeps refPdrNum a natural number. *)
LEMMA DiassociateType ==
  ASSUME NEW x \in XType, NEW drop \in [PDRs -> SUBSET URRs], NEW f, NEW quiet
  PROVE  diassociateURR(x, drop, f, quiet) \in XType
<1>1. \A u \in URRs : Count({p \in PDRs : u \in drop[p]}) \in Nat
  BY CountPDRs
<1> DEFINE n(u) == Count({p \in PDRs : u \in drop[p]})
           last == {u \in x.b.urrs : n(u) > 0 /\ x.b.ref[u] > 0 /\ x.b.ref[u] <= n(u)}
           b == [x.b EXCEPT !.ref = [u \in URRs |->
                                       IF u \notin x.b.urrs THEN @[u]
                                       ELSE IF n(u) >= @[u] THEN 0 ELSE @[u] - n(u)]]
           sent == {<<"last", u>> : u \in ((last \cap x.k.urrs) \ f) \ quiet}
<1>2. x.b \in Books /\ x.us \subseteq Reasons \X URRs
  BY DEF XType
<1>3. last \subseteq URRs
  BY <1>2 DEF Books
<1>4. sent \subseteq Reasons \X URRs
  <2> HIDE DEF last
  <2> QED BY <1>3 DEF Reasons
<1>5. \A u \in URRs : n(u) \in Nat
  BY <1>1
<1>6. b \in Books
  <2> HIDE DEF n
  <2> QED BY <1>2, <1>5 DEF Books
<1>7. diassociateURR(x, drop, f, quiet) = [x EXCEPT !.b = b, !.us = @ \cup sent]
  BY <1>2 DEF XType, diassociateURR
<1> HIDE DEF b, sent
<1>8. QED
  BY <1>2, <1>4, <1>6, <1>7 DEF XType

(* Removing PDRs, with the dissociation, keeps the tables well formed. *)
LEMMA RemovePDRType ==
  ASSUME NEW x \in XType, NEW S \in SUBSET PDRs, NEW f, NEW quiet
  PROVE  RemovePDR(x, S, f, quiet) \in XType
<1> DEFINE done == (S \cap x.b.pdrs \cap x.k.pdrs) \ f
           drop == [p \in PDRs |-> IF p \in done THEN x.b.rel[p] ELSE {}]
           y == diassociateURR(x, drop, f, quiet)
           rel == [p \in PDRs |-> IF p \in done THEN {} ELSE y.b.rel[p]]
<1>1. drop \in [PDRs -> SUBSET URRs]
  BY DEF XType, Books
<1> HIDE DEF drop
<1>2. y \in XType
  BY <1>1, DiassociateType
<1>3. RemovePDR(x, S, f, quiet)
        = [y EXCEPT !.b.pdrs = @ \ done, !.b.rel = rel, !.k.pdrs = @ \ done]
  BY DEF RemovePDR, drop
<1> HIDE DEF y
<1>4. rel \in [PDRs -> SUBSET URRs]
  BY <1>2 DEF XType, Books
<1> HIDE DEF rel, done
<1>5. y.b \in Books /\ y.k \in Kerns
  BY <1>2 DEF XType
<1>6. [y.b EXCEPT !.pdrs = @ \ done, !.rel = rel] \in Books
  BY <1>4, <1>5 DEF Books
<1>7. [y.k EXCEPT !.pdrs = @ \ done] \in Kerns
  BY <1>5 DEF Kerns
<1>8. RemovePDR(x, S, f, quiet)
        = [y EXCEPT !.b = [y.b EXCEPT !.pdrs = @ \ done, !.rel = rel],
                    !.k = [y.k EXCEPT !.pdrs = @ \ done]]
  BY <1>2, <1>3 DEF XType, Books, Kerns
<1>9. QED
  BY <1>2, <1>6, <1>7, <1>8 DEF XType

(* Updating PDRs, with the dissociation, keeps the tables well formed. *)
LEMMA UpdatePDRType ==
  ASSUME NEW x \in XType, NEW m \in PdrMap, NEW f, NEW quiet
  PROVE  UpdatePDR(x, m, f, quiet) \in XType
<1> DEFINE done == (DOMAIN m \cap x.b.pdrs \cap x.k.pdrs) \ f
           drop == [p \in PDRs |-> IF p \in done THEN x.b.rel[p] \ m[p] ELSE {}]
           y == diassociateURR(x, drop, f, quiet)
           rel == [p \in PDRs |-> IF p \in done THEN m[p] ELSE y.b.rel[p]]
<1>1. DOMAIN m \subseteq PDRs /\ \A p \in DOMAIN m : m[p] \subseteq URRs
  BY DEF PdrMap
<1>2. drop \in [PDRs -> SUBSET URRs]
  BY DEF XType, Books
<1> HIDE DEF drop
<1>3. y \in XType
  BY <1>2, DiassociateType
<1>4. UpdatePDR(x, m, f, quiet) = [y EXCEPT !.b.rel = rel]
  BY DEF UpdatePDR, drop
<1> HIDE DEF y
<1>5. rel \in [PDRs -> SUBSET URRs]
  BY <1>1, <1>3 DEF XType, Books
<1> HIDE DEF rel, done
<1>6. y.b \in Books
  BY <1>3 DEF XType
<1>7. [y.b EXCEPT !.rel = rel] \in Books
  BY <1>5, <1>6 DEF Books
<1>8. UpdatePDR(x, m, f, quiet) = [y EXCEPT !.b = [y.b EXCEPT !.rel = rel]]
  BY <1>3, <1>4 DEF XType, Books
<1>9. QED
  BY <1>3, <1>7, <1>8 DEF XType

(* Whole requests and the closing of a session keep the shape. *)
LEMMA CloseType ==
  ASSUME NEW x \in XType, NEW f, NEW quiet
  PROVE  Close(x, f, quiet) \in XType
<1> DEFINE y == RemoveRule(x, x.b.rules, f)
           z == RemoveURR(y, x.b.urrs, f, quiet)
<1>1. x.b.rules \in SUBSET Rules /\ x.b.urrs \in SUBSET URRs
  BY DEF XType, Books
<1>2. y \in XType
  BY <1>1, RemoveRuleType
<1> HIDE DEF y
<1>3. z \in XType
  BY <1>1, <1>2, RemoveURRType
<1>4. Close(x, f, quiet) = RemovePDR(z, z.b.pdrs, f, quiet)
  BY DEF Close, y
<1> HIDE DEF z
<1>5. z.b.pdrs \in SUBSET PDRs
  BY <1>3 DEF XType, Books
<1>6. QED
  BY <1>3, <1>4, <1>5, RemovePDRType

(* The IEs of a request are sets of ids. *)
LEMMA RequestType ==
  ASSUME NEW r \in Requests
  PROVE  /\ r.crRule \in SUBSET Rules /\ r.crURR \in SUBSET URRs /\ r.crPDR \in PdrMap
         /\ r.rmRule \in SUBSET Rules /\ r.rmURR \in SUBSET URRs /\ r.rmPDR \in SUBSET PDRs
         /\ r.upURR \in SUBSET URRs /\ r.upPDR \in PdrMap /\ r.quURR \in SUBSET URRs
<1>1. r \in IEs
  BY DEF Requests
<1> HIDE DEF PdrMap
<1>2. QED
  BY <1>1 DEF IEs

(* The creations of a request keep the tables well formed. *)
LEMMA CreateType ==
  ASSUME NEW x \in XType, NEW r \in Requests, NEW f
  PROVE  Create(x, r, f) \in XType
  BY RequestType, CreateRuleType, CreateURRType, CreatePDRType DEF Create

(* A modification, step by step, keeps the tables well formed. *)
LEMMA ModifyType ==
  ASSUME NEW x \in XType, NEW r \in Requests, NEW f, NEW quiet
  PROVE  Modify(x, r, f, quiet) \in XType
<1> DEFINE a == Create(x, r, f)
           c == RemoveRule(a, r.rmRule, f)
           d == RemoveURR(c, r.rmURR, f, quiet)
           y == RemovePDR(d, r.rmPDR, f, quiet)
           z == UpdateURR(y, r.upURR, f, quiet)
           w == UpdatePDR(z, r.upPDR, f, quiet)
<1>1. a \in XType
  BY CreateType
<1>2. c \in XType
  BY <1>1, RequestType, RemoveRuleType
<1>3. d \in XType
  BY <1>2, RequestType, RemoveURRType
<1>4. y \in XType
  BY <1>3, RequestType, RemovePDRType
<1>5. z \in XType
  BY <1>4, RequestType, UpdateURRType
<1>6. w \in XType
  BY <1>5, RequestType, UpdatePDRType
<1>7. Modify(x, r, f, quiet) = QueryURR(w, r.quURR, f, quiet)
  BY DEF Modify
<1> HIDE DEF w
<1>8. QED
  BY <1>6, <1>7, RequestType, QueryURRType

(* The sequence numbers a response consumes stay natural numbers. *)
LEMMA EmitType ==
  ASSUME NEW x \in XType
  PROVE  Emit(x) \in Books
<1> DEFINE sent == {u \in x.b.urrs : Reported(x, u) # {}}
           gone == sent \cap x.b.removed
           n(u) == IF u \in gone THEN 1 ELSE IF u \in sent THEN Count(Reported(x, u)) ELSE 0
           seqn == [u \in URRs |-> x.b.seqn[u] + n(u)]
<1>1. x.b \in Books /\ x.us \in SUBSET (Reasons \X URRs)
  BY DEF XType
<1>2. IsFiniteSet(x.us)
  <2>1. IsFiniteSet(Reasons)
    <3>1. IsFiniteSet({"remove"} \cup {"update"})
      BY FS_Singleton, FS_AddElement
    <3>2. IsFiniteSet(({"remove"} \cup {"update"}) \cup {"query"})
      BY <3>1, FS_AddElement
    <3>3. IsFiniteSet((({"remove"} \cup {"update"}) \cup {"query"}) \cup {"last"})
      BY <3>2, FS_AddElement
    <3>4. Reasons = (({"remove"} \cup {"update"}) \cup {"query"}) \cup {"last"}
      BY DEF Reasons
    <3>5. QED
      BY <3>3, <3>4
  <2>2. IsFiniteSet(Reasons \X URRs)
    BY <2>1, BoundsAssumption, FS_Product DEF BoundsAssumption
  <2>3. QED
    BY <1>1, <2>2, FS_Subset
<1>3. ASSUME NEW u \in URRs PROVE n(u) \in Nat
  <2>1. Reported(x, u) \subseteq x.us
    BY DEF Reported
  <2>2. Count(Reported(x, u)) \in Nat
    BY <1>2, <2>1, FS_Subset, FS_CardinalityType DEF Count
  <2>3. QED
    BY <2>2
<1>4. seqn \in [URRs -> Nat]
  <2> HIDE DEF n
  <2> QED BY <1>1, <1>3 DEF Books
<1>5. Emit(x) = [x.b EXCEPT !.urrs = @ \ gone, !.removed = @ \ gone, !.seqn = seqn]
  BY Zenon DEF Emit
<1> HIDE DEF gone, seqn
<1>6. QED
  BY ZenonT(60), <1>1, <1>4, <1>5 DEF Books

-----------------------------------------------------------------------------
(* The inductive invariant: the three invariants of the session table need   *)
(* one another and the type of the state.                                    *)
Inv == TypeOK /\ FreeListExact /\ OwnerAgrees

(* A visiting order of a set of SEIDs is a sequence of it without repetition. *)
LEMMA OrderProperties ==
  ASSUME NEW S \in SUBSET SEIDs, NEW o \in Orders(S)
  PROVE  /\ o \in Seq(SEIDs)
         /\ {o[j] : j \in 1..Len(o)} = S
         /\ \A j, k \in 1..Len(o) : o[j] = o[k] => j = k
<1>1. PICK n \in 0..MaxSess : o \in [1..n -> SEIDs]
  BY DEF Orders
<1>2. n \in Nat
  BY BoundsAssumption DEF BoundsAssumption
<1>3. o \in Seq(SEIDs) /\ Len(o) = n /\ DOMAIN o = 1..Len(o)
  BY <1>1, <1>2
<1>4. QED
  BY <1>3 DEF Orders

(* Deleting live sessions, in any order, keeps the free stack exact. *)
LEMMA DeleteKeepsStack ==
  ASSUME TypeOK, FreeListExact,
         NEW S \in SUBSET SEIDs, \A i \in S : owner[i] # 0,
         NEW o \in Orders(S),
         owner' = [i \in SEIDs |-> IF i \in S THEN 0 ELSE owner[i]],
         free' = free \o o, nsess' = nsess
  PROVE  free' \in Seq(SEIDs) /\ FreeListExact'
<1>1. /\ o \in Seq(SEIDs)
      /\ {o[j] : j \in 1..Len(o)} = S
      /\ \A j, k \in 1..Len(o) : o[j] = o[k] => j = k
  BY OrderProperties
<1>2. /\ free \in Seq(SEIDs)
      /\ owner \in [SEIDs -> 0..MaxNodes]
      /\ nsess \in 0..MaxSess /\ MaxSess \in Nat
  BY BoundsAssumption DEF TypeOK, BoundsAssumption
<1>3. /\ free' \in Seq(SEIDs)
      /\ Len(free') = Len(free) + Len(o)
      /\ \A j \in 1..Len(free) + Len(o) :
            free'[j] = IF j <= Len(free) THEN free[j] ELSE o[j - Len(free)]
  BY <1>1, <1>2, ConcatProperties
<1>4. Len(free) \in Nat /\ Len(o) \in Nat
  BY <1>1, <1>2
<1>5. S \subseteq 1..nsess
  BY <1>2 DEF FreeListExact, SEIDs
<1>6. {free'[j] : j \in 1..Len(free')} = {free[j] : j \in 1..Len(free)} \cup {o[j] : j \in 1..Len(o)}
  <2>1. ASSUME NEW j \in 1..Len(free')
        PROVE  free'[j] \in {free[k] : k \in 1..Len(free)} \cup {o[k] : k \in 1..Len(o)}
    <3>1. CASE j <= Len(free)
      BY <1>3, <1>4, <3>1
    <3>2. CASE ~(j <= Len(free))
      <4>1. j - Len(free) \in 1..Len(o) /\ free'[j] = o[j - Len(free)]
        BY <1>3, <1>4, <3>2
      <4>2. QED
        BY <4>1
    <3>3. QED
      BY <3>1, <3>2
  <2>2. ASSUME NEW k \in 1..Len(free) PROVE free[k] \in {free'[j] : j \in 1..Len(free')}
    BY <1>3, <1>4
  <2>3. ASSUME NEW k \in 1..Len(o) PROVE o[k] \in {free'[j] : j \in 1..Len(free')}
    <3>1. k + Len(free) \in 1..Len(free') /\ free'[k + Len(free)] = o[k]
      BY <1>3, <1>4
    <3>2. QED
      BY <3>1
  <2> DEFINE A == {free'[j] : j \in 1..Len(free')}
             B == {free[k] : k \in 1..Len(free)}
             C == {o[k] : k \in 1..Len(o)}
  <2>4. A \subseteq B \cup C
    BY <2>1
  <2>5. B \subseteq A /\ C \subseteq A
    BY <2>2, <2>3
  <2> HIDE DEF A, B, C
  <2>6. A = B \cup C
    BY <2>4, <2>5
  <2>7. QED
    BY <2>6 DEF A, B, C
<1>7. {i \in 1..nsess : owner'[i] = 0} = {i \in 1..nsess : owner[i] = 0} \cup S
  <2>1. 1..nsess \subseteq SEIDs
    BY <1>2 DEF SEIDs
  <2>2. \A i \in 1..nsess : owner'[i] = 0 <=> owner[i] = 0 \/ i \in S
    BY <2>1
  <2>3. QED
    BY <1>5, <2>2
<1>8. \A j, k \in 1..Len(free') : free'[j] = free'[k] => j = k
  <2> SUFFICES ASSUME NEW j \in 1..Len(free'), NEW k \in 1..Len(free'), free'[j] = free'[k]
               PROVE  j = k
    OBVIOUS
  <2>1. \A a \in 1..Len(free), b \in 1..Len(o) : free[a] # o[b]
    <3> SUFFICES ASSUME NEW a \in 1..Len(free), NEW b \in 1..Len(o) PROVE free[a] # o[b]
      OBVIOUS
    <3>1. o[b] \in S
      BY <1>1
    <3>2. free[a] \in {i \in 1..nsess : owner[i] = 0}
      BY DEF FreeListExact
    <3>3. QED
      BY <3>1, <3>2
  <2>2. CASE j <= Len(free) /\ k <= Len(free)
    BY <1>3, <1>4, <2>2 DEF FreeListExact
  <2>3. CASE ~(j <= Len(free)) /\ ~(k <= Len(free))
    <3>1. /\ j - Len(free) \in 1..Len(o) /\ free'[j] = o[j - Len(free)]
          /\ k - Len(free) \in 1..Len(o) /\ free'[k] = o[k - Len(free)]
      BY <1>3, <1>4, <2>3
    <3>2. j - Len(free) = k - Len(free)
      BY <1>1, <3>1
    <3>3. QED
      BY <1>4, <3>2
  <2>4. CASE (j <= Len(free)) # (k <= Len(free))
    BY <1>3, <1>4, <2>1, <2>4
  <2>5. QED
    BY <2>2, <2>3, <2>4
<1>9. \A i \in SEIDs : i > nsess' => owner'[i] = 0
  BY DEF FreeListExact
<1>10. QED
  BY <1>1, <1>3, <1>6, <1>7, <1>8, <1>9 DEF FreeListExact

(* The initial tables and the tables of a live slot have the right shape. *)
LEMMA NoBookType == NoBook \in Books /\ NoKern \in Kerns
  BY DEF NoBook, NoKern, Books, Kerns

(* What a request starts from is well formed. *)
LEMMA SlotType ==
  ASSUME TypeOK, NEW i \in SEIDs
  PROVE  [b |-> book[i], k |-> kern[i], us |-> {}] \in XType
<1>1. book[i] \in Books /\ kern[i] \in Kerns
  BY DEF TypeOK
<1>2. QED
  BY <1>1 DEF XType

(* So is what closing some of the sessions leaves. *)
LEMMA SessionsType ==
  ASSUME TypeOK, NEW S, NEW f, NEW quiet, NEW i \in SEIDs
  PROVE  Sessions(S, f, quiet)[i] \in XType
<1>1. [b |-> book[i], k |-> kern[i], us |-> {}] \in XType
  BY SlotType
<1>2. Close([b |-> book[i], k |-> kern[i], us |-> {}], f, quiet) \in XType
  BY <1>1, CloseType
<1>3. QED
  BY <1>1, <1>2 DEF Sessions

(* What LocalNode.DeleteSess leaves behind. *)
LEMMA DeleteSessType ==
  ASSUME TypeOK, FreeListExact,
         NEW S \in SUBSET SEIDs, \A i \in S : owner[i] # 0,
         NEW o \in Orders(S), NEW f, NEW quiet,
         DeleteSess(S, o, f, quiet)
  PROVE  /\ nsess' \in 0..MaxSess
         /\ owner' \in [SEIDs -> 0..MaxNodes]
         /\ rseid' \in [SEIDs -> RSEIDs]
         /\ book' \in [SEIDs -> Books] /\ kern' \in [SEIDs -> Kerns]
         /\ usars' \subseteq (Reasons \X URRs)
         /\ free' \in Seq(SEIDs) /\ FreeListExact'
<1> DEFINE closed == Sessions(S, f, quiet)
<1>1. \A i \in SEIDs : closed[i].k \in Kerns /\ closed[i].us \in SUBSET (Reasons \X URRs)
  <2> SUFFICES ASSUME NEW i \in SEIDs
               PROVE  closed[i].k \in Kerns /\ closed[i].us \in SUBSET (Reasons \X URRs)
    OBVIOUS
  <2>1. closed[i] \in XType
    BY SessionsType
  <2> HIDE DEF closed
  <2>2. QED
    BY <2>1 DEF XType
<1>2. /\ owner' = [i \in SEIDs |-> IF i \in S THEN 0 ELSE owner[i]]
      /\ free' = free \o o
      /\ book' = [i \in SEIDs |-> IF i \in S THEN NoBook ELSE book[i]]
      /\ kern' = [i \in SEIDs |-> closed[i].k]
      /\ usars' = UNION {closed[i].us : i \in S}
      /\ rseid' = [i \in SEIDs |-> IF i \in S THEN NoRemoteID ELSE rseid[i]]
      /\ nsess' = nsess
  BY DEF DeleteSess
<1> HIDE DEF closed
<1>3. free' \in Seq(SEIDs) /\ FreeListExact'
  BY <1>2, DeleteKeepsStack
<1>4. owner' \in [SEIDs -> 0..MaxNodes] /\ nsess' \in 0..MaxSess
  BY <1>2, BoundsAssumption DEF TypeOK, BoundsAssumption
<1>5. rseid' \in [SEIDs -> RSEIDs]
  <2>1. NoRemoteID \in RSEIDs
    BY BoundsAssumption DEF NoRemoteID, BoundsAssumption
  <2>2. QED
    BY <1>2, <2>1 DEF TypeOK
<1>6. book' \in [SEIDs -> Books]
  BY <1>2, NoBookType DEF TypeOK
<1>7. kern' \in [SEIDs -> Kerns] /\ usars' \subseteq (Reasons \X URRs)
  BY <1>1, <1>2
<1>8. QED
  BY <1>3, <1>4, <1>5, <1>6, <1>7

(* The set-up of an association keeps the invariant. *)
LEMMA SetupStep ==
  ASSUME Inv, NEW n \in NodeIDs, NEW f, NEW quiet, handleAssociationSetupRequest(n, f, quiet)
  PROVE  Inv'
<1> DEFINE old == rnodes[n]
           S == IF old = 0 THEN {} ELSE nodeSess[old]
           h == nnodes + 1
<1>1. /\ h \in Handles
      /\ nodeSess' = [g \in Handles |-> IF g = h \/ g = old THEN {} ELSE nodeSess[g]]
      /\ nnodes' = h
      /\ nodeId' = [nodeId EXCEPT ![h] = n]
      /\ nodeAddr' = [nodeAddr EXCEPT ![h] = n]
      /\ rnodes' = [rnodes EXCEPT ![n] = h]
      /\ up' = up /\ pending' = pending
  BY DEF handleAssociationSetupRequest
<1>2. PICK o \in Orders(S) : DeleteSess(S, o, f, quiet)
  BY DEF handleAssociationSetupRequest
<1>3. /\ nnodes \in 0..MaxNodes /\ MaxNodes \in Nat
      /\ old \in 0..MaxNodes
      /\ nodeSess \in [Handles -> SUBSET SEIDs]
      /\ owner \in [SEIDs -> 0..MaxNodes]
  BY BoundsAssumption DEF Inv, TypeOK, BoundsAssumption
<1>4. S \in SUBSET SEIDs /\ \A i \in S : owner[i] = old /\ owner[i] # 0
  BY <1>3 DEF Inv, OwnerAgrees, Handles
<1>5. /\ nsess' \in 0..MaxSess
      /\ owner' \in [SEIDs -> 0..MaxNodes]
      /\ rseid' \in [SEIDs -> RSEIDs]
      /\ book' \in [SEIDs -> Books] /\ kern' \in [SEIDs -> Kerns]
      /\ usars' \subseteq (Reasons \X URRs)
      /\ free' \in Seq(SEIDs) /\ FreeListExact'
  <2> HIDE DEF S
  <2> QED BY <1>2, <1>4, DeleteSessType DEF Inv
<1>6. owner' = [i \in SEIDs |-> IF i \in S THEN 0 ELSE owner[i]]
  BY <1>2 DEF DeleteSess
<1>7. TypeOK'
  <2>1. nnodes' \in 0..MaxNodes /\ rnodes' \in [NodeIDs -> 0..MaxNodes]
    BY <1>1, <1>3 DEF Inv, TypeOK, Handles
  <2>2. nodeId' \in [Handles -> NodeIDs] /\ nodeAddr' \in [Handles -> NodeIDs]
    BY <1>1 DEF Inv, TypeOK
  <2>3. nodeSess' \in [Handles -> SUBSET SEIDs]
    BY <1>1, <1>3
  <2>4. up' \in BOOLEAN /\ pending' \subseteq [rseid : RSEIDs, addr : NodeIDs]
    BY <1>1 DEF Inv, TypeOK
  <2>5. QED
    BY <1>5, <2>1, <2>2, <2>3, <2>4 DEF TypeOK
<1>8. OwnerAgrees'
  <2>1. ASSUME NEW i \in SEIDs, NEW g \in Handles
        PROVE  i \in nodeSess'[g] <=> owner'[i] = g
    <3>1. i \in nodeSess[g] <=> owner[i] = g
      BY DEF Inv, OwnerAgrees
    <3>2. owner[i] <= nnodes /\ g # 0 /\ owner[i] \in Nat
      BY <1>3 DEF Inv, OwnerAgrees, Handles
    <3>3. CASE i \in S
      BY <1>1, <1>4, <1>6, <3>1, <3>2, <3>3
    <3>4. CASE i \notin S
      <4>1. owner'[i] = owner[i]
        BY <1>6, <3>4
      <4>2. CASE g = h
        BY <1>1, <1>3, <3>2, <4>1, <4>2
      <4>3. CASE g = old
        BY <1>1, <3>1, <3>2, <3>4, <4>1, <4>3
      <4>4. CASE g # h /\ g # old
        BY <1>1, <3>1, <4>1, <4>4
      <4>5. QED
        BY <4>2, <4>3, <4>4
    <3>5. QED
      BY <3>3, <3>4
  <2>2. \A i \in SEIDs : owner'[i] <= nnodes'
    BY <1>1, <1>3, <1>6 DEF Inv, OwnerAgrees
  <2>3. \A m \in NodeIDs : rnodes'[m] <= nnodes'
    BY <1>1, <1>3 DEF Inv, OwnerAgrees, TypeOK
  <2>4. QED
    BY <2>1, <2>2, <2>3 DEF OwnerAgrees
<1>9. QED
  BY <1>5, <1>7, <1>8 DEF Inv

(* LocalNode.NewSess takes a SEID nobody holds and keeps the tables exact. *)
LEMMA NewSessKeepsTables ==
  ASSUME Inv, NEW h \in 1..nnodes, NEW s \in RSEIDs, NewSess(h, s),
         UNCHANGED nodeVars
  PROVE  /\ NewID \in SEIDs /\ owner[NewID] = 0
         /\ owner' = [owner EXCEPT ![NewID] = h]
         /\ rseid' = [rseid EXCEPT ![NewID] = s]
         /\ nsess' \in 0..MaxSess /\ free' \in Seq(SEIDs)
         /\ nodeSess' \in [Handles -> SUBSET SEIDs]
         /\ FreeListExact' /\ OwnerAgrees'
<1>1. /\ free \in Seq(SEIDs) /\ Len(free) \in Nat
      /\ owner \in [SEIDs -> 0..MaxNodes] /\ nodeSess \in [Handles -> SUBSET SEIDs]
      /\ nsess \in 0..MaxSess /\ MaxSess \in Nat
      /\ nnodes \in 0..MaxNodes /\ MaxNodes \in Nat /\ h \in Handles
  BY BoundsAssumption DEF Inv, TypeOK, BoundsAssumption, Handles
<1>2. CASE free # <<>>
  <2> DEFINE i == free[Len(free)]
  <2>1. /\ NewID = i
        /\ owner' = [owner EXCEPT ![i] = h] /\ rseid' = [rseid EXCEPT ![i] = s]
        /\ nodeSess' = [nodeSess EXCEPT ![h] = @ \cup {i}]
        /\ free' = SubSeq(free, 1, Len(free) - 1) /\ nsess' = nsess
    BY <1>2 DEF NewSess, NewID
  <2>2. Len(free) \in 1..Len(free)
    BY <1>1, <1>2
  <2>3. i \in {k \in 1..nsess : owner[k] = 0}
    BY <2>2 DEF Inv, FreeListExact
  <2>4. i \in 1..nsess /\ i \in SEIDs /\ owner[i] = 0
    BY <1>1, <2>3 DEF SEIDs
  <2>5. /\ free' \in Seq(SEIDs) /\ Len(free') = Len(free) - 1
        /\ \A j \in 1..Len(free) - 1 : free'[j] = free[j]
    <3> DEFINE n == Len(free) - 1
    <3>1. \A j \in 1..n : free[j] \in SEIDs
      BY <1>1
    <3>2. n \in Int /\ 1 <= n + 1
      BY <1>1, <2>2
    <3> HIDE DEF n
    <3>3. /\ SubSeq(free, 1, n) \in Seq(SEIDs)
          /\ Len(SubSeq(free, 1, n)) = IF 1 <= n THEN n - 1 + 1 ELSE 0
          /\ \A j \in 1..n - 1 + 1 : SubSeq(free, 1, n)[j] = free[1 + j - 1]
      BY <3>1, <3>2, SubSeqProperties
    <3>4. /\ Len(SubSeq(free, 1, n)) = n
          /\ \A j \in 1..n : SubSeq(free, 1, n)[j] = free[j]
      BY <3>2, <3>3
    <3>5. QED
      BY <2>1, <3>3, <3>4 DEF n
  <2> HIDE DEF i
  <2>6. FreeListExact'
    <3>1. \A j \in 1..Len(free') : j \in 1..Len(free) /\ j # Len(free) /\ free'[j] = free[j]
      BY SMTT(30), <1>1, <2>5
    <3>2. \A j, k \in 1..Len(free') : free'[j] = free'[k] => j = k
      <4>1. \A j, k \in 1..Len(free) : free[j] = free[k] => j = k
        BY DEF Inv, FreeListExact
      <4>2. QED
        BY <3>1, <4>1
    <3>3. \A j \in 1..Len(free') : free'[j] \in {k \in 1..nsess : owner'[k] = 0}
      <4> SUFFICES ASSUME NEW j \in 1..Len(free')
                   PROVE  free[j] \in 1..nsess /\ owner'[free[j]] = 0
        BY <3>1
      <4>1. free[j] \in {k \in 1..nsess : owner[k] = 0}
        BY <3>1 DEF Inv, FreeListExact
      <4>2. free[j] # i
        BY <2>2, <3>1 DEF Inv, FreeListExact, i
      <4>3. \A k \in 1..nsess : k # i /\ owner[k] = 0 => owner'[k] = 0
        BY <1>1, <2>1 DEF SEIDs
      <4>4. QED
        BY <4>1, <4>2, <4>3
    <3>4. \A k \in 1..nsess : owner'[k] = 0 => \E j \in 1..Len(free') : free'[j] = k
      <4> SUFFICES ASSUME NEW k \in 1..nsess, owner'[k] = 0
                   PROVE  \E j \in 1..Len(free') : free'[j] = k
        OBVIOUS
      <4>1. k \in SEIDs
        BY <1>1 DEF SEIDs
      <4>2. k # i /\ owner[k] = 0
        BY <1>1, <2>1, <4>1 DEF Handles
      <4>3. k \in {free[j] : j \in 1..Len(free)}
        BY <4>2 DEF Inv, FreeListExact
      <4>4. PICK j \in 1..Len(free) : free[j] = k
        BY <4>3
      <4>5. j # Len(free)
        BY <4>2, <4>4 DEF i
      <4>6. j \in 1..Len(free')
        BY <1>1, <2>5, <4>5
      <4>7. QED
        BY <3>1, <4>4, <4>6
    <3>5. \A k \in SEIDs : k > nsess' => owner'[k] = 0
      <4>1. \A k \in SEIDs : k > nsess => k # i /\ owner[k] = 0
        BY <1>1, <2>4 DEF Inv, FreeListExact
      <4>2. QED
        BY <1>1, <2>1, <4>1
    <3>6. {free'[j] : j \in 1..Len(free')} = {k \in 1..nsess : owner'[k] = 0}
      <4>1. \A x : x \in {free'[j] : j \in 1..Len(free')}
                   => x \in {k \in 1..nsess : owner'[k] = 0}
        BY <3>3
      <4>2. \A x : x \in {k \in 1..nsess : owner'[k] = 0}
                   => x \in {free'[j] : j \in 1..Len(free')}
        BY <3>4
      <4>3. QED
        BY <4>1, <4>2
    <3>7. {i1 \in 1..nsess' : owner'[i1] = 0} = {free'[j] : j \in 1..Len(free')}
      BY <2>1, <3>6
    <3>8. QED
      BY <3>2, <3>5, <3>7 DEF FreeListExact
  <2>7. OwnerAgrees'
    BY <1>1, <2>1, <2>4 DEF Inv, OwnerAgrees, nodeVars, Handles
  <2>8. nodeSess' \in [Handles -> SUBSET SEIDs]
    BY <1>1, <2>1, <2>4
  <2>9. QED
    BY <1>1, <2>1, <2>4, <2>5, <2>6, <2>7, <2>8
<1>3. CASE free = <<>>
  <2> DEFINE i == nsess + 1
  <2>1. /\ NewID = i /\ i \in SEIDs
        /\ owner' = [owner EXCEPT ![i] = h] /\ rseid' = [rseid EXCEPT ![i] = s]
        /\ nodeSess' = [nodeSess EXCEPT ![h] = @ \cup {i}]
        /\ free' = free /\ nsess' = i
    BY <1>1, <1>3 DEF NewSess, NewID, SEIDs
  <2>2. owner[i] = 0
    BY <1>1, <2>1 DEF Inv, FreeListExact
  <2>3. \A k \in 1..nsess' : owner'[k] # 0
    <3>1. \A k \in 1..nsess : owner[k] # 0
      BY <1>3 DEF Inv, FreeListExact
    <3>2. QED
      BY <1>1, <2>1, <3>1 DEF SEIDs, Handles
  <2>4. FreeListExact'
    <3>1. \A k \in SEIDs : k > nsess' => owner'[k] = 0
      BY <1>1, <2>1 DEF Inv, FreeListExact, SEIDs
    <3>2. QED
      BY <1>3, <2>1, <2>3, <3>1 DEF FreeListExact
  <2>5. OwnerAgrees'
    BY <1>1, <2>1, <2>2 DEF Inv, OwnerAgrees, nodeVars, Handles
  <2>6. nsess' \in 0..MaxSess
    BY <1>1, <2>1 DEF SEIDs
  <2>7. nodeSess' \in [Handles -> SUBSET SEIDs]
    BY <1>1, <2>1
  <2>8. QED
    BY <1>1, <2>1, <2>2, <2>4, <2>5, <2>6, <2>7
<1>4. QED
  BY <1>2, <1>3

(* The establishment of a session keeps the invariant. *)
LEMMA EstablishStep ==
  ASSUME Inv, NEW n \in NodeIDs, NEW s \in RSEIDs, NEW r \in Requests, NEW f,
         handleSessionEstablishmentRequest(n, s, r, f)
  PROVE  Inv'
<1> DEFINE i == NewID
           x == Create([b |-> NoBook, k |-> kern[i], us |-> {}], r, f)
<1>1. /\ rnodes[n] # 0 /\ NewSess(rnodes[n], s) /\ UNCHANGED nodeVars
      /\ book' = [book EXCEPT ![i] = x.b] /\ kern' = [kern EXCEPT ![i] = x.k]
      /\ usars' = {} /\ up' = up /\ pending' = pending
  BY DEF handleSessionEstablishmentRequest, nodeVars
<1>2. rnodes[n] \in 1..nnodes
  BY <1>1, BoundsAssumption DEF Inv, TypeOK, OwnerAgrees, BoundsAssumption
<1>3. /\ i \in SEIDs
      /\ owner' = [owner EXCEPT ![i] = rnodes[n]]
      /\ rseid' = [rseid EXCEPT ![i] = s]
      /\ nsess' \in 0..MaxSess /\ free' \in Seq(SEIDs)
      /\ nodeSess' \in [Handles -> SUBSET SEIDs]
      /\ FreeListExact' /\ OwnerAgrees'
  BY <1>1, <1>2, NewSessKeepsTables
<1> HIDE DEF i
<1>4. x \in XType
  <2>1. [b |-> NoBook, k |-> kern[i], us |-> {}] \in XType
    BY <1>3, NoBookType DEF Inv, TypeOK, XType
  <2>2. QED
    BY <2>1, CreateType
<1> HIDE DEF x
<1>5. x.b \in Books /\ x.k \in Kerns
  BY <1>4 DEF XType
<1>6. book' \in [SEIDs -> Books] /\ kern' \in [SEIDs -> Kerns]
  BY <1>1, <1>3, <1>5 DEF Inv, TypeOK
<1>7. owner' \in [SEIDs -> 0..MaxNodes] /\ rseid' \in [SEIDs -> RSEIDs]
  BY <1>2, <1>3, BoundsAssumption DEF Inv, TypeOK, BoundsAssumption
<1>8. TypeOK'
  BY <1>1, <1>3, <1>6, <1>7 DEF Inv, TypeOK, nodeVars
<1>9. QED
  BY <1>3, <1>8 DEF Inv

(* A step that leaves the session table and the node table alone.            *)
LEMMA TablesKept ==
  ASSUME Inv, UNCHANGED <<nnodes, nodeSess, nsess, owner, rseid, free>>,
         \A n \in NodeIDs : rnodes'[n] <= nnodes
  PROVE  FreeListExact' /\ OwnerAgrees'
<1>1. FreeListExact'
  BY DEF Inv, FreeListExact
<1>2. OwnerAgrees'
  BY DEF Inv, OwnerAgrees
<1>3. QED
  BY <1>1, <1>2

(* A modification, with or without a takeover, keeps the invariant.          *)
LEMMA ModifyStep ==
  ASSUME Inv, NEW i \in SEIDs, NEW r \in Requests, NEW f, NEW quiet,
         handleSessionModificationRequest(i, r, f, quiet)
  PROVE  Inv'
<1> DEFINE x == Modify([b |-> book[i], k |-> kern[i], us |-> {}], r, f, quiet)
<1>1. /\ owner[i] # 0
      /\ book' = [book EXCEPT ![i] = Emit(x)] /\ kern' = [kern EXCEPT ![i] = x.k]
      /\ usars' = x.us
      /\ up' = up /\ pending' = pending
      /\ nodeSess' = nodeSess /\ nsess' = nsess /\ owner' = owner /\ rseid' = rseid
      /\ free' = free
  BY DEF handleSessionModificationRequest, tableVars
<1>2. x \in XType
  BY SlotType, ModifyType DEF Inv
<1> HIDE DEF x
<1>3. Emit(x) \in Books /\ x.k \in Kerns /\ x.us \subseteq (Reasons \X URRs)
  BY <1>2, EmitType DEF XType
<1>4. book' \in [SEIDs -> Books] /\ kern' \in [SEIDs -> Kerns]
  BY <1>1, <1>3 DEF Inv, TypeOK
<1>5. /\ nnodes' = nnodes /\ nodeAddr' = nodeAddr
      /\ nodeId' \in [Handles -> NodeIDs]
      /\ rnodes' \in [NodeIDs -> 0..MaxNodes]
      /\ \A n \in NodeIDs : rnodes'[n] <= nnodes
  <2>1. CASE UNCHANGED nodeVars
    BY <2>1 DEF Inv, TypeOK, OwnerAgrees, nodeVars
  <2>2. ASSUME NEW n \in NodeIDs, UpdateNodeID(owner[i], n)
        PROVE  <1>5!1 /\ <1>5!2 /\ <1>5!3 /\ <1>5!4
    <3>1. owner[i] \in Handles /\ owner[i] \in 0..MaxNodes /\ owner[i] <= nnodes
      BY <1>1, BoundsAssumption DEF Inv, TypeOK, OwnerAgrees, BoundsAssumption, Handles
    <3>2. nnodes \in Nat /\ nodeId[owner[i]] \in NodeIDs
      BY <3>1, BoundsAssumption DEF Inv, TypeOK, BoundsAssumption
    <3> DEFINE g == owner[i]
               cleared == [rnodes EXCEPT ![nodeId[g]] = 0]
    <3>3. /\ nodeId' = [nodeId EXCEPT ![g] = n] /\ rnodes' = [cleared EXCEPT ![n] = g]
          /\ nnodes' = nnodes /\ nodeAddr' = nodeAddr
      BY <2>2 DEF UpdateNodeID
    <3>4. /\ cleared \in [NodeIDs -> 0..MaxNodes]
          /\ \A m \in NodeIDs : cleared[m] <= nnodes
      BY <3>2, BoundsAssumption DEF Inv, TypeOK, OwnerAgrees, BoundsAssumption
    <3> HIDE DEF cleared, g
    <3>5. nodeId' \in [Handles -> NodeIDs]
      BY <3>3 DEF Inv, TypeOK
    <3>6. g \in 0..MaxNodes /\ g <= nnodes
      BY <3>1 DEF g
    <3>7. QED
      BY <3>3, <3>4, <3>5, <3>6
  <2>3. QED
    BY <2>1, <2>2 DEF handleSessionModificationRequest
<1>6. FreeListExact' /\ OwnerAgrees'
  BY <1>1, <1>5, TablesKept
<1>7. TypeOK'
  BY <1>1, <1>3, <1>4, <1>5 DEF Inv, TypeOK
<1>8. QED
  BY <1>6, <1>7 DEF Inv

(* RemoteNode.DeleteSess of one live session keeps the invariant.            *)
LEMMA DeleteOneStep ==
  ASSUME Inv, NEW i \in SEIDs, owner[i] # 0, NEW f, NEW quiet, deleteSession(i, f, quiet),
         UNCHANGED <<up, nodeVars>>, pending' \subseteq pending
  PROVE  Inv'
<1>1. /\ DeleteSess({i}, <<i>>, f, quiet)
      /\ nodeSess' = [nodeSess EXCEPT ![owner[i]] = @ \ {i}]
  BY DEF deleteSession
<1>2. <<i>> \in Orders({i})
  <2>1. 1 \in 0..MaxSess /\ <<i>> \in [1..1 -> SEIDs]
    BY BoundsAssumption DEF BoundsAssumption
  <2>2. {<<i>>[j] : j \in DOMAIN <<i>>} = {i}
    OBVIOUS
  <2>3. \A j, k \in DOMAIN <<i>> : j = k
    OBVIOUS
  <2>4. QED
    BY <2>1, <2>2, <2>3 DEF Orders
<1>3. /\ nsess' \in 0..MaxSess
      /\ owner' \in [SEIDs -> 0..MaxNodes]
      /\ rseid' \in [SEIDs -> RSEIDs]
      /\ book' \in [SEIDs -> Books] /\ kern' \in [SEIDs -> Kerns]
      /\ usars' \subseteq (Reasons \X URRs)
      /\ free' \in Seq(SEIDs) /\ FreeListExact'
  BY <1>1, <1>2, DeleteSessType DEF Inv
<1>4. owner' = [k \in SEIDs |-> IF k \in {i} THEN 0 ELSE owner[k]]
  BY <1>1 DEF DeleteSess
<1>5. owner[i] \in Handles /\ nodeSess \in [Handles -> SUBSET SEIDs]
      /\ owner \in [SEIDs -> 0..MaxNodes]
  BY BoundsAssumption DEF Inv, TypeOK, BoundsAssumption, Handles
<1>6. TypeOK'
  <2>1. nodeSess' \in [Handles -> SUBSET SEIDs]
    BY <1>1, <1>5
  <2>2. QED
    BY <1>3, <2>1 DEF Inv, TypeOK, nodeVars
<1>7. OwnerAgrees'
  <2>1. ASSUME NEW k \in SEIDs, NEW g \in Handles PROVE k \in nodeSess'[g] <=> owner'[k] = g
    <3>1. (k \in nodeSess[g] <=> owner[k] = g) /\ g # 0
      BY DEF Inv, OwnerAgrees, Handles
    <3>2. QED
      BY <1>1, <1>4, <1>5, <3>1
  <2>2. \A k \in SEIDs : owner'[k] <= nnodes'
    BY <1>4, BoundsAssumption DEF Inv, OwnerAgrees, TypeOK, nodeVars, BoundsAssumption
  <2>3. \A n \in NodeIDs : rnodes'[n] <= nnodes'
    BY DEF Inv, OwnerAgrees, nodeVars
  <2>4. QED
    BY <2>1, <2>2, <2>3 DEF OwnerAgrees
<1>8. QED
  BY <1>3, <1>6, <1>7 DEF Inv

(* A report sent to the SMF, and what its answer does, keep the invariant.   *)
LEMMA ReportStep ==
  ASSUME Inv, NEW i \in SEIDs, NEW S \in SUBSET URRs, ServeReport(i, S)
  PROVE  Inv'
<1> DEFINE seqn == [u \in URRs |-> IF u \in S \cap book[i].urrs THEN book[i].seqn[u] + 1
                                   ELSE book[i].seqn[u]]
<1>1. /\ owner[i] # 0
      /\ pending' = pending \cup {[rseid |-> rseid[i], addr |-> nodeId[owner[i]]]}
      /\ book' = [book EXCEPT ![i] = [@ EXCEPT !.seqn = seqn]]
      /\ UNCHANGED <<up, nnodes, nodeId, nodeAddr, rnodes>>
      /\ UNCHANGED <<nodeSess, nsess, owner, rseid, free, kern, usars>>
  BY DEF ServeReport, nodeVars, tableVars
<1>2. book[i] \in Books
  BY DEF Inv, TypeOK
<1>3. seqn \in [URRs -> Nat]
  BY <1>2 DEF Books
<1> HIDE DEF seqn
<1>4. [book[i] EXCEPT !.seqn = seqn] \in Books
  BY <1>2, <1>3 DEF Books
<1>5. book' \in [SEIDs -> Books]
  BY <1>1, <1>4 DEF Inv, TypeOK
<1>6. rseid[i] \in RSEIDs /\ nodeId[owner[i]] \in NodeIDs
  BY <1>1, BoundsAssumption DEF Inv, TypeOK, BoundsAssumption, Handles
<1>7. TypeOK'
  BY <1>1, <1>5, <1>6 DEF Inv, TypeOK
<1>8. FreeListExact' /\ OwnerAgrees'
  BY <1>1, TablesKept DEF Inv, OwnerAgrees
<1>9. QED
  BY <1>7, <1>8 DEF Inv

(* A step that touches no table keeps the invariant. *)
LEMMA UntouchedStep ==
  ASSUME Inv, UNCHANGED <<nodeVars, tableVars, book, kern, usars>>,
         up' \in BOOLEAN, pending' \subseteq pending
  PROVE  Inv'
<1>1. TypeOK'
  BY DEF Inv, TypeOK, nodeVars, tableVars
<1>2. FreeListExact' /\ OwnerAgrees'
  BY TablesKept DEF Inv, OwnerAgrees, nodeVars, tableVars
<1>3. QED
  BY <1>1, <1>2 DEF Inv

(* So does a report response, whether it panics, deletes or does nothing. *)
LEMMA ResponseStep ==
  ASSUME Inv, NEW m \in pending, NEW noSession \in BOOLEAN, NEW f,
         handleSessionReportResponse(m, noSession, f)
  PROVE  Inv'
<1>1. pending' \subseteq pending /\ UNCHANGED nodeVars
  BY DEF handleSessionReportResponse
<1>2. CASE up' = FALSE /\ UNCHANGED <<tableVars, book, kern, usars>>
  BY <1>1, <1>2, UntouchedStep
<1>3. CASE UNCHANGED <<up, tableVars, book, kern, usars>>
  BY <1>1, <1>3, UntouchedStep DEF Inv, TypeOK
<1>4. ASSUME NEW i \in Scanned(m), Matches(i, m), deleteSession(i, f, {}), UNCHANGED up
      PROVE  Inv'
  <2>1. i \in SEIDs
    BY BoundsAssumption DEF Scanned, SEIDs, Inv, TypeOK, BoundsAssumption
  <2>2. owner[i] # 0
    BY <1>4 DEF Matches
  <2>3. QED
    BY <1>1, <1>4, <2>1, <2>2, DeleteOneStep
<1>5. QED
  BY <1>2, <1>3, <1>4 DEF handleSessionReportResponse

(* Every step of the server keeps the invariant.                             *)
LEMMA InvInductive == Inv /\ [Next]_vars => Inv'
<1> SUFFICES ASSUME Inv, [Next]_vars PROVE Inv'
  OBVIOUS
<1>1. CASE UNCHANGED vars
  BY <1>1, UntouchedStep DEF vars, nodeVars, tableVars, Inv, TypeOK
<1>2. ASSUME NEW f, NEW quiet, NEW n \in NodeIDs, handleAssociationSetupRequest(n, f, quiet)
      PROVE  Inv'
  BY <1>2, SetupStep
<1>3. ASSUME NEW f, NEW quiet, NEW i \in SEIDs, NEW r \in Requests,
             handleSessionModificationRequest(i, r, f, quiet)
      PROVE  Inv'
  BY <1>3, ModifyStep
<1>4. ASSUME NEW f, NEW quiet, NEW i \in SEIDs, handleSessionDeletionRequest(i, f, quiet)
      PROVE  Inv'
  BY <1>4, DeleteOneStep DEF handleSessionDeletionRequest
<1>5. ASSUME NEW f, NEW n \in NodeIDs, NEW s \in RSEIDs, NEW r \in Creations,
             handleSessionEstablishmentRequest(n, s, r, f)
      PROVE  Inv'
  BY <1>5, EstablishStep DEF Creations
<1>6. ASSUME NEW f, NEW m \in pending, NEW noSession \in BOOLEAN,
             handleSessionReportResponse(m, noSession, f)
      PROVE  Inv'
  BY <1>6, ResponseStep
<1>7. ASSUME NEW i \in SEIDs, NEW S \in SUBSET URRs, ServeReport(i, S)
      PROVE  Inv'
  BY <1>7, ReportStep
<1>8. ASSUME NEW m \in pending, handleSessionReportRequestTimeout(m)
      PROVE  Inv'
  BY <1>8, UntouchedStep DEF handleSessionReportRequestTimeout, Inv, TypeOK
<1>9. QED
  BY <1>1, <1>2, <1>3, <1>4, <1>5, <1>6, <1>7, <1>8 DEF Next

(* The state of a new server satisfies the invariant. *)
LEMMA InvInit == Init => Inv
<1> SUFFICES ASSUME Init PROVE Inv
  OBVIOUS
<1>1. TypeOK
  <2>1. (CHOOSE n \in NodeIDs : TRUE) \in NodeIDs /\ NoRemoteID \in RSEIDs
    BY BoundsAssumption DEF NoRemoteID, BoundsAssumption
  <2>2. QED
    BY <2>1, NoBookType, BoundsAssumption DEF Init, TypeOK, BoundsAssumption
<1>2. FreeListExact
  BY DEF Init, FreeListExact
<1>3. OwnerAgrees
  BY DEF Init, OwnerAgrees, Handles
<1>4. QED
  BY <1>1, <1>2, <1>3 DEF Inv

(* The invariant holds in every reachable state. *)
LEMMA InvAlways == Spec => []Inv
  BY InvInit, InvInductive, PTL DEF Spec

-----------------------------------------------------------------------------
(* The tables of the PFCP server keep their shape through every sequence of  *)
(* requests, takeovers, reports and driver failures.                         *)
THEOREM TypeCorrect == Spec => []TypeOK
<1>1. Inv => TypeOK
  BY DEF Inv
<1>2. QED
  BY <1>1, InvAlways, PTL

(* LocalNode.free is exactly the nil slots of LocalNode.sess, without        *)
(* repetition: no local SEID is lost or free twice.                          *)
THEOREM FreeStackExact == Spec => []FreeListExact
<1>1. Inv => FreeListExact
  BY DEF Inv
<1>2. QED
  BY <1>1, InvAlways, PTL

(* Each live session is in the map of its own RemoteNode and of no other.    *)
THEOREM OwnersAgree == Spec => []OwnerAgrees
<1>1. Inv => OwnerAgrees
  BY DEF Inv
<1>2. QED
  BY <1>1, InvAlways, PTL

(* No step hands a live local SEID to another session.                       *)
THEOREM LiveSessionsKept == Spec => LiveSessionKept
<1> DEFINE Kept == \A i \in SEIDs : owner[i] # 0 /\ owner'[i] # 0
                                     => owner'[i] = owner[i] /\ rseid'[i] = rseid[i]
<1>1. ASSUME Inv, [Next]_vars PROVE Kept
  <2>1. CASE UNCHANGED <<owner, rseid>>
    BY <2>1
  <2>2. ASSUME NEW S, NEW o, NEW f, NEW quiet, DeleteSess(S, o, f, quiet) PROVE Kept
    BY <2>2 DEF DeleteSess
  <2>3. ASSUME NEW n \in NodeIDs, NEW s \in RSEIDs, NEW r, NEW f,
               handleSessionEstablishmentRequest(n, s, r, f)
        PROVE  Kept
    <3>1. rnodes[n] \in 1..nnodes
      BY <1>1, <2>3, BoundsAssumption
         DEF handleSessionEstablishmentRequest, Inv, TypeOK, OwnerAgrees, BoundsAssumption
    <3>2. NewSess(rnodes[n], s) /\ UNCHANGED nodeVars
      BY <2>3 DEF handleSessionEstablishmentRequest
    <3>3. /\ NewID \in SEIDs /\ owner[NewID] = 0
          /\ owner' = [owner EXCEPT ![NewID] = rnodes[n]]
          /\ rseid' = [rseid EXCEPT ![NewID] = s]
      BY <1>1, <3>1, <3>2, NewSessKeepsTables
    <3>4. QED
      BY <1>1, <3>3 DEF Inv, TypeOK
  <2> HIDE DEF Kept
  <2>4. CASE UNCHANGED vars
    BY <2>1, <2>4 DEF vars
  <2>5. CASE Next
    <3>1. ASSUME NEW f, NEW quiet, NEW n, handleAssociationSetupRequest(n, f, quiet) PROVE Kept
      BY <2>2, <3>1 DEF handleAssociationSetupRequest
    <3>2. ASSUME NEW i, NEW r, NEW f, NEW quiet, handleSessionModificationRequest(i, r, f, quiet)
          PROVE  Kept
      BY <2>1, <3>2 DEF handleSessionModificationRequest, tableVars
    <3>3. ASSUME NEW i, NEW f, NEW quiet, handleSessionDeletionRequest(i, f, quiet) PROVE Kept
      BY <2>2, <3>3 DEF handleSessionDeletionRequest, deleteSession
    <3>4. ASSUME NEW m, NEW noSession, NEW f, handleSessionReportResponse(m, noSession, f)
          PROVE  Kept
      BY <2>1, <2>2, <3>4 DEF handleSessionReportResponse, deleteSession, tableVars
    <3>5. ASSUME NEW i, NEW S, ServeReport(i, S) PROVE Kept
      BY <2>1, <3>5 DEF ServeReport, tableVars
    <3>6. ASSUME NEW m, handleSessionReportRequestTimeout(m) PROVE Kept
      BY <2>1, <3>6 DEF handleSessionReportRequestTimeout, tableVars
    <3>7. QED
      BY <2>3, <2>5, <3>1, <3>2, <3>3, <3>4, <3>5, <3>6 DEF Next
  <2>6. QED
    BY <1>1, <2>4, <2>5
<1>2. QED
  BY <1>1, InvAlways, PTL DEF Spec, LiveSessionKept

-----------------------------------------------------------------------------
(* The rules.  gtp5g agrees with the tables of a session on the rules it     *)
(* refuses no call for; a count is at most the number of PDRs that name the  *)
(* URR; and what gtp5g holds is named.                                       *)
Agree(x) ==
    /\ x.k.pdrs \ Flaky = x.b.pdrs \ Flaky
    /\ x.k.rules \ Flaky = x.b.rules \ Flaky
    /\ x.k.urrs \ Flaky = (x.b.urrs \ x.b.removed) \ Flaky
Share(x, u) == {p \in x.b.pdrs : u \in x.b.rel[p]}
Shares(x) == \A u \in x.b.urrs : x.b.ref[u] <= Count(Share(x, u))
NamedBy(x) == x.k.pdrs \subseteq x.b.pdrs /\ x.k.rules \subseteq x.b.rules
Keeps(x, y) ==
    /\ Agree(x) => Agree(y)
    /\ Shares(x) => Shares(y)
    /\ NamedBy(x) => NamedBy(y)

(* A method that changes no PDR, no relation and no count. *)
LEMMA SharesSame ==
  ASSUME NEW x \in XType, NEW y, y.b.pdrs = x.b.pdrs, y.b.rel = x.b.rel,
         y.b.urrs \subseteq x.b.urrs, y.b.ref = x.b.ref, Shares(x)
  PROVE  Shares(y)
<1>1. \A u : Share(y, u) = Share(x, u)
  BY DEF Share
<1>2. QED
  BY <1>1 DEF Shares

(* A created FAR, QER or BAR. *)
LEMMA CreateRuleKeeps ==
  ASSUME NEW x \in XType, NEW S \in SUBSET Rules, NEW f \in SUBSET Flaky
  PROVE  Keeps(x, CreateRule(x, S, f)) /\ CreateRule(x, S, f).b.pdrs = x.b.pdrs
<1> DEFINE y == CreateRule(x, S, f)
<1>1. /\ y.b.pdrs = x.b.pdrs /\ y.b.rel = x.b.rel /\ y.b.urrs = x.b.urrs /\ y.b.ref = x.b.ref
      /\ y.b.removed = x.b.removed /\ y.k.pdrs = x.k.pdrs /\ y.k.urrs = x.k.urrs
      /\ y.b.rules = x.b.rules \cup S /\ y.k.rules = x.k.rules \cup (S \ f)
  BY DEF XType, Books, Kerns, CreateRule
<1> HIDE DEF y
<1>2. Agree(x) => Agree(y)
  BY <1>1 DEF Agree
<1>3. Shares(x) => Shares(y)
  BY <1>1, SharesSame
<1>4. NamedBy(x) => NamedBy(y)
  BY <1>1 DEF NamedBy
<1>5. QED
  BY <1>1, <1>2, <1>3, <1>4 DEF Keeps, y

(* One that is removed leaves both tables, or neither. *)
LEMMA RemoveRuleKeeps ==
  ASSUME NEW x \in XType, NEW S \in SUBSET Rules, NEW f \in SUBSET Flaky
  PROVE  /\ Keeps(x, RemoveRule(x, S, f))
         /\ Agree(x) /\ x.b.rules \subseteq S => RemoveRule(x, S, f).k.rules \subseteq Flaky
         /\ RemoveRule(x, S, f).b.urrs = x.b.urrs
<1> DEFINE y == RemoveRule(x, S, f)
           done == (S \cap x.b.rules \cap x.k.rules) \ f
<1>1. /\ y.b.pdrs = x.b.pdrs /\ y.b.rel = x.b.rel /\ y.b.urrs = x.b.urrs /\ y.b.ref = x.b.ref
      /\ y.b.removed = x.b.removed /\ y.k.pdrs = x.k.pdrs /\ y.k.urrs = x.k.urrs
      /\ y.b.rules = x.b.rules \ done /\ y.k.rules = x.k.rules \ done
  BY DEF XType, Books, Kerns, RemoveRule
<1> HIDE DEF y
<1>2. Agree(x) => Agree(y)
  BY <1>1 DEF Agree
<1>3. Shares(x) => Shares(y)
  BY <1>1, SharesSame
<1>4. NamedBy(x) => NamedBy(y)
  BY <1>1 DEF NamedBy
<1>5. Agree(x) /\ x.b.rules \subseteq S => y.k.rules \subseteq Flaky
  BY <1>1 DEF Agree
<1>6. QED
  BY <1>1, <1>2, <1>3, <1>4, <1>5 DEF Keeps, y

(* A created URR starts with a count of zero. *)
LEMMA CreateURRKeeps ==
  ASSUME NEW x \in XType, NEW S \in SUBSET URRs, NEW f \in SUBSET Flaky
  PROVE  Keeps(x, CreateURR(x, S, f)) /\ CreateURR(x, S, f).b.pdrs = x.b.pdrs
<1> DEFINE y == CreateURR(x, S, f)
<1>1. /\ y.b.pdrs = x.b.pdrs /\ y.b.rel = x.b.rel /\ y.b.urrs = x.b.urrs \cup S
      /\ y.b.ref = [u \in URRs |-> IF u \in S THEN 0 ELSE x.b.ref[u]]
      /\ y.b.removed = x.b.removed \ S /\ y.k.pdrs = x.k.pdrs /\ y.k.urrs = x.k.urrs \cup (S \ f)
      /\ y.b.rules = x.b.rules /\ y.k.rules = x.k.rules
  BY DEF XType, Books, Kerns, CreateURR
<1> HIDE DEF y
<1>2. Agree(x) => Agree(y)
  BY <1>1 DEF Agree
<1>3. Shares(x) => Shares(y)
  <2>1. \A u : Share(y, u) = Share(x, u)
    BY <1>1 DEF Share
  <2>2. ASSUME NEW u \in y.b.urrs, Shares(x) PROVE y.b.ref[u] <= Count(Share(y, u))
    <3>1. u \in URRs /\ Share(x, u) \in SUBSET PDRs
      BY <1>1 DEF XType, Books, Share
    <3>2. Count(Share(x, u)) \in Nat
      BY <3>1, CountPDRs
    <3>3. CASE u \in S
      BY <1>1, <2>1, <3>1, <3>2, <3>3
    <3>4. CASE u \notin S
      BY <1>1, <2>1, <2>2, <3>1, <3>4 DEF Shares
    <3>5. QED
      BY <3>3, <3>4
  <2>3. QED
    BY <2>2 DEF Shares
<1>4. NamedBy(x) => NamedBy(y)
  BY <1>1 DEF NamedBy
<1>5. QED
  BY <1>1, <1>2, <1>3, <1>4 DEF Keeps, y

(* One that is removed is marked, whether gtp5g had it or not. *)
LEMMA RemoveURRKeeps ==
  ASSUME NEW x \in XType, NEW S \in SUBSET URRs, NEW f \in SUBSET Flaky, NEW quiet
  PROVE  /\ Keeps(x, RemoveURR(x, S, f, quiet))
         /\ Agree(x) /\ x.b.urrs \subseteq S => RemoveURR(x, S, f, quiet).k.urrs \subseteq Flaky
         /\ RemoveURR(x, S, f, quiet).k.rules = x.k.rules
<1> DEFINE y == RemoveURR(x, S, f, quiet)
           found == S \cap x.b.urrs
           done == (found \cap x.k.urrs) \ f
<1>1. /\ y.b.pdrs = x.b.pdrs /\ y.b.rel = x.b.rel /\ y.b.urrs = x.b.urrs /\ y.b.ref = x.b.ref
      /\ y.b.removed = x.b.removed \cup found /\ y.k.pdrs = x.k.pdrs /\ y.k.urrs = x.k.urrs \ done
      /\ y.b.rules = x.b.rules /\ y.k.rules = x.k.rules
  BY DEF XType, Books, Kerns, RemoveURR
<1> HIDE DEF y
<1>2. Agree(x) => Agree(y)
  BY <1>1 DEF Agree
<1>3. Shares(x) => Shares(y)
  BY <1>1, SharesSame
<1>4. NamedBy(x) => NamedBy(y)
  BY <1>1 DEF NamedBy
<1>5. Agree(x) /\ x.b.urrs \subseteq S => y.k.urrs \subseteq Flaky
  BY <1>1 DEF Agree
<1>6. QED
  BY <1>1, <1>2, <1>3, <1>4, <1>5 DEF Keeps, y

(* Updates and queries of URRs only collect reports. *)
LEMMA QueryKeeps ==
  ASSUME NEW x \in XType, NEW S \in SUBSET URRs, NEW f, NEW quiet
  PROVE  Keeps(x, UpdateURR(x, S, f, quiet)) /\ Keeps(x, QueryURR(x, S, f, quiet))
<1>1. ASSUME NEW y, y.b = x.b, y.k = x.k PROVE Keeps(x, y)
  <2>1. Shares(x) => Shares(y)
    BY <1>1 DEF Shares, Share
  <2>2. QED
    BY <1>1, <2>1 DEF Keeps, Agree, NamedBy
<1>2. /\ UpdateURR(x, S, f, quiet).b = x.b /\ UpdateURR(x, S, f, quiet).k = x.k
      /\ QueryURR(x, S, f, quiet).b = x.b /\ QueryURR(x, S, f, quiet).k = x.k
  BY DEF XType, UpdateURR, QueryURR
<1>3. QED
  BY <1>1, <1>2

(* New PDRs count in each URR they name. *)
LEMMA CreatePDRKeeps ==
  ASSUME NEW x \in XType, NEW m \in PdrMap, NEW f \in SUBSET Flaky,
         DOMAIN m \cap x.b.pdrs = {}
  PROVE  Keeps(x, CreatePDR(x, m, f))
<1> DEFINE y == CreatePDR(x, m, f)
           c(u) == {p \in DOMAIN m : u \in m[p]}
<1>0. DOMAIN m \subseteq PDRs /\ \A p \in DOMAIN m : m[p] \subseteq URRs
  BY DEF PdrMap
<1>1. /\ y.b.pdrs = x.b.pdrs \cup DOMAIN m
      /\ y.b.rel = [p \in PDRs |-> IF p \in DOMAIN m THEN m[p] ELSE x.b.rel[p]]
      /\ y.b.ref = [u \in URRs |-> IF u \in x.b.urrs THEN x.b.ref[u] + Count(c(u)) ELSE x.b.ref[u]]
      /\ y.b.urrs = x.b.urrs /\ y.b.removed = x.b.removed
      /\ y.k.pdrs = x.k.pdrs \cup (DOMAIN m \ f) /\ y.k.urrs = x.k.urrs
      /\ y.b.rules = x.b.rules /\ y.k.rules = x.k.rules
  BY DEF XType, Books, Kerns, CreatePDR
<1> HIDE DEF y
<1>2. Agree(x) => Agree(y)
  BY <1>1 DEF Agree
<1>3. Shares(x) => Shares(y)
  <2>1. ASSUME NEW u \in y.b.urrs, Shares(x) PROVE y.b.ref[u] <= Count(Share(y, u))
    <3>1. u \in x.b.urrs /\ u \in URRs /\ x.b \in Books /\ x.b.pdrs \subseteq PDRs /\ x.b.ref[u] \in Nat
      BY <1>1, <2>1 DEF XType, Books
    <3>2. Share(y, u) = Share(x, u) \cup c(u) /\ Share(x, u) \cap c(u) = {}
      BY <1>0, <1>1, <3>1 DEF Share
    <3>3. Share(x, u) \in SUBSET PDRs /\ c(u) \in SUBSET PDRs
      BY <1>0, <3>1 DEF Share
    <3>4. y.b.ref[u] = x.b.ref[u] + Count(c(u)) /\ x.b.ref[u] <= Count(Share(x, u))
      BY <1>1, <2>1, <3>1 DEF Shares
    <3> HIDE DEF c
    <3>5. Count(Share(y, u)) = Count(Share(x, u)) + Count(c(u))
      <4>1. IsFiniteSet(Share(x, u)) /\ IsFiniteSet(c(u))
        BY <3>3, BoundsAssumption, FS_Subset DEF BoundsAssumption
      <4>2. Cardinality(Share(x, u) \cup c(u))
              = Cardinality(Share(x, u)) + Cardinality(c(u)) - Cardinality(Share(x, u) \cap c(u))
        BY <4>1, FS_Union
      <4>3. Cardinality(Share(x, u) \cap c(u)) = 0
        BY <3>2, FS_EmptySet
      <4>4. Cardinality(Share(x, u)) \in Nat /\ Cardinality(c(u)) \in Nat
        BY <4>1, FS_CardinalityType
      <4>5. QED
        BY <3>2, <4>2, <4>3, <4>4 DEF Count
    <3>6. Count(Share(x, u)) \in Nat /\ Count(c(u)) \in Nat
      BY <3>3, CountPDRs
    <3>7. QED
      BY <3>1, <3>4, <3>5, <3>6
  <2>2. QED
    BY <2>1 DEF Shares
<1>4. NamedBy(x) => NamedBy(y)
  BY <1>1 DEF NamedBy
<1>5. QED
  BY <1>2, <1>3, <1>4 DEF Keeps, y

(* Counts go down by the PDRs that drop the URR, and so does what they count. *)
LEMMA Dropped ==
  ASSUME NEW x \in XType, NEW drop \in [PDRs -> SUBSET URRs], NEW f, NEW quiet, NEW u \in x.b.urrs,
         NEW T \in SUBSET PDRs, Share(x, u) \subseteq T \cup {p \in PDRs : u \in drop[p]},
         x.b.ref[u] <= Count(Share(x, u))
  PROVE  diassociateURR(x, drop, f, quiet).b.ref[u] <= Count(T)
<1> DEFINE D == {p \in PDRs : u \in drop[p]}
           ref == diassociateURR(x, drop, f, quiet).b.ref
<1>1. u \in URRs /\ x.b.ref[u] \in Nat /\ Share(x, u) \in SUBSET PDRs
  BY DEF XType, Books, Share
<1>2. ref[u] = IF Count(D) >= x.b.ref[u] THEN 0 ELSE x.b.ref[u] - Count(D)
  <2>1. ref = [w \in URRs |-> IF w \notin x.b.urrs THEN x.b.ref[w]
                              ELSE IF Count({p \in PDRs : w \in drop[p]}) >= x.b.ref[w] THEN 0
                              ELSE x.b.ref[w] - Count({p \in PDRs : w \in drop[p]})]
    BY DEF XType, Books, diassociateURR
  <2> HIDE DEF ref
  <2>2. QED
    BY <1>1, <2>1
<1>3. D \in SUBSET PDRs
  OBVIOUS
<1> HIDE DEF D, ref
<1>4. Count(D) \in Nat /\ Count(T) \in Nat /\ Count(Share(x, u)) \in Nat
  BY <1>1, <1>3, CountPDRs
<1>5. Count(Share(x, u)) <= Count(T) + Count(D)
  <2>1. IsFiniteSet(T) /\ IsFiniteSet(D)
    BY <1>3, BoundsAssumption, FS_Subset DEF BoundsAssumption
  <2>2. Cardinality(T \cup D) = Cardinality(T) + Cardinality(D) - Cardinality(T \cap D)
        /\ IsFiniteSet(T \cup D)
    BY <2>1, FS_Union
  <2>3. Share(x, u) \subseteq T \cup D
    BY DEF D
  <2>4. Cardinality(Share(x, u)) <= Cardinality(T \cup D)
    BY <2>2, <2>3, FS_Subset
  <2>5. Cardinality(T \cap D) \in Nat
    BY <2>1, FS_Intersection, FS_CardinalityType
  <2>6. QED
    BY <1>4, <2>2, <2>4, <2>5 DEF Count
<1>6. QED
  BY <1>1, <1>2, <1>4, <1>5 DEF ref

(* What diassociateURR leaves alone. *)
LEMMA DiassociateSame ==
  ASSUME NEW x \in XType, NEW drop, NEW f, NEW quiet
  PROVE  LET y == diassociateURR(x, drop, f, quiet)
         IN  /\ y.b.pdrs = x.b.pdrs /\ y.b.rel = x.b.rel /\ y.b.urrs = x.b.urrs
             /\ y.b.removed = x.b.removed /\ y.b.rules = x.b.rules /\ y.k = x.k
  BY DEF XType, Books, diassociateURR

(* A PDR that gtp5g has removed does not count any more. *)
LEMMA RemovePDRKeeps ==
  ASSUME NEW x \in XType, NEW S \in SUBSET PDRs, NEW f \in SUBSET Flaky, NEW quiet
  PROVE  /\ Keeps(x, RemovePDR(x, S, f, quiet))
         /\ Agree(x) /\ x.b.pdrs \subseteq S => RemovePDR(x, S, f, quiet).k.pdrs \subseteq Flaky
         /\ RemovePDR(x, S, f, quiet).k.rules = x.k.rules
         /\ RemovePDR(x, S, f, quiet).k.urrs = x.k.urrs
<1> DEFINE done == (S \cap x.b.pdrs \cap x.k.pdrs) \ f
           drop == [p \in PDRs |-> IF p \in done THEN x.b.rel[p] ELSE {}]
           y == diassociateURR(x, drop, f, quiet)
           z == RemovePDR(x, S, f, quiet)
<1>1. drop \in [PDRs -> SUBSET URRs]
  BY DEF XType, Books
<1>2. y \in XType
  BY <1>1, DiassociateType
<1>3. /\ y.b.pdrs = x.b.pdrs /\ y.b.rel = x.b.rel /\ y.b.urrs = x.b.urrs
      /\ y.b.removed = x.b.removed /\ y.b.rules = x.b.rules /\ y.k = x.k
  BY DiassociateSame
<1>4. /\ z.b.pdrs = y.b.pdrs \ done
      /\ z.b.rel = [p \in PDRs |-> IF p \in done THEN {} ELSE y.b.rel[p]]
      /\ z.b.ref = y.b.ref /\ z.b.urrs = y.b.urrs /\ z.b.removed = y.b.removed
      /\ z.b.rules = y.b.rules
      /\ z.k.pdrs = y.k.pdrs \ done /\ z.k.rules = y.k.rules /\ z.k.urrs = y.k.urrs
  <2>1. z = [y EXCEPT !.b.pdrs = @ \ done,
                      !.b.rel = [p \in PDRs |-> IF p \in done THEN {} ELSE y.b.rel[p]],
                      !.k.pdrs = @ \ done]
    BY DEF RemovePDR
  <2> HIDE DEF y, z, done
  <2>2. QED
    BY <1>2, <2>1 DEF XType, Books, Kerns
<1>5. Shares(x) => Shares(z)
  <2>1. ASSUME NEW u \in z.b.urrs, Shares(x) PROVE z.b.ref[u] <= Count(Share(z, u))
    <3>1. u \in x.b.urrs /\ x.b.pdrs \subseteq PDRs /\ x.b.ref[u] <= Count(Share(x, u))
      BY <1>3, <1>4, <2>1 DEF Shares, XType, Books
    <3>2. Share(z, u) \in SUBSET PDRs
      BY <1>3, <1>4, <3>1 DEF Share
    <3>3. ASSUME NEW p \in Share(x, u) PROVE p \in Share(z, u) \/ (p \in PDRs /\ u \in drop[p])
      <4>1. p \in PDRs /\ p \in x.b.pdrs /\ u \in x.b.rel[p]
        BY <3>1 DEF Share
      <4>2. CASE p \in done
        BY <4>1, <4>2
      <4>3. CASE p \notin done
        <5>1. z.b.rel[p] = x.b.rel[p] /\ p \in z.b.pdrs
          BY <1>3, <1>4, <4>1, <4>3
        <5>2. QED
          BY <4>1, <5>1 DEF Share
      <4>4. QED
        BY <4>2, <4>3
    <3> HIDE DEF drop, z
    <3>4. y.b.ref[u] <= Count(Share(z, u))
      BY <1>1, <3>1, <3>2, <3>3, Dropped
    <3>5. QED
      BY <1>4, <3>4
  <2>2. QED
    BY <2>1 DEF Shares
<1> HIDE DEF y, z, drop
<1>6. Agree(x) => Agree(z)
  BY <1>3, <1>4 DEF Agree
<1>7. NamedBy(x) => NamedBy(z)
  BY <1>3, <1>4 DEF NamedBy
<1>8. Agree(x) /\ x.b.pdrs \subseteq S => z.k.pdrs \subseteq Flaky
  BY <1>3, <1>4 DEF Agree
<1>9. QED
  BY <1>3, <1>4, <1>5, <1>6, <1>7, <1>8 DEF Keeps, z

(* An updated PDR drops the URRs it does not name any more. *)
LEMMA UpdatePDRKeeps ==
  ASSUME NEW x \in XType, NEW m \in PdrMap, NEW f, NEW quiet
  PROVE  Keeps(x, UpdatePDR(x, m, f, quiet))
<1> DEFINE done == (DOMAIN m \cap x.b.pdrs \cap x.k.pdrs) \ f
           drop == [p \in PDRs |-> IF p \in done THEN x.b.rel[p] \ m[p] ELSE {}]
           y == diassociateURR(x, drop, f, quiet)
           z == UpdatePDR(x, m, f, quiet)
<1>1. drop \in [PDRs -> SUBSET URRs]
  BY DEF XType, Books
<1>2. y \in XType
  BY <1>1, DiassociateType
<1>3. /\ y.b.pdrs = x.b.pdrs /\ y.b.rel = x.b.rel /\ y.b.urrs = x.b.urrs
      /\ y.b.removed = x.b.removed /\ y.b.rules = x.b.rules /\ y.k = x.k
  BY DiassociateSame
<1>4. /\ z.b.rel = [p \in PDRs |-> IF p \in done THEN m[p] ELSE y.b.rel[p]]
      /\ z.b.pdrs = y.b.pdrs /\ z.b.ref = y.b.ref /\ z.b.urrs = y.b.urrs
      /\ z.b.removed = y.b.removed /\ z.b.rules = y.b.rules /\ z.k = y.k
  <2>1. z = [y EXCEPT !.b.rel = [p \in PDRs |-> IF p \in done THEN m[p] ELSE y.b.rel[p]]]
    BY DEF UpdatePDR
  <2> HIDE DEF y, z, done
  <2>2. QED
    BY <1>2, <2>1 DEF XType, Books
<1>5. Shares(x) => Shares(z)
  <2>1. ASSUME NEW u \in z.b.urrs, Shares(x) PROVE z.b.ref[u] <= Count(Share(z, u))
    <3>1. u \in x.b.urrs /\ x.b.pdrs \subseteq PDRs /\ x.b.ref[u] <= Count(Share(x, u))
      BY <1>3, <1>4, <2>1 DEF Shares, XType, Books
    <3>2. Share(z, u) \in SUBSET PDRs
      BY <1>3, <1>4, <3>1 DEF Share
    <3>3. ASSUME NEW p \in Share(x, u) PROVE p \in Share(z, u) \/ (p \in PDRs /\ u \in drop[p])
      <4>1. p \in PDRs /\ p \in z.b.pdrs /\ u \in x.b.rel[p]
        BY <1>3, <1>4, <3>1 DEF Share
      <4>2. CASE p \in done /\ u \notin m[p]
        BY <4>1, <4>2
      <4>3. CASE p \in done /\ u \in m[p]
        <5>1. z.b.rel[p] = m[p]
          BY <1>4, <4>1, <4>3
        <5>2. QED
          BY <4>1, <4>3, <5>1 DEF Share
      <4>4. CASE p \notin done
        <5>1. z.b.rel[p] = x.b.rel[p]
          BY <1>3, <1>4, <4>1, <4>4
        <5>2. QED
          BY <4>1, <5>1 DEF Share
      <4>5. QED
        BY <4>2, <4>3, <4>4
    <3> HIDE DEF drop, z
    <3>4. y.b.ref[u] <= Count(Share(z, u))
      BY <1>1, <3>1, <3>2, <3>3, Dropped
    <3>5. QED
      BY <1>4, <3>4
  <2>2. QED
    BY <2>1 DEF Shares
<1> HIDE DEF y, z, drop
<1>6. QED
  BY <1>3, <1>4, <1>5 DEF Keeps, Agree, NamedBy, z

(* A chain of methods keeps what each of them keeps. *)
LEMMA KeepsTrans ==
  ASSUME NEW x, NEW y, NEW z, Keeps(x, y), Keeps(y, z)
  PROVE  Keeps(x, z)
  BY DEF Keeps

(* The creations of a request with fresh PDR ids. *)
LEMMA CreateKeeps ==
  ASSUME NEW x \in XType, NEW r \in Requests, NEW f \in SUBSET Flaky,
         DOMAIN r.crPDR \cap x.b.pdrs = {}
  PROVE  Keeps(x, Create(x, r, f))
<1> DEFINE a == CreateRule(x, r.crRule, f)
           c == CreateURR(a, r.crURR, f)
<1>1. a \in XType /\ Keeps(x, a) /\ a.b.pdrs = x.b.pdrs
  BY RequestType, CreateRuleType, CreateRuleKeeps
<1> HIDE DEF a
<1>2. c \in XType /\ Keeps(a, c) /\ c.b.pdrs = a.b.pdrs
  BY <1>1, RequestType, CreateURRType, CreateURRKeeps
<1>3. Create(x, r, f) = CreatePDR(c, r.crPDR, f)
  BY DEF Create, a
<1> HIDE DEF c
<1>4. Keeps(c, Create(x, r, f))
  BY <1>1, <1>2, <1>3, RequestType, CreatePDRKeeps
<1>5. QED
  BY <1>1, <1>2, <1>4, KeepsTrans

(* A modification, step by step. *)
LEMMA ModifyKeeps ==
  ASSUME NEW x \in XType, NEW r \in Requests, NEW f \in SUBSET Flaky, NEW quiet,
         DOMAIN r.crPDR \cap x.b.pdrs = {}
  PROVE  Keeps(x, Modify(x, r, f, quiet))
<1> DEFINE a == Create(x, r, f)
           c == RemoveRule(a, r.rmRule, f)
           d == RemoveURR(c, r.rmURR, f, quiet)
           y == RemovePDR(d, r.rmPDR, f, quiet)
           z == UpdateURR(y, r.upURR, f, quiet)
           w == UpdatePDR(z, r.upPDR, f, quiet)
           v == QueryURR(w, r.quURR, f, quiet)
<1>1. a \in XType /\ Keeps(x, a)
  BY CreateType, CreateKeeps
<1>2. c \in XType /\ Keeps(a, c)
  BY <1>1, RequestType, RemoveRuleType, RemoveRuleKeeps
<1>3. d \in XType /\ Keeps(c, d)
  BY <1>2, RequestType, RemoveURRType, RemoveURRKeeps
<1>4. y \in XType /\ Keeps(d, y)
  BY <1>3, RequestType, RemovePDRType, RemovePDRKeeps
<1>5. z \in XType /\ Keeps(y, z)
  BY <1>4, RequestType, UpdateURRType, QueryKeeps
<1>6. w \in XType /\ Keeps(z, w)
  BY <1>5, RequestType, UpdatePDRType, UpdatePDRKeeps
<1>7. Keeps(w, v)
  BY <1>6, RequestType, QueryKeeps
<1>8. Modify(x, r, f, quiet) = v
  BY DEF Modify
<1> HIDE DEF a, c, d, y, z, w, v
<1>9. QED
  BY <1>1, <1>2, <1>3, <1>4, <1>5, <1>6, <1>7, <1>8, KeepsTrans

(* Close leaves in gtp5g only what gtp5g refused to remove. *)
LEMMA CloseEmpties ==
  ASSUME NEW x \in XType, NEW f \in SUBSET Flaky, NEW quiet, Agree(x)
  PROVE  LET k == Close(x, f, quiet).k
         IN  k.pdrs \subseteq Flaky /\ k.urrs \subseteq Flaky /\ k.rules \subseteq Flaky
<1> DEFINE y == RemoveRule(x, x.b.rules, f)
           z == RemoveURR(y, x.b.urrs, f, quiet)
           w == RemovePDR(z, z.b.pdrs, f, quiet)
<1>1. x.b.rules \in SUBSET Rules /\ x.b.urrs \in SUBSET URRs
  BY DEF XType, Books
<1>2. y \in XType /\ Agree(y) /\ y.k.rules \subseteq Flaky /\ y.b.urrs = x.b.urrs
  BY <1>1, RemoveRuleType, RemoveRuleKeeps DEF Keeps
<1> HIDE DEF y
<1>3. z \in XType /\ Agree(z) /\ z.k.urrs \subseteq Flaky /\ z.k.rules = y.k.rules
  BY <1>1, <1>2, RemoveURRType, RemoveURRKeeps DEF Keeps
<1>4. Close(x, f, quiet) = w
  BY DEF Close, y
<1> HIDE DEF z
<1>5. z.b.pdrs \in SUBSET PDRs
  BY <1>3 DEF XType, Books
<1>6. w.k.pdrs \subseteq Flaky /\ w.k.urrs = z.k.urrs /\ w.k.rules = z.k.rules
  BY <1>3, <1>5, RemovePDRKeeps
<1> HIDE DEF w
<1>7. QED
  BY <1>2, <1>3, <1>4, <1>6

(* The response drops URRs that were removed, and nothing else but numbers. *)
LEMMA EmitKeeps ==
  ASSUME NEW x \in XType, NEW us
  PROVE  Keeps(x, [b |-> Emit(x), k |-> x.k, us |-> us])
<1> DEFINE sent == {u \in x.b.urrs : Reported(x, u) # {}}
           gone == sent \cap x.b.removed
           y == [b |-> Emit(x), k |-> x.k, us |-> us]
<1>1. /\ y.b.urrs = x.b.urrs \ gone /\ y.b.removed = x.b.removed \ gone
      /\ y.b.pdrs = x.b.pdrs /\ y.b.rel = x.b.rel /\ y.b.ref = x.b.ref /\ y.b.rules = x.b.rules
      /\ y.k = x.k
  <2> DEFINE n(u) == IF u \in gone THEN 1 ELSE IF u \in sent THEN Count(Reported(x, u)) ELSE 0
             seqn == [u \in URRs |-> x.b.seqn[u] + n(u)]
  <2>1. Emit(x) = [x.b EXCEPT !.urrs = @ \ gone, !.removed = @ \ gone, !.seqn = seqn]
    BY Zenon DEF Emit
  <2> HIDE DEF gone, seqn
  <2>2. QED
    BY <2>1 DEF XType, Books
<1> HIDE DEF y
<1>2. Agree(x) => Agree(y)
  <2> HIDE DEF sent
  <2>1. QED
    BY <1>1 DEF Agree
<1>3. Shares(x) => Shares(y)
  BY <1>1, SharesSame
<1>4. NamedBy(x) => NamedBy(y)
  BY <1>1 DEF NamedBy
<1>5. QED
  BY <1>2, <1>3, <1>4 DEF Keeps, y

-----------------------------------------------------------------------------
(* Slot i of the session table, with the rules gtp5g holds for its SEID; a   *)
(* free slot has no tables.                                                  *)
Slot(i) == [b |-> IF owner[i] = 0 THEN NoBook ELSE book[i], k |-> kern[i], us |-> {}]
RulesInv == \A i \in SEIDs : Agree(Slot(i)) /\ Shares(Slot(i))
(* What a step may do to slot i: end or begin a session, or keep it.         *)
SlotStep(i) ==
    /\ Agree(Slot(i)) => Agree(Slot(i))'
    /\ Shares(Slot(i)) => Shares(Slot(i))'
    /\ owner[i] # 0 /\ owner'[i] # 0 => (Named(i) => Named(i)')

(* A slot that nothing touches. *)
LEMMA SlotSame ==
  ASSUME NEW i, owner'[i] = owner[i], book'[i] = book[i], kern'[i] = kern[i]
  PROVE  SlotStep(i)
<1>1. Slot(i)' = Slot(i)
  BY DEF Slot
<1>2. Named(i)' <=> Named(i)
  BY DEF Named
<1>3. QED
  BY <1>1, <1>2 DEF SlotStep, Agree, Shares, Share

(* A slot with a live session before and after it, or with one before. *)
LEMMA SlotKeeps ==
  ASSUME NEW i, NEW y, owner[i] # 0, owner'[i] # 0, Keeps(Slot(i), y),
         y.b = book'[i], y.k = kern'[i]
  PROVE  SlotStep(i)
<1>1. /\ Slot(i)'.b = y.b /\ Slot(i)'.k = y.k
      /\ Slot(i).b = book[i] /\ Slot(i).k = kern[i]
  BY DEF Slot
<1>2. PICK x : x = Slot(i)
  OBVIOUS
<1>3. PICK z : z = Slot(i)'
  OBVIOUS
<1>4. z.b = y.b /\ z.k = y.k /\ x.b = book[i] /\ x.k = kern[i] /\ Keeps(x, y)
  BY <1>1, <1>2, <1>3
<1>5. (Agree(x) => Agree(z)) /\ (Shares(x) => Shares(z))
  BY <1>4 DEF Keeps, Agree, Shares, Share
<1>6. Named(i) => Named(i)'
  BY <1>4 DEF Keeps, NamedBy, Named
<1>7. (Agree(Slot(i))' <=> Agree(z)) /\ (Shares(Slot(i))' <=> Shares(z))
  BY <1>3 DEF Agree, Shares, Share
<1>8. QED
  BY <1>2, <1>5, <1>6, <1>7 DEF SlotStep

(* Deleting sessions empties their slots. *)
LEMMA DeleteSlots ==
  ASSUME TypeOK, NEW S \in SUBSET SEIDs, \A i \in S : owner[i] # 0,
         NEW o, NEW f \in SUBSET Flaky, NEW quiet, DeleteSess(S, o, f, quiet), NEW i \in SEIDs
  PROVE  SlotStep(i)
<1> DEFINE x == [b |-> book[i], k |-> kern[i], us |-> {}]
           c == Sessions(S, f, quiet)[i]
<1>1. /\ owner'[i] = (IF i \in S THEN 0 ELSE owner[i])
      /\ book'[i] = (IF i \in S THEN NoBook ELSE book[i])
      /\ kern'[i] = c.k
  BY DEF DeleteSess
<1>2. c = IF i \in S THEN Close(x, f, quiet) ELSE x
  BY DEF Sessions
<1> HIDE DEF c
<1>3. x \in XType
  BY SlotType
<1>4. CASE i \notin S
  BY <1>1, <1>2, <1>4, SlotSame
<1>5. CASE i \in S
  <2>1. Slot(i) = x /\ owner'[i] = 0
    BY <1>1, <1>5 DEF Slot
  <2>2. PICK k : k = kern'[i]
    OBVIOUS
  <2>3. Slot(i)' = [b |-> NoBook, k |-> k, us |-> {}]
    BY <2>1, <2>2 DEF Slot
  <2>4. Agree(x) => k.pdrs \subseteq Flaky /\ k.urrs \subseteq Flaky /\ k.rules \subseteq Flaky
    BY <1>1, <1>2, <1>3, <1>5, <2>2, CloseEmpties
  <2>5. PICK z : z = Slot(i)'
    OBVIOUS
  <2>6. z.b.pdrs = {} /\ z.b.urrs = {} /\ z.b.rules = {} /\ z.k = k
    BY <2>3, <2>5 DEF NoBook
  <2> HIDE DEF x
  <2>7. (Agree(x) => Agree(z)) /\ Shares(z)
    BY <2>4, <2>6 DEF Agree, Shares
  <2>8. (Agree(Slot(i))' <=> Agree(z)) /\ (Shares(Slot(i))' <=> Shares(z))
    BY <2>5 DEF Agree, Shares, Share
  <2>9. QED
    BY <2>1, <2>7, <2>8 DEF SlotStep
<1>6. QED
  BY <1>4, <1>5

(* The sessions a set-up deletes are live. *)
LEMMA SetupSlots ==
  ASSUME Inv, NEW n \in NodeIDs, NEW f \in SUBSET Flaky, NEW quiet,
         handleAssociationSetupRequest(n, f, quiet), NEW i \in SEIDs
  PROVE  SlotStep(i)
<1> DEFINE old == rnodes[n]
           S == IF old = 0 THEN {} ELSE nodeSess[old]
<1>1. PICK o \in Orders(S) : DeleteSess(S, o, f, quiet)
  BY DEF handleAssociationSetupRequest
<1>2. old \in 0..MaxNodes /\ MaxNodes \in Nat
  BY BoundsAssumption DEF Inv, TypeOK, BoundsAssumption
<1>3. S \in SUBSET SEIDs /\ \A k \in S : owner[k] # 0
  <2>1. CASE old = 0
    BY <2>1
  <2>2. CASE old # 0
    <3>1. old \in Handles
      BY <1>2, <2>2 DEF Handles
    <3>2. nodeSess[old] \in SUBSET SEIDs /\ \A k \in SEIDs : k \in nodeSess[old] => owner[k] = old
      BY <3>1 DEF Inv, TypeOK, OwnerAgrees
    <3>3. QED
      BY <2>2, <3>2
  <2>3. QED
    BY <2>1, <2>2
<1> HIDE DEF S
<1>4. QED
  BY <1>1, <1>3, DeleteSlots DEF Inv

(* A new session starts from what gtp5g still holds for its SEID. *)
LEMMA EstablishSlots ==
  ASSUME Inv, NEW n \in NodeIDs, NEW s \in RSEIDs, NEW r \in Requests, NEW f \in SUBSET Flaky,
         handleSessionEstablishmentRequest(n, s, r, f), NEW i \in SEIDs
  PROVE  SlotStep(i)
<1>1. PICK j : j = NewID
  OBVIOUS
<1> DEFINE x == [b |-> NoBook, k |-> kern[j], us |-> {}]
           y == Create(x, r, f)
<1>2. /\ rnodes[n] # 0 /\ NewSess(rnodes[n], s) /\ UNCHANGED nodeVars
      /\ book' = [book EXCEPT ![j] = y.b] /\ kern' = [kern EXCEPT ![j] = y.k]
  BY <1>1 DEF handleSessionEstablishmentRequest, nodeVars
<1>3. rnodes[n] \in 1..nnodes
  BY <1>2, BoundsAssumption DEF Inv, TypeOK, OwnerAgrees, BoundsAssumption
<1>4. j \in SEIDs /\ owner[j] = 0 /\ owner' = [owner EXCEPT ![j] = rnodes[n]]
  BY <1>1, <1>2, <1>3, NewSessKeepsTables
<1>5. owner \in [SEIDs -> 0..MaxNodes] /\ book \in [SEIDs -> Books] /\ kern \in [SEIDs -> Kerns]
  BY DEF Inv, TypeOK
<1>6. CASE i # j
  BY <1>2, <1>4, <1>5, <1>6, SlotSame
<1>7. CASE i = j
  <2>1. x \in XType
    BY <1>4, <1>5, NoBookType DEF XType
  <2>2. Slot(i) = x
    BY <1>4, <1>7 DEF Slot
  <2>3. x.b.pdrs = {}
    BY DEF NoBook
  <2> HIDE DEF x
  <2>4. Keeps(x, y)
    BY <2>1, <2>3, CreateKeeps
  <2> HIDE DEF y
  <2>5. owner'[i] # 0 /\ book'[i] = y.b /\ kern'[i] = y.k
    BY <1>2, <1>3, <1>4, <1>5, <1>7
  <2>6. Slot(i)' = [b |-> y.b, k |-> y.k, us |-> {}]
    BY <2>5 DEF Slot
  <2>7. PICK z : z = Slot(i)'
    OBVIOUS
  <2>8. z.b = y.b /\ z.k = y.k
    BY <2>6, <2>7
  <2>9. (Agree(x) => Agree(z)) /\ (Shares(x) => Shares(z))
    BY <2>4, <2>8 DEF Keeps, Agree, Shares, Share
  <2>10. (Agree(Slot(i))' <=> Agree(z)) /\ (Shares(Slot(i))' <=> Shares(z))
    BY <2>7 DEF Agree, Shares, Share
  <2>11. QED
    BY <1>4, <1>7, <2>2, <2>9, <2>10 DEF SlotStep
<1>8. QED
  BY <1>6, <1>7

(* A modification touches one slot. *)
LEMMA ModifySlots ==
  ASSUME Inv, NEW j \in SEIDs, NEW r \in Requests, NEW f \in SUBSET Flaky, NEW quiet,
         handleSessionModificationRequest(j, r, f, quiet), NEW i \in SEIDs
  PROVE  SlotStep(i)
<1> DEFINE x == [b |-> book[j], k |-> kern[j], us |-> {}]
           y == Modify(x, r, f, quiet)
           z == [b |-> Emit(y), k |-> y.k, us |-> {}]
<1>1. /\ owner[j] # 0 /\ DOMAIN r.crPDR \cap x.b.pdrs = {}
      /\ book' = [book EXCEPT ![j] = Emit(y)] /\ kern' = [kern EXCEPT ![j] = y.k]
      /\ owner' = owner
  BY DEF handleSessionModificationRequest, tableVars
<1>2. book \in [SEIDs -> Books] /\ kern \in [SEIDs -> Kerns] /\ x \in XType
  BY SlotType DEF Inv, TypeOK
<1>3. CASE i # j
  BY <1>1, <1>2, <1>3, SlotSame
<1>4. CASE i = j
  <2>1. Slot(i) = x
    BY <1>1, <1>4 DEF Slot
  <2> HIDE DEF x
  <2>2. y \in XType /\ Keeps(x, y)
    BY <1>1, <1>2, ModifyType, ModifyKeeps
  <2> HIDE DEF y
  <2>3. Keeps(y, z)
    BY <2>2, EmitKeeps
  <2>4. Keeps(x, z)
    BY <2>2, <2>3, KeepsTrans
  <2>5. z.b = book'[i] /\ z.k = kern'[i] /\ owner[i] # 0 /\ owner'[i] # 0
    BY <1>1, <1>2, <1>4
  <2> HIDE DEF z
  <2>6. QED
    BY <2>1, <2>4, <2>5, SlotKeeps
<1>5. QED
  BY <1>3, <1>4

(* A report only counts the URSEQN of its URRs up. *)
LEMMA ReportSlots ==
  ASSUME Inv, NEW j \in SEIDs, NEW S \in SUBSET URRs, ServeReport(j, S), NEW i \in SEIDs
  PROVE  SlotStep(i)
<1> DEFINE seqn == [u \in URRs |-> IF u \in S \cap book[j].urrs THEN book[j].seqn[u] + 1
                                   ELSE book[j].seqn[u]]
<1>1. /\ owner[j] # 0 /\ owner' = owner /\ kern' = kern
      /\ book' = [book EXCEPT ![j] = [@ EXCEPT !.seqn = seqn]]
  BY DEF ServeReport, tableVars
<1>2. book \in [SEIDs -> Books]
  BY DEF Inv, TypeOK
<1>3. CASE i # j
  BY <1>1, <1>2, <1>3, SlotSame
<1>4. CASE i = j
  <2>1. PICK y : y = [b |-> [book[j] EXCEPT !.seqn = seqn], k |-> kern[j], us |-> {}]
    OBVIOUS
  <2> HIDE DEF seqn
  <2>2. y.b = book'[i] /\ y.k = kern'[i] /\ y.k = kern[i]
    BY <1>1, <1>2, <1>4, <2>1
  <2>3. /\ y.b.pdrs = book[i].pdrs /\ y.b.rel = book[i].rel /\ y.b.urrs = book[i].urrs
        /\ y.b.ref = book[i].ref /\ y.b.rules = book[i].rules /\ y.b.removed = book[i].removed
    BY <1>2, <1>4, <2>1 DEF Books
  <2>4. Slot(i).b = book[i] /\ Slot(i).k = kern[i]
    BY <1>1, <1>4 DEF Slot
  <2>5. Keeps(Slot(i), y)
    BY <2>2, <2>3, <2>4 DEF Keeps, Agree, Shares, Share, NamedBy
  <2>6. QED
    BY <1>1, <1>4, <2>2, <2>5, SlotKeeps
<1>5. QED
  BY <1>3, <1>4

(* Every step treats every slot so. *)
LEMMA NextSlots ==
  ASSUME Inv, [Next]_vars, NEW i \in SEIDs
  PROVE  SlotStep(i)
<1>1. CASE UNCHANGED <<owner, book, kern>>
  BY <1>1, SlotSame
<1>2. ASSUME NEW j \in SEIDs, owner[j] # 0, NEW f \in SUBSET Flaky, NEW quiet, deleteSession(j, f, quiet)
      PROVE  SlotStep(i)
  BY <1>2, DeleteSlots DEF deleteSession, Inv
<1>3. ASSUME NEW f \in SUBSET Flaky, NEW m \in pending, NEW noSession \in BOOLEAN,
             handleSessionReportResponse(m, noSession, f)
      PROVE  SlotStep(i)
  <2>1. ASSUME NEW j \in Scanned(m), Matches(j, m), deleteSession(j, f, {}) PROVE SlotStep(i)
    <3>1. j \in SEIDs
      BY BoundsAssumption DEF Scanned, SEIDs, Inv, TypeOK, BoundsAssumption
    <3>2. QED
      BY <1>2, <2>1, <3>1 DEF Matches
  <2>2. QED
    BY <1>1, <1>3, <2>1 DEF handleSessionReportResponse, tableVars
<1>4. CASE UNCHANGED vars
  BY <1>1, <1>4 DEF vars
<1>5. CASE Next
  <2>1. ASSUME NEW f \in SUBSET Flaky, NEW quiet, NEW n \in NodeIDs,
               handleAssociationSetupRequest(n, f, quiet)
        PROVE  SlotStep(i)
    BY <2>1, SetupSlots
  <2>2. ASSUME NEW f \in SUBSET Flaky, NEW quiet, NEW j \in SEIDs, NEW r \in Requests,
               handleSessionModificationRequest(j, r, f, quiet)
        PROVE  SlotStep(i)
    BY <2>2, ModifySlots
  <2>3. ASSUME NEW f \in SUBSET Flaky, NEW quiet, NEW j \in SEIDs,
               handleSessionDeletionRequest(j, f, quiet)
        PROVE  SlotStep(i)
    BY <1>2, <2>3 DEF handleSessionDeletionRequest
  <2>4. ASSUME NEW f \in SUBSET Flaky, NEW n \in NodeIDs, NEW s \in RSEIDs, NEW r \in Creations,
               handleSessionEstablishmentRequest(n, s, r, f)
        PROVE  SlotStep(i)
    BY <2>4, EstablishSlots DEF Creations
  <2>5. ASSUME NEW j \in SEIDs, NEW S \in SUBSET URRs, ServeReport(j, S) PROVE SlotStep(i)
    BY <2>5, ReportSlots
  <2>6. ASSUME NEW m, handleSessionReportRequestTimeout(m) PROVE SlotStep(i)
    BY <1>1, <2>6 DEF handleSessionReportRequestTimeout, tableVars
  <2>7. QED
    BY <1>3, <1>5, <2>1, <2>2, <2>3, <2>4, <2>5, <2>6 DEF Next
<1>6. QED
  BY <1>4, <1>5

(* The rules of a new server agree, and every step keeps that. *)
LEMMA RulesAlways == Spec => []RulesInv
<1>1. Init => RulesInv
  <2> SUFFICES ASSUME Init, NEW i \in SEIDs PROVE Agree(Slot(i)) /\ Shares(Slot(i))
    BY DEF RulesInv
  <2>1. owner[i] = 0 /\ kern[i] = NoKern
    BY DEF Init
  <2>2. Slot(i) = [b |-> NoBook, k |-> NoKern, us |-> {}]
    BY <2>1 DEF Slot
  <2>3. QED
    BY <2>2 DEF Agree, Shares, NoBook, NoKern
<1>2. Inv /\ RulesInv /\ [Next]_vars => RulesInv'
  <2> SUFFICES ASSUME Inv, RulesInv, [Next]_vars PROVE RulesInv'
    OBVIOUS
  <2>1. \A i \in SEIDs : SlotStep(i)
    BY NextSlots
  <2>2. \A i \in SEIDs : Agree(Slot(i))' /\ Shares(Slot(i))'
    BY <2>1 DEF SlotStep, RulesInv
  <2>3. QED
    BY <2>2 DEF RulesInv
<1>3. QED
  BY <1>1, <1>2, InvAlways, PTL DEF Spec

(* Of the rules gtp5g refuses no call for it holds exactly those that the    *)
(* tables of the live sessions name.                                         *)
THEOREM KernelMatches == Spec => []KernelMatchesTables
<1>1. RulesInv => KernelMatchesTables
  <2> SUFFICES ASSUME RulesInv, NEW i \in SEIDs, NEW kind \in {"pdrs", "urrs", "rules"}
               PROVE  kern[i][kind] \ Flaky
                        = (IF owner[i] = 0 THEN NoKern
                           ELSE [pdrs |-> book[i].pdrs, urrs |-> book[i].urrs \ book[i].removed,
                                 rules |-> book[i].rules])[kind] \ Flaky
    BY DEF KernelMatchesTables
  <2>1. Agree(Slot(i))
    BY DEF RulesInv
  <2>2. CASE owner[i] = 0
    BY <2>1, <2>2 DEF Agree, Slot, NoBook, NoKern
  <2>3. CASE owner[i] # 0
    BY <2>1, <2>3 DEF Agree, Slot
  <2>4. QED
    BY <2>2, <2>3
<1>2. QED
  BY <1>1, RulesAlways, PTL

(* refPdrNum of a URR is at most the number of PDRs that name it.            *)
THEOREM RefsNeverAbovePdrs == Spec => []RefNeverAbovePdrs
<1>1. RulesInv => RefNeverAbovePdrs
  <2> SUFFICES ASSUME RulesInv, NEW i \in SEIDs, NEW u \in URRs, owner[i] # 0, u \in book[i].urrs
               PROVE  book[i].ref[u] <= Count({p \in book[i].pdrs : u \in book[i].rel[p]})
    BY DEF RefNeverAbovePdrs
  <2>1. Shares(Slot(i)) /\ Slot(i).b = book[i]
    BY DEF RulesInv, Slot
  <2>2. QED
    BY <2>1 DEF Shares, Share
<1>2. QED
  BY <1>1, RulesAlways, PTL

(* No step of a live session makes gtp5g hold a rule its tables do not name. *)
THEOREM FailedRemovalsKept == Spec => FailedRemovalKept
<1>1. Inv /\ [Next]_vars =>
         \A i \in SEIDs : owner[i] # 0 /\ owner'[i] # 0 /\ Named(i) => Named(i)'
  BY NextSlots DEF SlotStep
<1>2. QED
  BY <1>1, InvAlways, PTL DEF Spec, FailedRemovalKept

-----------------------------------------------------------------------------
(* Without takeovers a session is owned by the RemoteNode that its node ID   *)
(* is registered with, so that a set-up reaches every session of its node ID.*)
NodesCurrent ==
    /\ \A i \in SEIDs : owner[i] # 0 => rnodes[nodeId[owner[i]]] = owner[i]
    /\ \A n \in NodeIDs : rnodes[n] # 0 => nodeId[rnodes[n]] = n

(* What a set-up leaves of the sessions of its node ID. *)
LEMMA SetupNodes ==
  ASSUME Inv, NodesCurrent, NEW n \in NodeIDs, NEW f, NEW quiet,
         handleAssociationSetupRequest(n, f, quiet)
  PROVE  /\ NodesCurrent'
         /\ \A m \in NodeIDs : rnodes'[m] = nnodes' => m = n
         /\ \A i \in SEIDs : owner'[i] # 0 => nodeId'[owner'[i]] # n
<1> DEFINE old == rnodes[n]
           S == IF old = 0 THEN {} ELSE nodeSess[old]
           h == nnodes + 1
<1>1. /\ h \in Handles /\ nnodes' = h
      /\ nodeId' = [nodeId EXCEPT ![h] = n] /\ rnodes' = [rnodes EXCEPT ![n] = h]
      /\ owner' = [i \in SEIDs |-> IF i \in S THEN 0 ELSE owner[i]]
  BY DEF handleAssociationSetupRequest, DeleteSess
<1>2. /\ nnodes \in Nat /\ MaxNodes \in Nat
      /\ nodeId \in [Handles -> NodeIDs] /\ rnodes \in [NodeIDs -> 0..MaxNodes]
      /\ owner \in [SEIDs -> 0..MaxNodes]
      /\ \A i \in SEIDs : owner[i] <= nnodes
      /\ \A m \in NodeIDs : rnodes[m] <= nnodes
  BY BoundsAssumption DEF Inv, TypeOK, OwnerAgrees, BoundsAssumption
<1>3. ASSUME NEW i \in SEIDs, owner'[i] # 0
      PROVE  /\ owner'[i] = owner[i] /\ owner[i] \in Handles /\ owner[i] # h
             /\ nodeId[owner[i]] # n /\ nodeId[owner[i]] \in NodeIDs
             /\ rnodes[nodeId[owner[i]]] = owner[i]
  <2>1. owner'[i] = owner[i] /\ owner[i] \in 1..MaxNodes /\ i \notin S
    BY <1>1, <1>2, <1>3
  <2>2. owner[i] \in Handles /\ owner[i] # h /\ nodeId[owner[i]] \in NodeIDs
    BY <1>2, <2>1 DEF Handles
  <2>3. rnodes[nodeId[owner[i]]] = owner[i]
    BY <2>1 DEF NodesCurrent
  <2>4. nodeId[owner[i]] # n
    <3> SUFFICES ASSUME nodeId[owner[i]] = n PROVE FALSE
      OBVIOUS
    <3>1. old = owner[i] /\ old # 0
      BY <2>1, <2>3
    <3>2. i \in nodeSess[old]
      BY <2>2, <3>1 DEF Inv, OwnerAgrees
    <3>3. QED
      BY <2>1, <3>1, <3>2
  <2>5. QED
    BY <2>1, <2>2, <2>3, <2>4
<1> HIDE DEF S
<1>4. \A i \in SEIDs : owner'[i] # 0 => nodeId'[owner'[i]] # n /\ rnodes'[nodeId'[owner'[i]]] = owner'[i]
  BY <1>1, <1>2, <1>3
<1>5. \A m \in NodeIDs : rnodes'[m] = nnodes' => m = n
  BY <1>1, <1>2
<1>6. ASSUME NEW m \in NodeIDs, rnodes'[m] # 0 PROVE nodeId'[rnodes'[m]] = m
  <2>1. CASE m = n
    BY <1>1, <1>2, <2>1
  <2>2. CASE m # n
    <3>1. rnodes'[m] = rnodes[m] /\ rnodes[m] \in Handles /\ rnodes[m] # h
      BY <1>1, <1>2, <1>6, <2>2 DEF Handles
    <3>2. nodeId[rnodes[m]] = m
      BY <1>6, <3>1 DEF NodesCurrent
    <3>3. QED
      BY <1>1, <1>2, <3>1, <3>2
  <2>3. QED
    BY <2>1, <2>2
<1>7. QED
  BY <1>4, <1>5, <1>6 DEF NodesCurrent

(* A step that makes no RemoteNode and gives no session another owner. *)
LEMMA NodesKept ==
  ASSUME NodesCurrent, UNCHANGED <<nodeId, rnodes>>,
         \A i \in SEIDs : owner'[i] \in {owner[i], 0} \/ \E n \in NodeIDs : rnodes[n] # 0 /\ owner'[i] = rnodes[n]
  PROVE  NodesCurrent'
<1>1. ASSUME NEW i \in SEIDs, owner'[i] # 0 PROVE rnodes[nodeId[owner'[i]]] = owner'[i]
  <2>1. CASE owner'[i] = owner[i]
    BY <1>1, <2>1 DEF NodesCurrent
  <2>2. CASE \E n \in NodeIDs : rnodes[n] # 0 /\ owner'[i] = rnodes[n]
    BY <2>2 DEF NodesCurrent
  <2>3. QED
    BY <1>1, <2>1, <2>2
<1>2. QED
  BY <1>1 DEF NodesCurrent

(* Every step keeps the nodes current, and a set-up clears its node ID. *)
LEMMA NodesStep ==
  ASSUME Takeover = FALSE, Inv, NodesCurrent, [Next]_vars
  PROVE  /\ NodesCurrent'
         /\ \A n \in NodeIDs : nnodes' # nnodes /\ rnodes'[n] = nnodes'
               => \A i \in SEIDs : owner'[i] # 0 => nodeId'[owner'[i]] # n
<1> DEFINE Goal == /\ NodesCurrent'
                   /\ \A n \in NodeIDs : nnodes' # nnodes /\ rnodes'[n] = nnodes'
                         => \A i \in SEIDs : owner'[i] # 0 => nodeId'[owner'[i]] # n
<1>1. ASSUME NEW n \in NodeIDs, NEW f, NEW quiet, handleAssociationSetupRequest(n, f, quiet)
      PROVE  Goal
  BY <1>1, SetupNodes
<1>2. ASSUME UNCHANGED nodeVars,
             \A i \in SEIDs : owner'[i] \in {owner[i], 0}
                                \/ \E n \in NodeIDs : rnodes[n] # 0 /\ owner'[i] = rnodes[n]
      PROVE  Goal
  BY <1>2, NodesKept DEF nodeVars
<1>3. ASSUME UNCHANGED <<nodeVars, owner>> PROVE Goal
  BY <1>2, <1>3
<1>4. ASSUME NEW i, NEW f, NEW quiet, deleteSession(i, f, quiet), UNCHANGED nodeVars
      PROVE  Goal
  <2>1. \A j \in SEIDs : owner'[j] \in {owner[j], 0}
    BY <1>4 DEF deleteSession, DeleteSess
  <2>2. QED
    BY <1>2, <1>4, <2>1
<1>5. ASSUME NEW n \in NodeIDs, NEW s \in RSEIDs, NEW r, NEW f,
             handleSessionEstablishmentRequest(n, s, r, f)
      PROVE  Goal
  <2>1. rnodes[n] # 0 /\ rnodes[n] \in 1..nnodes /\ NewSess(rnodes[n], s) /\ UNCHANGED nodeVars
    BY <1>5, BoundsAssumption
       DEF handleSessionEstablishmentRequest, Inv, TypeOK, OwnerAgrees, BoundsAssumption
  <2>2. owner' = [owner EXCEPT ![NewID] = rnodes[n]]
    BY <2>1, NewSessKeepsTables
  <2>3. \A j \in SEIDs : owner'[j] \in {owner[j], rnodes[n]}
    BY <2>2 DEF Inv, TypeOK
  <2>4. QED
    BY <1>2, <2>1, <2>3
<1> HIDE DEF Goal
<1>6. ASSUME UNCHANGED vars PROVE Goal
  BY <1>3, <1>6 DEF vars, nodeVars
<1>7. ASSUME Next PROVE Goal
  <2>1. ASSUME NEW i, NEW r, NEW f, NEW quiet, handleSessionModificationRequest(i, r, f, quiet)
        PROVE  Goal
    BY <1>3, <2>1 DEF handleSessionModificationRequest, tableVars, nodeVars
  <2>2. ASSUME NEW i, NEW f, NEW quiet, handleSessionDeletionRequest(i, f, quiet) PROVE Goal
    BY <1>4, <2>2 DEF handleSessionDeletionRequest
  <2>3. ASSUME NEW m, NEW noSession, NEW f, handleSessionReportResponse(m, noSession, f)
        PROVE  Goal
    BY <1>3, <1>4, <2>3 DEF handleSessionReportResponse, tableVars, nodeVars
  <2>4. ASSUME NEW i, NEW S, ServeReport(i, S) PROVE Goal
    BY <1>3, <2>4 DEF ServeReport, tableVars, nodeVars
  <2>5. ASSUME NEW m, handleSessionReportRequestTimeout(m) PROVE Goal
    BY <1>3, <2>5 DEF handleSessionReportRequestTimeout, tableVars, nodeVars
  <2>6. QED
    BY <1>1, <1>5, <1>7, <2>1, <2>2, <2>3, <2>4, <2>5 DEF Next
<1>8. QED
  BY <1>6, <1>7 DEF Goal

(* After the set-up of an association no session of its node ID is left, if  *)
(* no SMF takes sessions over; see README for the takeover that breaks it.   *)
THEOREM SetupClears ==
  ASSUME Takeover = FALSE
  PROVE  Spec => SetupClearsNode
<1>1. Init => NodesCurrent
  BY DEF Init, NodesCurrent
<1>2. Inv /\ NodesCurrent /\ [Next]_vars =>
         /\ NodesCurrent'
         /\ \A n \in NodeIDs : nnodes' # nnodes /\ rnodes'[n] = nnodes'
               => \A i \in SEIDs : owner'[i] # 0 => nodeId'[owner'[i]] # n
  BY NodesStep
<1>3. QED
  BY <1>1, <1>2, InvAlways, PTL DEF Spec, SetupClearsNode
=============================================================================
