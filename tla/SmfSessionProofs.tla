-------------------------- MODULE SmfSessionProofs --------------------------
(***************************************************************************)
(* Proofs about SmfSession for any number of PDU sessions, addresses,      *)
(* contexts, messages and failures: its types, and that the addresses, the *)
(* policy associations, the SDM subscription and the UPF's sessions end    *)
(* with the contexts they belong to.                                       *)
(***************************************************************************)
EXTENDS SmfSession, FiniteSetTheorems, SequenceTheorems, TLAPS

Ctx == [psi : Psis \cup {None}, state : States, ip : Ips \cup {None}, sel : BOOLEAN,
        policy : BOOLEAN, tun : BOOLEAN, seid : Nat, an : BOOLEAN,
        up : {"none", "ACTIVATED", "ACTIVATING", "DEACTIVATED"}, dup : BOOLEAN, t3592 : 0..Off]
Locks == {"free", "est", "notify", "retry", "cancel", "policy", "down", "stuck"}
Requests == [m : AllMsgs \cup Answers \cup {"none", "LocalRelease", "New"},
             psi : Psis \cup {None}, ref : 0..nref]
Counts == [sent : Nat, late : BOOLEAN, lost : SUBSET Refs, fault : Nat, restart : Nat, notify : Nat]

Types ==
    /\ nref \in 0..MaxRef /\ pool \subseteq 1..nref /\ canon \in [Psis -> 0..nref]
    /\ ctx \in [Refs -> Ctx]
    /\ ipq \in Seq(Ips)
    /\ lock \in [Refs -> Locks]
    /\ rm \in [Refs -> [BOOLEAN -> Nat]] /\ cb \in [Refs -> SUBSET {"retry", "cancel"}]
    /\ pol \subseteq 1..nref /\ assoc \in {"up", "stale", "down"}
    /\ down \in [todo : SUBSET (1..nref), cur : 0..nref]
    /\ sess \in Seq(Refs \cup {None}) /\ sfree \in Seq(DOMAIN sess)
    /\ pcf \subseteq 1..nref /\ sdm \in Nat /\ amf \in [Psis -> 0..nref]
    /\ req \in Requests
    /\ owed \in [Psis -> SUBSET Answers]
    /\ used \in Counts

(* A request has a context, or is a Create for which there is room.          *)
Serving ==
    /\ req.m \in {"New", "LocalRelease"} => nref < MaxRef
    /\ req.m \notin {"none", "New"} => req.ref # 0

(* The goroutine that has the lock to notify the AMF still counts as one.    *)
Holders == \A r \in Refs : lock[r] = "notify" => rm[r][TRUE] > 0

(* Contexts that are not made yet.                                           *)
Fresh == \A r \in Refs : r > nref =>
            /\ ctx[r] = NoCtx /\ lock[r] = "free" /\ cb[r] = {}
            /\ rm[r][TRUE] = 0 /\ rm[r][FALSE] = 0

Pend(r) == rm[r][TRUE] > 0 \/ rm[r][FALSE] > 0
Gone(r) == \A s \in DOMAIN sess : sess[s] # r

(* While Create's goroutine has the lock nothing has happened to the context. *)
Est == \A r \in Refs : lock[r] = "est" =>
          /\ r \in pool /\ ~Pend(r)
          /\ ctx[r].tun /\ ctx[r].seid = 0 /\ ctx[r].state = "ActivePending" /\ ~ctx[r].dup

(* Each address is once in the queue or held once, and never both.           *)
Holds(r, ip) == r \in pool /\ ctx[r].sel /\ ctx[r].ip = ip
Addresses ==
    /\ \A i, j \in DOMAIN ipq : ipq[i] = ipq[j] => i = j
    /\ \A ip \in Ips : \A r, o \in Refs : Holds(r, ip) /\ Holds(o, ip) => r = o
    /\ \A i \in DOMAIN ipq : \A r \in Refs : ~Holds(r, ipq[i])
    /\ \A ip \in Ips : (\E i \in DOMAIN ipq : ipq[i] = ip) \/ (\E r \in Refs : Holds(r, ip))
    /\ \A r \in Refs : r \notin pool => ~ctx[r].sel

(* The SDM count: a context whose removal has begun is not counted any more. *)
Live == {r \in pool : ~Pend(r)}
Sdm == sdm <= Cardinality(Live)

Policies == used.fault = 0 => \A r \in pcf : r \in pool /\ ctx[r].policy /\ ~Pend(r)

Seids == \A r \in Refs \ used.lost : \A s \in DOMAIN sess : sess[s] = r => s = ctx[r].seid

(* Without failures a context that is ending has no session at the UPF.      *)
Faultless == used.fault = 0 /\ used.restart = 0 /\ ~used.late
Ending(r) == ctx[r].state \in {"InActive", "InActivePending"} \/ ctx[r].dup \/ Pend(r) \/ r \notin pool
Clean ==
    Faultless =>
        /\ assoc = "up" /\ down.cur = None /\ used.lost = {}
        /\ \A r \in Refs :
              /\ (ctx[r].tun /\ lock[r] # "est" => ctx[r].seid # 0)
              /\ (~ctx[r].tun \/ Ending(r) => Gone(r))

SessInv == Types /\ Serving /\ Holders /\ Fresh /\ Est /\ Addresses /\ Sdm /\ Policies /\ Seids /\ Clean

-----------------------------------------------------------------------------
(* What the handlers are made of.                                            *)

(* Only the context r changes, and what hangs on it.                         *)
Touch(r) == \A o \in Refs \ {r} :
               ctx'[o] = ctx[o] /\ rm'[o] = rm[o] /\ lock'[o] = lock[o] /\ cb'[o] = cb[o]
(* The UPF only loses sessions.                                              *)
Shrinks == DOMAIN sess' \subseteq DOMAIN sess /\ \A s \in DOMAIN sess' : sess'[s] \in {sess[s], None}

(* The contexts made so far.                                                 *)
LEMMA RefsAre ==
    ASSUME Types
    PROVE  nref \in Nat /\ nref <= MaxRef /\ 1..nref \subseteq Refs /\ None \notin Refs
           /\ pool \subseteq Refs /\ pcf \subseteq Refs
  BY SmfSessionAssumption DEF Types, Refs, None

(* An entry without a context.                                               *)
LEMMA NoCtxType == NoCtx \in Ctx
  BY SmfSessionAssumption DEF NoCtx, Ctx, States, Off

(* One context is replaced.                                                  *)
LEMMA CtxSet ==
    ASSUME Types, NEW r \in Refs, NEW c \in Ctx, ctx' = [ctx EXCEPT ![r] = c]
    PROVE  ctx' \in [Refs -> Ctx] /\ ctx'[r] = c /\ \A o \in Refs \ {r} : ctx'[o] = ctx[o]
  BY DEF Types

(* Removal goroutines are started.                                           *)
LEMMA Spawned ==
    ASSUME Types, NEW r \in Refs, NEW b \in BOOLEAN, NEW j \in Nat, Spawn(r, b, j)
    PROVE  /\ rm' \in [Refs -> [BOOLEAN -> Nat]]
           /\ \A o \in Refs \ {r} : rm'[o] = rm[o]
           /\ Pend(r)' <=> Pend(r) \/ j > 0
           /\ j = 0 => rm' = rm
<1>1. rm[r] \in [BOOLEAN -> Nat] /\ rm \in [Refs -> [BOOLEAN -> Nat]]
  BY DEF Types
<1> DEFINE f == [rm[r] EXCEPT ![b] = @ + j]
<1>2. rm' = [rm EXCEPT ![r] = f]
  BY DEF Spawn
<1>3. f \in [BOOLEAN -> Nat] /\ f[b] = rm[r][b] + j /\ \A a \in BOOLEAN \ {b} : f[a] = rm[r][a]
  BY <1>1
<1>4. j = 0 => f = rm[r]
  BY <1>1
<1> HIDE DEF f
<1>5. rm' \in [Refs -> [BOOLEAN -> Nat]] /\ rm'[r] = f /\ \A o \in Refs \ {r} : rm'[o] = rm[o]
  BY <1>1, <1>2, <1>3
<1>6. Pend(r)' <=> Pend(r) \/ j > 0
  <2> DEFINE x == rm[r][TRUE]
             y == rm[r][FALSE]
             u == rm'[r][TRUE]
             v == rm'[r][FALSE]
  <2>1. x \in Nat /\ y \in Nat
    BY <1>1, Zenon
  <2>2. \/ u = x + j /\ v = y
        \/ u = x /\ v = y + j
    <3>1. CASE b = TRUE
      BY <1>3, <1>5, <3>1
    <3>2. CASE b = FALSE
      BY <1>3, <1>5, <3>2
    <3> QED  BY <3>1, <3>2
  <2>3. (Pend(r)' <=> u > 0 \/ v > 0) /\ (Pend(r) <=> x > 0 \/ y > 0)
    BY DEF Pend
  <2> HIDE DEF x, y, u, v
  <2> QED  BY <2>1, <2>2, <2>3
<1>7. j = 0 => rm' = rm
  BY <1>1, <1>2, <1>4
<1> QED  BY <1>5, <1>6, <1>7

(* UnSubscribe never goes below zero and Terminated adds no association.     *)
LEMMA Ended_ ==
    ASSUME Types
    PROVE  /\ \A k \in Nat : UnSubscribe(k) \in Nat /\ UnSubscribe(k) <= sdm
                            /\ (k > 0 /\ sdm > 0 => UnSubscribe(k) <= sdm - 1)
                            /\ (sdm = 0 => UnSubscribe(k) = 0)
           /\ UnSubscribe(0) = sdm
           /\ \A r, k, n : Terminated(r, k, n) \subseteq pcf
           /\ \A r \in Refs : \A k \in 0..2 : \A n \in TermFails(r, k) : n \in 0..k
  BY DEF Types, UnSubscribe, Terminated, TermFails

(* n calls fail.                                                             *)
LEMMA Failed ==
    ASSUME Types, NEW n \in Nat, Fail(n)
    PROVE  /\ used' \in Counts /\ used'.fault = used.fault + n
           /\ used'.restart = used.restart /\ used'.late = used.late /\ used'.lost = used.lost
<1> DEFINE m == used.fault + n
<1>1. used' = [used EXCEPT !.fault = m] /\ used \in Counts
  BY DEF Fail, Types
<1>2. m \in Nat
  BY DEF Types, Counts
<1> HIDE DEF m
<1>3. used' \in Counts
  BY <1>1, <1>2, Zenon DEF Counts
<1>4. /\ used'.fault = m /\ used'.restart = used.restart
      /\ used'.late = used.late /\ used'.lost = used.lost
  BY <1>1 DEF Counts
<1> QED  BY <1>3, <1>4 DEF m

(* What UE and gNB are asked to answer.                                      *)
LEMMA OweType ==
    ASSUME Types, NEW p, NEW A \in SUBSET Answers, Owe(p, A)
    PROVE  owed' \in [Psis -> SUBSET Answers]
  BY DEF Types, Owe

(* A deletion at the UPF.                                                    *)
LEMMA Released ==
    ASSUME Types, NEW r \in Refs, NEW o \in Exchange, releaseSession(r, o)
    PROVE  /\ sess' \in Seq(Refs \cup {None}) /\ sfree' \in Seq(DOMAIN sess')
           /\ DOMAIN sess' = DOMAIN sess /\ Shrinks
           /\ \A s \in DOMAIN sess : sess'[s] # sess[s] => s = ctx[r].seid
           /\ o = "ok" /\ ctx[r].tun /\ assoc = "up" /\ (\A s \in DOMAIN sess : sess[s] = r => s = ctx[r].seid)
                 => Gone(r)'
           /\ Gone(r) => Gone(r)'
<1>0. sess \in Seq(Refs \cup {None}) /\ sfree \in Seq(DOMAIN sess) /\ None \notin Refs
  BY RefsAre DEF Types
<1>1. CASE ctx[r].tun /\ assoc = "up" /\ o # "drop" /\ UpfHas(ctx[r].seid)
  <2> DEFINE s == ctx[r].seid
  <2>1. s \in DOMAIN sess /\ sess' = [sess EXCEPT ![s] = None] /\ sfree' = Append(sfree, s)
    BY <1>1 DEF releaseSession, UpfDelete, UpfHas
  <2> HIDE DEF s
  <2>2. /\ sess' \in Seq(Refs \cup {None}) /\ DOMAIN sess' = DOMAIN sess
        /\ sess'[s] = None /\ \A x \in DOMAIN sess \ {s} : sess'[x] = sess[x]
    BY <1>0, <2>1
  <2>3. sfree' \in Seq(DOMAIN sess')
    BY <1>0, <2>1, <2>2
  <2> QED  BY <1>0, <2>2, <2>3 DEF Shrinks, Gone, s
<1>2. CASE ~(ctx[r].tun /\ assoc = "up" /\ o # "drop" /\ UpfHas(ctx[r].seid))
  <2>1. sess' = sess /\ sfree' = sfree
    BY <1>2 DEF releaseSession, upf
  <2>2. o = "ok" /\ ctx[r].tun /\ assoc = "up" => ~UpfHas(ctx[r].seid)
    BY <1>2
  <2> QED  BY <1>0, <2>1, <2>2 DEF Shrinks, Gone, UpfHas
<1> QED  BY <1>1, <1>2

(* A session established at the UPF.                                         *)
LEMMA Established ==
    ASSUME Types, NEW r \in Refs, UpfNewSess(r)
    PROVE  /\ sess' \in Seq(Refs \cup {None}) /\ sfree' \in Seq(DOMAIN sess')
           /\ DOMAIN sess \subseteq DOMAIN sess' /\ NewSeid \in DOMAIN sess' /\ NewSeid \in Nat \ {0}
           /\ sess'[NewSeid] = r
           /\ \A s \in DOMAIN sess' \ {NewSeid} : s \in DOMAIN sess /\ sess'[s] = sess[s]
<1>0. sess \in Seq(Refs \cup {None}) /\ sfree \in Seq(DOMAIN sess)
  BY DEF Types
<1>1. CASE sfree = <<>>
  <2>1. sess' = Append(sess, r) /\ sfree' = sfree /\ NewSeid = Len(sess) + 1
    BY <1>1 DEF UpfNewSess, NewSeid
  <2>2. sfree' \in Seq(DOMAIN sess')
    BY <1>1, <2>1
  <2> QED  BY <1>0, <2>1, <2>2
<1>2. CASE sfree # <<>>
  <2> DEFINE s == sfree[Len(sfree)]
  <2>1. sess' = [sess EXCEPT ![s] = r] /\ sfree' = SubSeq(sfree, 1, Len(sfree) - 1) /\ NewSeid = s
    BY <1>2 DEF UpfNewSess, NewSeid
  <2>2. s \in DOMAIN sess /\ s \in Nat \ {0}
    BY <1>0, <1>2
  <2>3. sfree' \in Seq(DOMAIN sess)
    BY <1>0, <1>2, <2>1
  <2> HIDE DEF s
  <2>4. sess' \in Seq(Refs \cup {None}) /\ DOMAIN sess' = DOMAIN sess
    BY <1>0, <2>1, <2>2
  <2> QED  BY <1>0, <2>1, <2>2, <2>3, <2>4
<1> QED  BY <1>1, <1>2

-----------------------------------------------------------------------------
(* The parts of the invariant when one context is touched.                   *)
LEMMA FreshKept ==
    ASSUME Types, Fresh, NEW r \in 1..nref, Touch(r), nref' = nref
    PROVE  Fresh'
<1>1. \A o \in Refs : o > nref => o \in Refs \ {r}
  BY RefsAre
<1> QED  BY <1>1 DEF Fresh, Touch

(* A context that is touched is not any more in Create's hands.              *)
LEMMA EstKept ==
    ASSUME Types, Est, NEW r \in Refs, Touch(r), \A o \in Refs \ {r} : o \in pool => o \in pool',
           lock'[r] # "est"
    PROVE  Est'
  BY DEF Est, Touch, Pend

(* Sets of contexts are finite.                                              *)
LEMMA SubFinite ==
    ASSUME NEW m \in Nat, NEW P, P \subseteq 1..m
    PROVE  IsFiniteSet(P) /\ Cardinality(P) \in Nat
<1>1. 1 \in Int /\ m \in Int
  OBVIOUS
<1>2. IsFiniteSet(1..m)
  BY <1>1, FS_Interval
<1> QED  BY <1>2, FS_Subset, FS_CardinalityType

(* The contexts that count are finitely many.                                *)
LEMMA LiveFinite ==
    ASSUME Types
    PROVE  IsFiniteSet(Live) /\ Cardinality(Live) \in Nat /\ Live \subseteq Refs
<1>1. nref \in Nat /\ Live \subseteq 1..nref /\ Live \subseteq Refs
  BY RefsAre DEF Live, Types
<1> HIDE DEF Live
<1> QED  BY <1>1, SubFinite

(* And so they are after the step.                                           *)
LEMMA LiveFiniteNext ==
    ASSUME Types'
    PROVE  IsFiniteSet(Live') /\ Cardinality(Live') \in Nat
<1>0. nref' \in 0..MaxRef /\ pool' \subseteq 1..nref' /\ MaxRef \in Nat
  BY SmfSessionAssumption DEF Types
<1>a. nref' \in Nat
  BY <1>0
<1>b. Live' \subseteq pool'
  BY Zenon DEF Live
<1>1. nref' \in Nat /\ Live' \subseteq 1..nref'
  BY <1>0, <1>a, <1>b, Zenon
<1> HIDE DEF Live
<1> QED  BY <1>1, SubFinite

(* Ending a context: k calls that unsubscribe and terminate, n of which fail,*)
(* and j removals.                                                           *)
LEMMA SdmKept ==
    ASSUME Types, Types', Sdm, NEW r \in Refs, Touch(r), pool' = pool,
           NEW k \in Nat, sdm' = UnSubscribe(k),
           Pend(r)' => k > 0 \/ Pend(r)
    PROVE  Sdm'
<1>1. /\ IsFiniteSet(Live) /\ Cardinality(Live) \in Nat
      /\ IsFiniteSet(Live') /\ Cardinality(Live') \in Nat
  BY LiveFinite, LiveFiniteNext
<1>2. sdm \in Nat /\ sdm' \in Nat /\ sdm' <= sdm /\ (k > 0 /\ sdm > 0 => sdm' <= sdm - 1)
  BY Ended_ DEF Types
<1>3. \A o \in Refs \ {r} : Pend(o)' <=> Pend(o)
  BY DEF Touch, Pend
<1>4. Live \ {r} \subseteq Live'
  BY <1>3, RefsAre DEF Live
<1>5. CASE Live \subseteq Live'
  <2>2. Cardinality(Live) <= Cardinality(Live')
    BY <1>1, <1>5, FS_Subset
  <2> QED  BY <1>1, <1>2, <2>2 DEF Sdm
<1>6. CASE ~(Live \subseteq Live')
  <2>1. r \in Live /\ r \notin Live'
    BY <1>4, <1>6
  <2>2. k > 0
    BY <2>1 DEF Live
  <2>3. Cardinality(Live \ {r}) = Cardinality(Live) - 1
    BY <1>1, <2>1, FS_RemoveElement
  <2>5. Cardinality(Live \ {r}) <= Cardinality(Live')
    BY <1>1, <1>4, FS_Subset
  <2> QED  BY <1>1, <1>2, <2>2, <2>3, <2>5 DEF Sdm
<1> QED  BY <1>5, <1>6

(* An association ends with the context unless a termination fails.          *)
LEMMA PoliciesKept ==
    ASSUME Types, Policies, NEW r \in Refs, Touch(r), pool' = pool,
           NEW k \in Nat, NEW n \in Nat, pcf' = Terminated(r, k, n),
           used'.fault = 0 => used.fault = 0 /\ n = 0,
           k = 0 => ctx'[r].policy = ctx[r].policy,
           Pend(r)' => k > 0 \/ Pend(r)
    PROVE  Policies'
<1> SUFFICES ASSUME used'.fault = 0, NEW o \in pcf'
             PROVE  o \in pool' /\ ctx'[o].policy /\ ~Pend(o)'
  BY DEF Policies
<1>1. o \in pcf /\ used.fault = 0 /\ n = 0
  BY DEF Terminated
<1>2. o \in pool /\ ctx[o].policy /\ ~Pend(o) /\ o \in Refs
  BY <1>1, RefsAre DEF Policies
<1>3. CASE o = r
  <2>1. k = 0
    BY <1>1, <1>2, <1>3 DEF Terminated
  <2> QED  BY <1>2, <1>3, <2>1
<1>4. CASE o # r
  <2>1. ctx'[o] = ctx[o] /\ (Pend(o)' <=> Pend(o))
    BY <1>2, <1>4 DEF Touch, Pend
  <2> QED  BY <1>2, <2>1
<1> QED  BY <1>3, <1>4

(* A step that gives no address away.                                        *)
LEMMA AddressesKept ==
    ASSUME Types, Addresses, UNCHANGED <<ipq, pool>>,
           \A r \in Refs : ctx'[r].sel = ctx[r].sel /\ ctx'[r].ip = ctx[r].ip
    PROVE  Addresses'
<1>1. \A r \in Refs : \A ip : Holds(r, ip)' <=> Holds(r, ip)
  BY DEF Holds
<1> QED  BY <1>1 DEF Addresses

(* A step in which the UPF makes no session.                                 *)
LEMMA SeidsKept ==
    ASSUME Types, Seids, NEW r \in Refs, Touch(r), Shrinks, used'.lost = used.lost,
           ctx'[r].seid = ctx[r].seid
    PROVE  Seids'
<1>1. \A o \in Refs : ctx'[o].seid = ctx[o].seid
  BY DEF Touch
<1>2. None \notin Refs
  BY RefsAre
<1> QED  BY <1>1, <1>2 DEF Seids, Shrinks

(* A session the UPF does not have does not come back.                       *)
LEMMA GoneKept ==
    ASSUME Types, Shrinks, NEW o \in Refs, Gone(o)
    PROVE  Gone(o)'
  BY RefsAre DEF Gone, Shrinks

(* A step in which the UPF makes no session and r is touched.                *)
LEMMA CleanKept ==
    ASSUME Types, Clean, NEW r \in Refs, Touch(r), Shrinks,
           Faultless' => Faultless /\ assoc' = assoc /\ down'.cur = down.cur /\ used'.lost = used.lost,
           \A o \in Refs \ {r} : o \in pool <=> o \in pool',
           Faultless' /\ ctx'[r].tun /\ lock'[r] # "est" => ctx'[r].seid # 0,
           Faultless' /\ (~ctx'[r].tun \/ Ending(r)') => Gone(r)'
    PROVE  Clean'
<1> SUFFICES ASSUME Faultless'
             PROVE  /\ assoc' = "up" /\ down'.cur = None /\ used'.lost = {}
                    /\ \A o \in Refs :
                          /\ (ctx'[o].tun /\ lock'[o] # "est" => ctx'[o].seid # 0)
                          /\ (~ctx'[o].tun \/ Ending(o)' => Gone(o)')
  BY DEF Clean
<1>1. /\ assoc' = "up" /\ down'.cur = None /\ used'.lost = {}
      /\ \A o \in Refs : /\ (ctx[o].tun /\ lock[o] # "est" => ctx[o].seid # 0)
                        /\ (~ctx[o].tun \/ Ending(o) => Gone(o))
  BY DEF Clean
<1>2. \A o \in Refs \ {r} : /\ ctx'[o] = ctx[o] /\ lock'[o] = lock[o]
                           /\ (Ending(o)' <=> Ending(o))
                           /\ (Gone(o) => Gone(o)')
  BY GoneKept DEF Touch, Ending, Pend
<1> HIDE DEF Ending, Gone
<1> QED  BY <1>1, <1>2

(* A step that touches one context, of those made, and ends it k times, of   *)
(* which n terminations fail.                                                *)
EndStep(r, k, n) ==
    /\ Touch(r) /\ nref' = nref /\ pool' = pool /\ Shrinks
    /\ lock'[r] = "est" <=> lock[r] = "est"
    /\ lock[r] = "est" => /\ ctx'[r].state = ctx[r].state /\ ctx'[r].dup = ctx[r].dup
                          /\ (Pend(r)' => Pend(r))
    /\ lock'[r] = "notify" => rm'[r][TRUE] > 0
    /\ ctx'[r].seid = ctx[r].seid /\ ctx'[r].tun = ctx[r].tun
    /\ sdm' = UnSubscribe(k) /\ pcf' = Terminated(r, k, n)
    /\ k = 0 => ctx'[r].policy = ctx[r].policy
    /\ Pend(r)' => k > 0 \/ Pend(r)
    /\ used'.lost = used.lost /\ (used'.fault = 0 => used.fault = 0 /\ n = 0)
    /\ Faultless' => Faultless /\ assoc' = assoc /\ down'.cur = down.cur
    /\ Faultless' /\ Ending(r)' => Ending(r) \/ Gone(r)'

(* Such a step keeps the invariant.                                          *)
LEMMA EndKeeps ==
    ASSUME SessInv, Types', Serving', Addresses',
           NEW r \in 1..nref, NEW k \in Nat, NEW n \in Nat, EndStep(r, k, n)
    PROVE  SessInv'
<1> USE DEF SessInv, EndStep
<1>1. r \in Refs
  BY RefsAre
<1>2. Fresh'
  BY FreshKept
<1>3. Holders'
  BY <1>1 DEF Holders, Touch
<1>4. Est'
  BY <1>1 DEF Est, Touch, Pend
<1>5. Sdm'
  BY <1>1, SdmKept
<1>6. Policies'
  BY <1>1, PoliciesKept
<1>7. Seids'
  BY <1>1, SeidsKept
<1>8. Clean'
  <2>1. Faultless' /\ ctx'[r].tun /\ lock'[r] # "est" => ctx'[r].seid # 0
    BY <1>1 DEF Clean
  <2>2. Faultless' /\ (~ctx'[r].tun \/ Ending(r)') => Gone(r)'
    BY <1>1, GoneKept DEF Clean
  <2> QED  BY <1>1, <2>1, <2>2, CleanKept
<1> QED  BY <1>2, <1>3, <1>4, <1>5, <1>6, <1>7, <1>8

(* A step that touches no context.                                           *)
LEMMA QuietKeeps ==
    ASSUME SessInv, Types', Serving', UNCHANGED <<names, ctx, rm, lock, cb, ipq, pcf, sdm>>,
           Shrinks, used'.lost = used.lost, used'.fault = used.fault,
           Faultless' => Faultless /\ assoc' = assoc /\ down'.cur = down.cur
    PROVE  SessInv'
<1> USE DEF SessInv, names
<1>1. /\ \A r \in Refs : Pend(r)' <=> Pend(r)
      /\ Live' = Live
  BY DEF Pend, Live
<1>2. Fresh' /\ Holders' /\ Est'
  BY <1>1 DEF Fresh, Holders, Est
<1>3. Addresses'
  BY AddressesKept
<1>4. Sdm'
  BY <1>1 DEF Sdm
<1>5. Policies'
  BY <1>1, RefsAre DEF Policies
<1>6. Seids'
  BY RefsAre DEF Seids, Shrinks
<1>7. Clean'
  <2>1. \A r \in Refs : (Ending(r)' <=> Ending(r)) /\ (Gone(r) => Gone(r)')
    BY <1>1, GoneKept DEF Ending
  <2> HIDE DEF Ending, Gone
  <2> QED  BY <2>1 DEF Clean
<1> QED  BY <1>2, <1>3, <1>4, <1>5, <1>6, <1>7

(* A context with another state and another policy.                          *)
LEMMA StatePolicy ==
    ASSUME Types, NEW r \in Refs, NEW x \in States, NEW y \in BOOLEAN, NEW c \in Ctx,
           NEW d, d = [c EXCEPT !.state = x, !.policy = y]
    PROVE  /\ d \in Ctx /\ d.state = x /\ d.policy = y
           /\ d.psi = c.psi /\ d.ip = c.ip /\ d.sel = c.sel /\ d.tun = c.tun /\ d.seid = c.seid
           /\ d.dup = c.dup /\ d.t3592 = c.t3592
  BY DEF Ctx

(* How a handler leaves the context it ends.                                 *)
EndedOf(c, k, d) ==
    /\ d \in Ctx /\ d.psi = c.psi /\ d.ip = c.ip /\ d.sel = c.sel /\ d.tun = c.tun
    /\ d.seid = c.seid /\ d.dup = c.dup
    /\ k = 0 => d = c
    /\ k # 0 => d.state = "InActive"

(* A context after k removals is inactive, and keeps its association only    *)
(* when every termination failed.                                            *)
LEMMA EndedIs ==
    ASSUME NEW c \in Ctx, NEW k \in Nat, NEW n \in Nat
    PROVE  EndedOf(c, k, Ended(c, k, n))
<1>0. PICK d : d = Ended(c, k, n)
  OBVIOUS
<1> SUFFICES EndedOf(c, k, d)
  BY <1>0
<1> USE <1>0 DEF EndedOf
<1>1. CASE k = 0
  BY <1>1 DEF Ended
<1>2. CASE k # 0
  <2> DEFINE y == c.policy /\ n >= k
  <2>1. d = [c EXCEPT !.state = "InActive", !.policy = y]
    BY <1>2 DEF Ended
  <2>2. y \in BOOLEAN
    OBVIOUS
  <2> HIDE DEF y
  <2>3. "InActive" \in States
    BY DEF States
  <2> QED  BY <1>2, <2>1, <2>2, <2>3 DEF Ctx
<1> QED  BY <1>1, <1>2

(* An Update ends.                                                           *)
LEMMA EndedUpdate ==
    ASSUME Types, NEW r \in Refs, NEW k \in Nat, NEW n \in Nat, EndUpdate(r, k, n)
    PROVE  /\ rm' \in [Refs -> [BOOLEAN -> Nat]] /\ \A o \in Refs \ {r} : rm'[o] = rm[o]
           /\ Pend(r)' <=> Pend(r) \/ k > 0
           /\ sdm' = UnSubscribe(k) /\ pcf' = Terminated(r, k, n)
           /\ req' = Idle
<1>1. CASE k = 0
  <2>1. pcf' = pcf /\ sdm' = sdm /\ rm' = rm /\ req' = Idle
    BY <1>1 DEF EndUpdate
  <2>2. UnSubscribe(k) = sdm /\ Terminated(r, k, n) = pcf
    BY <1>1, Ended_ DEF Terminated
  <2> QED  BY <1>1, <2>1, <2>2 DEF Types, Pend
<1>2. CASE k # 0
  <2>1. pcf' = Terminated(r, k, n) /\ sdm' = UnSubscribe(k) /\ Spawn(r, TRUE, k) /\ req' = Idle
    BY <1>2 DEF EndUpdate
  <2> QED  BY <2>1, Spawned
<1> QED  BY <1>1, <1>2

(* An establishment that may fail.                                           *)
LEMMA EstFailed ==
    ASSUME Types, NEW r \in Refs, NEW o \in Exchange, NEW n \in Nat, FailEst(n, r, o)
    PROVE  /\ used' \in Counts /\ used'.fault = used.fault + n
           /\ used'.restart = used.restart /\ used'.late = used.late
           /\ used'.lost = IF o = "lost" THEN used.lost \cup {r} ELSE used.lost
<1> DEFINE m == used.fault + n
           l == IF o = "lost" THEN used.lost \cup {r} ELSE used.lost
<1>1. used' = [used EXCEPT !.fault = m, !.lost = l] /\ used \in Counts
  BY DEF FailEst, Types
<1>2. m \in Nat /\ l \in SUBSET Refs
  BY DEF Types, Counts
<1> HIDE DEF m, l
<1>3. used' \in Counts
  BY <1>1, <1>2, Zenon DEF Counts
<1>4. /\ used'.fault = m /\ used'.restart = used.restart
      /\ used'.late = used.late /\ used'.lost = l
  BY <1>1 DEF Counts
<1> QED  BY <1>3, <1>4 DEF m, l

(* An entry of the AMF goes, or none.                                        *)
LEMMA AmfDropped ==
    ASSUME Types, NEW p, amf' = amf \/ amf' = [amf EXCEPT ![p] = None]
    PROVE  amf' \in [Psis -> 0..nref]
<1>1. amf \in [Psis -> 0..nref] /\ None \in 0..nref
  BY RefsAre DEF Types, None
<1> QED  BY <1>1

(* The AMF has its answer.                                                   *)
LEMMA IdleRequest ==
    ASSUME Types, req' = Idle, nref' = nref
    PROVE  req' \in Requests' /\ Serving'
  BY RefsAre DEF Types, Requests, Idle, Serving, None, AllMsgs, Answers

-----------------------------------------------------------------------------
(* The handlers.                                                             *)
(* A handler of the context r, made before, that leaves it as c and ends it k *)
(* times, of which n terminations fail.                                      *)
TypedStep ==
    /\ ipq' \in Seq(Ips) /\ rm' \in [Refs -> [BOOLEAN -> Nat]]
    /\ down' \in [todo : SUBSET (1..nref), cur : 0..nref]
    /\ sess' \in Seq(Refs \cup {None}) /\ sfree' \in Seq(DOMAIN sess')
    /\ amf' \in [Psis -> 0..nref] /\ req' \in Requests' /\ Serving'
    /\ owed' \in [Psis -> SUBSET Answers] /\ used' \in Counts
Handled(r, c, k, n) ==
    /\ ctx' = [ctx EXCEPT ![r] = c] /\ c.seid = ctx[r].seid /\ c.tun = ctx[r].tun
    /\ lock' = [lock EXCEPT ![r] = "free"]
    /\ UNCHANGED <<names, cb, pol, assoc>>
    /\ \A o \in Refs \ {r} : rm'[o] = rm[o]
    /\ sdm' = UnSubscribe(k) /\ pcf' = Terminated(r, k, n)
    /\ k = 0 => c.policy = ctx[r].policy
    /\ Pend(r)' => k > 0 \/ Pend(r)
    /\ Shrinks /\ used'.lost = used.lost /\ (used'.fault = 0 => used.fault = 0 /\ n = 0)
    /\ Faultless' => Faultless /\ down'.cur = down.cur
    /\ Faultless' /\ Ending(r)' => Ending(r) \/ Gone(r)'

(* A handler of this form keeps the invariant.                               *)
LEMMA HandlerKeeps ==
    ASSUME SessInv, Addresses', TypedStep, NEW r \in 1..nref, NEW c \in Ctx,
           NEW k \in Nat, NEW n \in Nat, lock[r] # "est", Handled(r, c, k, n)
    PROVE  SessInv'
<1>1. Types /\ r \in Refs /\ nref' = nref /\ pool' = pool /\ lock' = [lock EXCEPT ![r] = "free"]
      /\ cb' = cb /\ pol' = pol /\ canon' = canon /\ assoc' = assoc
  BY RefsAre DEF SessInv, Handled, names
<1>2. ctx' \in [Refs -> Ctx] /\ ctx'[r] = c /\ \A i \in Refs \ {r} : ctx'[i] = ctx[i]
  BY <1>1, CtxSet DEF Handled
<1>3. pcf' \subseteq pcf /\ sdm' \in Nat
  BY <1>1, Ended_ DEF Handled
<1>4. lock' \in [Refs -> Locks] /\ lock'[r] = "free" /\ \A i \in Refs \ {r} : lock'[i] = lock[i]
  BY <1>1 DEF Types, Locks
<1>5. Types'
  BY <1>1, <1>2, <1>3, <1>4 DEF Types, TypedStep
<1>6. Touch(r) /\ nref' = nref /\ pool' = pool /\ Shrinks
  BY <1>1, <1>2, <1>4 DEF Touch, Handled
<1>7. lock'[r] = "est" <=> lock[r] = "est"
  BY <1>4
<1>8. lock'[r] # "notify" /\ Serving'
  BY <1>4 DEF TypedStep
<1>9. ctx'[r].seid = ctx[r].seid /\ ctx'[r].tun = ctx[r].tun
  BY <1>2 DEF Handled
<1>10. /\ sdm' = UnSubscribe(k) /\ pcf' = Terminated(r, k, n)
       /\ (Pend(r)' => k > 0 \/ Pend(r))
       /\ used'.lost = used.lost /\ (used'.fault = 0 => used.fault = 0 /\ n = 0)
       /\ (Faultless' /\ Ending(r)' => Ending(r) \/ Gone(r)')
  BY DEF Handled
<1>11. k = 0 => ctx'[r].policy = ctx[r].policy
  BY <1>2 DEF Handled
<1>12. Faultless' => Faultless /\ assoc' = assoc /\ down'.cur = down.cur
  BY <1>1 DEF Handled
<1>13. EndStep(r, k, n)
  BY <1>6, <1>7, <1>8, <1>9, <1>10, <1>11, <1>12 DEF EndStep
<1> QED  BY <1>5, <1>8, <1>13, EndKeeps

(* A deletion without failure leaves no session of the context.              *)
LEMMA DeletedIsGone ==
    ASSUME SessInv, NEW r \in Refs, releaseSession(r, "ok"), Faultless
    PROVE  Gone(r)'
<1>1. assoc = "up" /\ r \notin used.lost /\ (~ctx[r].tun => Gone(r))
  BY DEF Clean, SessInv
<1>2. \A s \in DOMAIN sess : sess[s] = r => s = ctx[r].seid
  BY <1>1 DEF Seids, SessInv
<1> QED  BY <1>1, <1>2, Released DEF SessInv, Exchange

(* What a call that may fail n times and an exchange leave of used.          *)
LEMMA Counted ==
    ASSUME Types, NEW o \in Exchange, NEW n \in Nat, Fail(n + Lost(o))
    PROVE  /\ used' \in Counts /\ used'.lost = used.lost
           /\ (used'.fault = 0 => used.fault = 0 /\ n = 0 /\ o = "ok")
           /\ (Faultless' => Faultless /\ n = 0 /\ o = "ok")
<1>1. n + Lost(o) \in Nat /\ (n + Lost(o) = 0 => n = 0 /\ o = "ok") /\ used.fault \in Nat
  BY DEF Lost, Types, Counts
<1>2. /\ used' \in Counts /\ used'.fault = used.fault + (n + Lost(o)) /\ used'.restart = used.restart
      /\ used'.late = used.late /\ used'.lost = used.lost
  BY <1>1, Failed
<1>3. used'.fault = 0 => used.fault = 0 /\ n = 0 /\ o = "ok"
  BY <1>1, <1>2
<1> QED  BY <1>2, <1>3 DEF Faultless

(* The same without an exchange with the UPF.                                *)
LEMMA CountedCalls ==
    ASSUME Types, NEW n \in Nat, Fail(n)
    PROVE  /\ used' \in Counts /\ used'.lost = used.lost
           /\ (used'.fault = 0 => used.fault = 0 /\ n = 0)
           /\ (Faultless' => Faultless /\ n = 0)
<1>1. /\ used' \in Counts /\ used'.fault = used.fault + n /\ used'.restart = used.restart
      /\ used'.late = used.late /\ used'.lost = used.lost
  BY Failed
<1>2. used'.fault = 0 => used.fault = 0 /\ n = 0
  BY <1>1 DEF Types, Counts
<1> QED  BY <1>1, <1>2 DEF Faultless

(* The context a request of the AMF is for.                                  *)
LEMMA Served ==
    ASSUME SessInv, req.m \notin {"none", "New"}
    PROVE  req.ref \in 1..nref /\ req.ref \in Refs
  BY RefsAre DEF SessInv, Serving, Types, Requests, None

(* A lock that is free stays so.                                             *)
LEMMA LockFree ==
    ASSUME Types, NEW r \in Refs, lock[r] = "free"
    PROVE  [lock EXCEPT ![r] = "free"] = lock
  BY DEF Types

-----------------------------------------------------------------------------
LEMMA ReleaseKeeps ==
    ASSUME SessInv, NEW o \in Exchange, NEW n \in 0..2, Release(o, n)
    PROVE  SessInv'
<1>0. PICK r : r = req.ref
  OBVIOUS
<1> DEFINE y == PolicyKept(r, 2, n)
           c == [ctx[r] EXCEPT !.state = "InActive", !.t3592 = Off, !.policy = y]
<1>1. r \in 1..nref /\ r \in Refs /\ lock[r] = "free" /\ Types /\ n \in Nat
  BY <1>0, Served DEF Release, Handling, SessInv
<1>2. /\ n \in TermFails(r, 2) /\ Fail(n + Lost(o)) /\ releaseSession(r, o)
      /\ pcf' = Terminated(r, 2, n) /\ sdm' = UnSubscribe(2) /\ Spawn(r, FALSE, 1)
      /\ ctx' = [ctx EXCEPT ![r] = c]
      /\ amf' = IF Deleted(r, o) THEN [amf EXCEPT ![req.psi] = None] ELSE amf
      /\ req' = Idle /\ UNCHANGED <<names, ipq, lock, jobs, owed>>
  BY <1>0, <1>1 DEF Release, Types
<1>3. c \in Ctx /\ c.state = "InActive" /\ c.sel = ctx[r].sel /\ c.ip = ctx[r].ip
      /\ c.tun = ctx[r].tun /\ c.seid = ctx[r].seid
  <2>1. y \in BOOLEAN /\ ctx[r] \in Ctx /\ "InActive" \in States /\ Off \in 0..Off
    BY <1>1, SmfSessionAssumption DEF PolicyKept, Types, Ctx, States, Off
  <2> HIDE DEF y
  <2> QED  BY <2>1 DEF Ctx
<1> HIDE DEF c
<1>5. \A i \in Refs : ctx'[i].sel = ctx[i].sel /\ ctx'[i].ip = ctx[i].ip
  BY <1>1, <1>2, <1>3, CtxSet
<1>7. /\ used' \in Counts /\ used'.lost = used.lost
      /\ (used'.fault = 0 => used.fault = 0 /\ n = 0 /\ o = "ok")
      /\ (Faultless' => Faultless /\ n = 0 /\ o = "ok")
  BY <1>1, <1>2, Counted
<1>8. /\ rm' \in [Refs -> [BOOLEAN -> Nat]] /\ (\A i \in Refs \ {r} : rm'[i] = rm[i])
  BY <1>1, <1>2, Spawned
<1>9. /\ sess' \in Seq(Refs \cup {None}) /\ sfree' \in Seq(DOMAIN sess') /\ Shrinks
  BY <1>1, <1>2, Released
<1>11. amf' \in [Psis -> 0..nref]
  BY <1>1, <1>2, AmfDropped
<1>12. req' \in Requests' /\ Serving'
  BY <1>1, <1>2, IdleRequest DEF names
<1>13. TypedStep
  BY <1>1, <1>2, <1>7, <1>8, <1>9, <1>11, <1>12 DEF Types, jobs, TypedStep
<1>14. Addresses'
  BY <1>2, <1>5, AddressesKept DEF names, SessInv
<1>15. Faultless' => Gone(r)'
  BY <1>1, <1>2, <1>7, DeletedIsGone
<1>16. lock' = [lock EXCEPT ![r] = "free"] /\ UNCHANGED <<names, cb, pol, assoc>> /\ down' = down
  BY <1>1, <1>2, LockFree DEF jobs
<1>17. Handled(r, c, 2, n)
  <2>1. 2 # 0 /\ 2 > 0
    OBVIOUS
  <2> QED  BY <1>2, <1>3, <1>7, <1>8, <1>9, <1>15, <1>16, <2>1, Zenon DEF Handled
<1> QED
  BY <1>1, <1>3, <1>13, <1>14, <1>17, HandlerKeeps

LEMMA LocalReleaseKeeps ==
    ASSUME SessInv, NEW o \in Exchange, NEW n \in 0..2, LocalRelease(o, n)
    PROVE  SessInv'
<1>0. PICK r : r = req.ref
  OBVIOUS
<1>00. PICK k : k = IF Deleted(r, o) THEN 2 ELSE 1
  OBVIOUS
<1> DEFINE y == PolicyKept(r, k, n)
           x == IF k = 2 THEN "InActive" ELSE "Active"
           c == [ctx[r] EXCEPT !.policy = y, !.state = x]
<1>1. /\ r \in 1..nref /\ r \in Refs /\ lock[r] = "free" /\ Types /\ n \in Nat
      /\ k \in {1, 2} /\ k \in Nat /\ k - 1 \in Nat /\ k # 0 /\ k > 0 /\ req.m = "LocalRelease"
  BY <1>0, <1>00, Served DEF LocalRelease, SessInv
<1>2. /\ Fail(n + Lost(o)) /\ releaseSession(r, o)
      /\ pcf' = Terminated(r, k, n) /\ sdm' = UnSubscribe(k) /\ Spawn(r, FALSE, k - 1)
      /\ ctx' = [ctx EXCEPT ![r].policy = y, ![r].state = x]
      /\ req' = [req EXCEPT !.m = "New", !.ref = None]
      /\ UNCHANGED <<names, ipq, lock, jobs, amf, owed>>
  BY <1>0, <1>00, <1>1 DEF LocalRelease
<1>3. x \in States /\ y \in BOOLEAN /\ ctx[r] \in Ctx
  BY <1>1 DEF PolicyKept, Types, Ctx, States
<1> HIDE DEF x, y
<1>4. c \in Ctx /\ c.sel = ctx[r].sel /\ c.ip = ctx[r].ip
      /\ c.tun = ctx[r].tun /\ c.seid = ctx[r].seid
  BY <1>3 DEF Ctx
<1>5. ctx' = [ctx EXCEPT ![r] = c]
  BY <1>1, <1>2, <1>3 DEF Types
<1> HIDE DEF c
<1>6. \A i \in Refs : ctx'[i].sel = ctx[i].sel /\ ctx'[i].ip = ctx[i].ip
  BY <1>1, <1>4, <1>5, CtxSet
<1>7. /\ used' \in Counts /\ used'.lost = used.lost
      /\ (used'.fault = 0 => used.fault = 0 /\ n = 0 /\ o = "ok")
      /\ (Faultless' => Faultless /\ n = 0 /\ o = "ok")
  BY <1>1, <1>2, Counted
<1>8. /\ rm' \in [Refs -> [BOOLEAN -> Nat]] /\ (\A i \in Refs \ {r} : rm'[i] = rm[i])
  BY <1>1, <1>2, Spawned
<1>9. /\ sess' \in Seq(Refs \cup {None}) /\ sfree' \in Seq(DOMAIN sess') /\ Shrinks
  BY <1>1, <1>2, Released
<1>12. req' \in Requests' /\ Serving'
  <2>1. nref' = nref /\ nref < MaxRef /\ None \in 0..nref /\ req \in Requests
    BY <1>1, <1>2, RefsAre DEF SessInv, Types, Serving, names, None
  <2>2. req' \in Requests /\ req'.m = "New"
    BY <1>2, <2>1 DEF Requests
  <2> QED  BY <2>1, <2>2 DEF Requests, Serving
<1>13. TypedStep
  BY <1>1, <1>2, <1>7, <1>8, <1>9, <1>12 DEF Types, jobs, TypedStep
<1>14. Addresses'
  BY <1>2, <1>6, AddressesKept DEF names, SessInv
<1>15. Faultless' => Gone(r)'
  BY <1>1, <1>2, <1>7, DeletedIsGone
<1>16. lock' = [lock EXCEPT ![r] = "free"] /\ UNCHANGED <<names, cb, pol, assoc>> /\ down' = down
  BY <1>1, <1>2, LockFree DEF jobs
<1>17. Handled(r, c, k, n)
  BY <1>1, <1>2, <1>4, <1>5, <1>7, <1>8, <1>9, <1>15, <1>16, Zenon DEF Handled
<1> QED
  BY <1>1, <1>4, <1>13, <1>14, <1>17, HandlerKeeps

LEMMA DuplicateKeeps ==
    ASSUME SessInv, NEW o \in Exchange, NEW n \in 0..1, Duplicate(o, n)
    PROVE  SessInv'
<1>0. PICK r : r = req.ref
  OBVIOUS
<1> DEFINE y == PolicyKept(r, 1, n)
           c == [ctx[r] EXCEPT !.dup = TRUE, !.state = "InActive", !.policy = y]
           rel == ctx[r].state \in {"ActivePending", "ModificationPending", "Active"}
<1>1. r \in 1..nref /\ r \in Refs /\ lock[r] = "free" /\ Types /\ n \in Nat
  BY <1>0, Served DEF Duplicate, Handling, SessInv
<1>2. /\ Fail(n + Lost(o))
      /\ IF rel THEN releaseSession(r, o) ELSE UNCHANGED upf
      /\ pcf' = Terminated(r, 1, n) /\ sdm' = UnSubscribe(1) /\ Spawn(r, TRUE, 1)
      /\ ctx' = [ctx EXCEPT ![r].dup = TRUE, ![r].state = "InActive", ![r].policy = y]
      /\ amf' = amf \/ amf' = [amf EXCEPT ![req.psi] = None]
      /\ Owe(req.psi, {"RelRsp"}) \/ owed' = owed
      /\ req' = Idle /\ UNCHANGED <<names, ipq, lock, jobs>>
  BY <1>0, <1>1 DEF Duplicate
<1>3. y \in BOOLEAN /\ ctx[r] \in Ctx /\ "InActive" \in States
  BY <1>1 DEF PolicyKept, Types, Ctx, States
<1> HIDE DEF y
<1>4. c \in Ctx /\ c.sel = ctx[r].sel /\ c.ip = ctx[r].ip
      /\ c.tun = ctx[r].tun /\ c.seid = ctx[r].seid
  BY <1>3 DEF Ctx
<1>5. ctx' = [ctx EXCEPT ![r] = c]
  BY <1>1, <1>2, <1>3 DEF Types
<1> HIDE DEF c
<1>6. \A i \in Refs : ctx'[i].sel = ctx[i].sel /\ ctx'[i].ip = ctx[i].ip
  BY <1>1, <1>4, <1>5, CtxSet
<1>7. /\ used' \in Counts /\ used'.lost = used.lost
      /\ (used'.fault = 0 => used.fault = 0 /\ n = 0 /\ o = "ok")
      /\ (Faultless' => Faultless /\ n = 0 /\ o = "ok")
  BY <1>1, <1>2, Counted
<1>8. /\ rm' \in [Refs -> [BOOLEAN -> Nat]] /\ (\A i \in Refs \ {r} : rm'[i] = rm[i])
  BY <1>1, <1>2, Spawned
<1>9. /\ sess' \in Seq(Refs \cup {None}) /\ sfree' \in Seq(DOMAIN sess') /\ Shrinks
  <2>1. CASE rel
    BY <1>1, <1>2, <2>1, Released
  <2>2. CASE ~rel
    BY <1>1, <1>2, <2>2 DEF upf, Types, Shrinks
  <2> QED  BY <2>1, <2>2
<1>10. amf' \in [Psis -> 0..nref]
  BY <1>1, <1>2, AmfDropped
<1>11. owed' \in [Psis -> SUBSET Answers]
  BY <1>1, <1>2, OweType DEF Answers, Types
<1>12. req' \in Requests' /\ Serving'
  BY <1>1, <1>2, IdleRequest DEF names
<1>13. TypedStep
  BY <1>1, <1>2, <1>7, <1>8, <1>9, <1>10, <1>11, <1>12 DEF Types, jobs, TypedStep
<1>14. Addresses'
  BY <1>2, <1>6, AddressesKept DEF names, SessInv
<1>15. Faultless' => Ending(r) \/ Gone(r)'
  <2>1. CASE rel
    BY <1>1, <1>2, <1>7, <2>1, DeletedIsGone
  <2>2. CASE ~rel
    BY <1>1, <2>2 DEF Types, Ctx, States, Ending
  <2> QED  BY <2>1, <2>2
<1>16. lock' = [lock EXCEPT ![r] = "free"] /\ UNCHANGED <<names, cb, pol, assoc>> /\ down' = down
  BY <1>1, <1>2, LockFree DEF jobs
<1>17. Handled(r, c, 1, n)
  <2>1. 1 # 0 /\ 1 > 0
    OBVIOUS
  <2> QED  BY <1>2, <1>4, <1>5, <1>7, <1>8, <1>9, <1>15, <1>16, <2>1, Zenon DEF Handled
<1> QED
  BY <1>1, <1>4, <1>13, <1>14, <1>17, HandlerKeeps

(* The address of a context goes back to the queue.                          *)
LEMMA Freed ==
    ASSUME Types, Addresses, NEW r \in Refs, ipq' = FreeIp(r),
           \A i \in Refs, ip \in Ips : Holds(i, ip)' <=> Holds(i, ip) /\ i # r,
           \A i \in Refs : i \notin pool' => ~ctx'[i].sel
    PROVE  ipq' \in Seq(Ips) /\ Addresses'
<1>0. ipq \in Seq(Ips) /\ ctx[r] \in Ctx /\ None \notin Ips
  BY SmfSessionAssumption DEF Types, None
<1>1. CASE ctx[r].sel /\ ctx[r].ip # None
  <2>1. PICK ip : ip = ctx[r].ip
    OBVIOUS
  <2>2. ip \in Ips /\ Holds(r, ip) /\ ipq' = Append(ipq, ip)
    BY <1>0, <1>1, <2>1 DEF Ctx, FreeIp, Addresses, Holds
  <2>3. /\ ipq' \in Seq(Ips) /\ Len(ipq') = Len(ipq) + 1 /\ ipq'[Len(ipq) + 1] = ip
        /\ DOMAIN ipq' = 1..(Len(ipq) + 1) /\ DOMAIN ipq = 1..Len(ipq) /\ Len(ipq) \in Nat
        /\ \A i \in DOMAIN ipq : ipq'[i] = ipq[i] /\ ipq[i] \in Ips
    BY <1>0, <2>2
  <2>4. \A i \in DOMAIN ipq : ipq[i] # ip
    BY <2>2 DEF Addresses
  <2>5. \A i \in DOMAIN ipq' : i \in DOMAIN ipq \/ i = Len(ipq) + 1
    BY <2>3
  <2>6. Len(ipq) + 1 \in DOMAIN ipq' /\ \A i \in DOMAIN ipq : i \in DOMAIN ipq'
    BY <2>3
  <2>7. \A i \in Refs : Holds(i, ip) => i = r
    BY <2>2 DEF Addresses
  <2> HIDE DEF Holds
  <2>8. \A i, j \in DOMAIN ipq' : ipq'[i] = ipq'[j] => i = j
    BY <2>3, <2>4, <2>5, ZenonT(30) DEF Addresses
  <2>9. \A i \in DOMAIN ipq' : \A q \in Refs : ~Holds(q, ipq[i])'
    <3> SUFFICES ASSUME NEW i \in DOMAIN ipq', NEW q \in Refs PROVE ~Holds(q, ipq[i])'
      OBVIOUS
    <3>1. PICK z : z = ipq'[i]
      OBVIOUS
    <3>2. z \in Ips
      BY <2>2, <2>3, <2>5, <3>1
    <3>3. ~(Holds(q, z) /\ q # r)
      BY <2>3, <2>5, <2>7, <3>1, Zenon DEF Addresses
    <3>4. ~(q \in pool' /\ ctx'[q].sel /\ ctx'[q].ip = z)
      BY <3>2, <3>3 DEF Holds
    <3> QED  BY <3>1, <3>4 DEF Holds
  <2>10. \A a \in Ips : (\E i \in DOMAIN ipq' : ipq'[i] = a) \/ (\E q \in Refs : Holds(q, a)')
    <3> SUFFICES ASSUME NEW a \in Ips
                 PROVE  (\E i \in DOMAIN ipq' : ipq'[i] = a) \/ (\E q \in Refs : Holds(q, a)')
      OBVIOUS
    <3>1. CASE \E i \in DOMAIN ipq : ipq[i] = a
      BY <3>1, <2>3, <2>6
    <3>2. CASE \E q \in Refs : Holds(q, a)
      <4>1. PICK q \in Refs : Holds(q, a)
        BY <3>2
      <4>2. CASE q = r
        BY <4>1, <4>2, <2>1, <2>3, <2>6 DEF Holds
      <4>3. CASE q # r
        BY <4>1, <4>3
      <4> QED  BY <4>2, <4>3
    <3> QED  BY <3>1, <3>2 DEF Addresses
  <2>11. \A a \in Ips : \A q, s \in Refs : Holds(q, a)' /\ Holds(s, a)' => q = s
    BY DEF Addresses
  <2> QED  BY <2>3, <2>8, <2>9, <2>10, <2>11 DEF Addresses
<1>2. CASE ~(ctx[r].sel /\ ctx[r].ip # None)
  <2>1. ipq' = ipq
    BY <1>2 DEF FreeIp
  <2>2. \A a \in Ips : ~Holds(r, a)
    BY <1>0, <1>2 DEF Holds
  <2>3. \A i \in Refs, ip \in Ips : Holds(i, ip)' <=> Holds(i, ip)
    BY <2>2
  <2>4. \A i \in DOMAIN ipq : ipq[i] \in Ips
    BY <1>0
  <2>5. \A i \in DOMAIN ipq' : \A q \in Refs : ~Holds(q, ipq[i])'
    <3> SUFFICES ASSUME NEW i \in DOMAIN ipq', NEW q \in Refs PROVE ~Holds(q, ipq[i])'
      OBVIOUS
    <3>1. PICK z : z = ipq'[i]
      OBVIOUS
    <3>2. z \in Ips /\ ~Holds(q, z)
      BY <2>1, <2>4, <3>1 DEF Addresses
    <3>4. ~(q \in pool' /\ ctx'[q].sel /\ ctx'[q].ip = z)
      BY <2>3, <3>2 DEF Holds
    <3> QED  BY <3>1, <3>4 DEF Holds
  <2> HIDE DEF Holds
  <2> QED  BY <1>0, <2>1, <2>3, <2>5, Zenon DEF Addresses
<1> QED  BY <1>1, <1>2

LEMMA ReleaseRequestKeeps ==
    ASSUME SessInv, NEW o \in Exchange, NEW n \in 0..2, ReleaseRequest(o, n)
    PROVE  SessInv'
<1>0. PICK r : r = req.ref
  OBVIOUS
<1>00. PICK k : k = Removals(r, 0)
  OBVIOUS
<1> DEFINE a == IF ctx[r].ip # None /\ ctx[r].sel THEN None ELSE ctx[r].ip
           x == IF Deleted(r, o) THEN "InActivePending" ELSE "Active"
           t == IF MaxRetry > 0 THEN 0 ELSE Off
           y == ctx[r].policy /\ n = k + 1
           b == [ctx[r] EXCEPT !.ip = a, !.state = x, !.t3592 = t]
           c == [b EXCEPT !.policy = y]
           d == Ended(c, k, n)
<1>1. /\ r \in 1..nref /\ r \in Refs /\ lock[r] = "free" /\ Types /\ n \in Nat
      /\ k \in Nat /\ k + 1 \in Nat /\ k + 1 # 0 /\ k + 1 > 0
  BY <1>0, <1>00, Served DEF ReleaseRequest, Handling, SessInv, Removals
<1>3. a \in Ips \cup {None} /\ x \in States /\ t \in 0..Off /\ y \in BOOLEAN /\ ctx[r] \in Ctx
  BY <1>1, SmfSessionAssumption DEF Types, Ctx, States, Off
<1>31. b.policy = ctx[r].policy
  BY <1>3 DEF Ctx
<1>2. /\ Fail(n + Lost(o)) /\ releaseSession(r, o) /\ ipq' = FreeIp(r)
      /\ pcf' = Terminated(r, k + 1, n) /\ sdm' = UnSubscribe(k + 1) /\ Spawn(r, TRUE, k)
      /\ ctx' = [ctx EXCEPT ![r] = d]
      /\ (\E A \in SUBSET Answers : Owe(req.psi, A)) \/ owed' = owed
      /\ req' = Idle /\ UNCHANGED <<names, lock, jobs, amf>>
  <2>1. ctx' = [ctx EXCEPT ![r] = d]
    BY <1>0, <1>00, <1>31 DEF ReleaseRequest
  <2>2. (\E A \in SUBSET Answers : Owe(req.psi, A)) \/ owed' = owed
    <3>1. CASE Deleted(r, o)
      <4>1. PICK A : A = {"Complete"} \cup IF ctx[r].up = "ACTIVATED" THEN {"RelRsp"} ELSE {}
        OBVIOUS
      <4>2. Owe(req.psi, A) /\ A \in SUBSET Answers
        BY <1>0, <3>1, <4>1 DEF ReleaseRequest, Answers
      <4> QED  BY <4>2
    <3>2. CASE ~Deleted(r, o)
      BY <1>0, <3>2 DEF ReleaseRequest
    <3> QED  BY <3>1, <3>2
  <2> HIDE DEF d
  <2> QED  BY <1>0, <1>00, <1>1, <2>1, <2>2 DEF ReleaseRequest
<1> HIDE DEF a, x, t, y
<1>4. c \in Ctx /\ c.sel = ctx[r].sel /\ c.ip = a
      /\ c.tun = ctx[r].tun /\ c.seid = ctx[r].seid
  BY <1>3 DEF Ctx
<1> HIDE DEF b, c
<1>5. d \in Ctx /\ d.sel = ctx[r].sel /\ d.ip = a
      /\ d.tun = ctx[r].tun /\ d.seid = ctx[r].seid
  <2>1. PICK e : e = c
    OBVIOUS
  <2>2. PICK f : f = Ended(e, k, n)
    OBVIOUS
  <2>3. e \in Ctx /\ e.sel = ctx[r].sel /\ e.ip = a /\ e.tun = ctx[r].tun /\ e.seid = ctx[r].seid
    BY <1>4, <2>1
  <2>6. e \in Ctx /\ k \in Nat /\ n \in Nat
    BY <1>1, <2>3
  <2>4. f \in Ctx /\ f.sel = e.sel /\ f.ip = e.ip /\ f.tun = e.tun /\ f.seid = e.seid
    BY <2>2, <2>6, EndedIs DEF EndedOf
  <2>5. d = f
    BY <2>1, <2>2
  <2> HIDE DEF d
  <2> QED  BY <2>3, <2>4, <2>5
<1> HIDE DEF d
<1>6. ctx'[r] = d /\ \A i \in Refs \ {r} : ctx'[i] = ctx[i]
  BY <1>1, <1>2, <1>5, CtxSet
<1>7. /\ used' \in Counts /\ used'.lost = used.lost
      /\ (used'.fault = 0 => used.fault = 0 /\ n = 0 /\ o = "ok")
      /\ (Faultless' => Faultless /\ n = 0 /\ o = "ok")
  BY <1>1, <1>2, Counted
<1>8. /\ rm' \in [Refs -> [BOOLEAN -> Nat]] /\ (\A i \in Refs \ {r} : rm'[i] = rm[i])
  BY <1>1, <1>2, Spawned
<1>9. /\ sess' \in Seq(Refs \cup {None}) /\ sfree' \in Seq(DOMAIN sess') /\ Shrinks
  BY <1>1, <1>2, Released
<1>11. owed' \in [Psis -> SUBSET Answers]
  BY <1>1, <1>2, OweType DEF Types
<1>12. req' \in Requests' /\ Serving'
  BY <1>1, <1>2, IdleRequest DEF names
<1>14. ipq' \in Seq(Ips) /\ Addresses'
  <2>1. pool' = pool /\ None \notin Ips /\ Addresses
    BY <1>2, SmfSessionAssumption DEF names, None, SessInv
  <2>2. \A i \in Refs, ip \in Ips : Holds(i, ip)' <=> Holds(i, ip) /\ i # r
    BY <1>5, <1>6, <2>1 DEF Holds, a
  <2>3. \A i \in Refs : i \notin pool' => ~ctx'[i].sel
    BY <1>5, <1>6, <2>1 DEF Addresses
  <2> QED  BY <1>1, <1>2, <2>1, <2>2, <2>3, Freed
<1>13. TypedStep
  BY <1>1, <1>2, <1>7, <1>8, <1>9, <1>11, <1>12, <1>14 DEF Types, jobs, TypedStep
<1>15. Faultless' => Gone(r)'
  BY <1>1, <1>2, <1>7, DeletedIsGone
<1>16. lock' = [lock EXCEPT ![r] = "free"] /\ UNCHANGED <<names, cb, pol, assoc>> /\ down' = down
  BY <1>1, <1>2, LockFree DEF jobs
<1>17. Handled(r, d, k + 1, n)
  BY <1>1, <1>2, <1>5, <1>7, <1>8, <1>9, <1>15, <1>16, Zenon DEF Handled
<1> QED
  BY <1>1, <1>5, <1>13, <1>14, <1>17, HandlerKeeps

(* An Update that leaves the UPF alone: the context becomes b, and is ended   *)
(* k times.                                                                  *)
LEMMA UpdateKeeps ==
    ASSUME SessInv, NEW r \in 1..nref, lock[r] = "free", NEW b \in Ctx,
           b.sel = ctx[r].sel, b.ip = ctx[r].ip, b.tun = ctx[r].tun, b.seid = ctx[r].seid,
           b.policy = ctx[r].policy, NEW k \in Nat, NEW n \in Nat, EndUpdate(r, k, n),
           ctx' = [ctx EXCEPT ![r] = Ended(b, k, n)],
           used' \in Counts, used'.lost = used.lost, used'.fault = 0 => used.fault = 0 /\ n = 0,
           Faultless' => Faultless, owed' \in [Psis -> SUBSET Answers],
           UNCHANGED <<names, ipq, lock, jobs, upf, amf>>,
           Faultless' /\ Ending(r)' => Ending(r)
    PROVE  SessInv'
<1>1. Types /\ r \in Refs /\ Addresses
  BY RefsAre DEF SessInv
<1>2. PICK d : d = Ended(b, k, n)
  OBVIOUS
<1>3. /\ d \in Ctx /\ d.sel = b.sel /\ d.ip = b.ip /\ d.tun = b.tun /\ d.seid = b.seid
      /\ (k = 0 => d = b)
  <2>1. EndedOf(b, k, d)
    BY <1>2, EndedIs
  <2> QED  BY <2>1 DEF EndedOf
<1>4. ctx' = [ctx EXCEPT ![r] = d]
  BY <1>2
<1>5. \A i \in Refs : ctx'[i].sel = ctx[i].sel /\ ctx'[i].ip = ctx[i].ip
  BY <1>1, <1>3, <1>4, CtxSet
<1>6. /\ rm' \in [Refs -> [BOOLEAN -> Nat]] /\ (\A i \in Refs \ {r} : rm'[i] = rm[i])
      /\ (Pend(r)' <=> Pend(r) \/ k > 0)
      /\ sdm' = UnSubscribe(k) /\ pcf' = Terminated(r, k, n) /\ req' = Idle
  BY <1>1, EndedUpdate
<1>7. Addresses'
  BY <1>1, <1>5, AddressesKept DEF names
<1>8. req' \in Requests' /\ Serving'
  BY <1>1, <1>6, IdleRequest DEF names
<1>9. TypedStep /\ Shrinks
  BY <1>1, <1>6, <1>8 DEF Types, jobs, upf, TypedStep, Shrinks
<1>10. lock' = [lock EXCEPT ![r] = "free"] /\ UNCHANGED <<names, cb, pol, assoc>> /\ down' = down
  BY <1>1, LockFree DEF jobs
<1>11. /\ d.seid = ctx[r].seid /\ d.tun = ctx[r].tun /\ (k = 0 => d.policy = ctx[r].policy)
  BY <1>3
<1>12. (Pend(r)' => k > 0 \/ Pend(r)) /\ (Faultless' /\ Ending(r)' => Ending(r) \/ Gone(r)')
  BY <1>6
<1>13. Handled(r, d, k, n)
  BY <1>4, <1>6, <1>9, <1>10, <1>11, <1>12, Zenon DEF Handled
<1> QED  BY <1>3, <1>7, <1>9, <1>13, HandlerKeeps

LEMMA ReleaseCompleteKeeps ==
    ASSUME SessInv, NEW n \in 0..2, ReleaseComplete(n)
    PROVE  SessInv'
<1>0. PICK r : r = req.ref
  OBVIOUS
<1>00. PICK k : k = Removals(r, IF ctx[r].an THEN 0 ELSE 1)
  OBVIOUS
<1>01. PICK b : b = [ctx[r] EXCEPT !.state = "InActive", !.t3592 = Off]
  OBVIOUS
<1>1. /\ r \in 1..nref /\ r \in Refs /\ lock[r] = "free" /\ Types /\ n \in Nat /\ k \in Nat
  BY <1>0, <1>00, Served DEF ReleaseComplete, Handling, SessInv, Removals
<1>2. /\ used' = [used EXCEPT !.fault = @ + n, !.late = @ \/ ctx[r].state # "InActivePending"]
      /\ EndUpdate(r, k, n) /\ ctx' = [ctx EXCEPT ![r] = Ended(b, k, n)]
      /\ UNCHANGED <<names, ipq, lock, jobs, upf, amf, owed>>
  BY <1>0, <1>00, <1>01 DEF ReleaseComplete
<1>3. b \in Ctx /\ b.sel = ctx[r].sel /\ b.ip = ctx[r].ip /\ b.tun = ctx[r].tun
      /\ b.seid = ctx[r].seid /\ b.policy = ctx[r].policy
  <2>1. ctx[r] \in Ctx /\ "InActive" \in States /\ Off \in 0..Off
    BY <1>1, SmfSessionAssumption DEF Types, States, Off
  <2> QED  BY <1>01, <2>1 DEF Ctx
<1>4. /\ used' \in Counts /\ used'.lost = used.lost
      /\ (used'.fault = 0 => used.fault = 0 /\ n = 0)
      /\ (Faultless' => Faultless /\ ctx[r].state = "InActivePending")
  <2>1. PICK m : m = used.fault + n
    OBVIOUS
  <2>2. PICK l : l = (used.late \/ ctx[r].state # "InActivePending")
    OBVIOUS
  <2>3. used \in Counts /\ m \in Nat /\ l \in BOOLEAN /\ used.fault \in Nat
    BY <1>1, <2>1, <2>2 DEF Types, Counts
  <2>4. used' = [used EXCEPT !.fault = m, !.late = l]
    BY <1>2, <2>1, <2>2
  <2>5. used' \in Counts
    BY <2>3, <2>4, Zenon DEF Counts
  <2>6. /\ used'.lost = used.lost /\ used'.fault = m /\ used'.restart = used.restart /\ used'.late = l
    BY <2>3, <2>4 DEF Counts
  <2>7. m = 0 => used.fault = 0 /\ n = 0
    BY <1>1, <2>1, <2>3
  <2>8. ~l => ~used.late /\ ctx[r].state = "InActivePending"
    BY <2>2
  <2> QED  BY <2>5, <2>6, <2>7, <2>8 DEF Faultless
<1>5. owed' \in [Psis -> SUBSET Answers]
  BY <1>1, <1>2 DEF Types
<1>6. Faultless' /\ Ending(r)' => Ending(r)
  BY <1>4 DEF Ending
<1> QED  BY <1>1, <1>2, <1>3, <1>4, <1>5, <1>6, UpdateKeeps

LEMMA ResourceReleaseResponseKeeps ==
    ASSUME SessInv, NEW n \in 0..2, ResourceReleaseResponse(n)
    PROVE  SessInv'
<1>0. PICK r : r = req.ref
  OBVIOUS
<1>00. PICK k : k = Removals(r, IF ctx[r].state = "InActive" THEN 1 ELSE 0)
  OBVIOUS
<1>02. PICK s : s = IF ctx[r].state = "ModificationPending" THEN "Active" ELSE ctx[r].state
  OBVIOUS
<1>01. PICK b : b = [ctx[r] EXCEPT !.an = FALSE, !.state = s]
  OBVIOUS
<1>1. /\ r \in 1..nref /\ r \in Refs /\ lock[r] = "free" /\ Types /\ n \in Nat /\ k \in Nat
  BY <1>0, <1>00, Served DEF ResourceReleaseResponse, Handling, SessInv, Removals
<1>2. /\ Fail(n)
      /\ EndUpdate(r, k, n) /\ ctx' = [ctx EXCEPT ![r] = Ended(b, k, n)]
      /\ UNCHANGED <<names, ipq, lock, jobs, upf, amf, owed>>
  BY <1>0, <1>00, <1>01, <1>02 DEF ResourceReleaseResponse
<1>3. b \in Ctx /\ b.sel = ctx[r].sel /\ b.ip = ctx[r].ip /\ b.tun = ctx[r].tun
      /\ b.seid = ctx[r].seid /\ b.policy = ctx[r].policy /\ b.state = s /\ b.dup = ctx[r].dup
  <2>1. ctx[r] \in Ctx /\ s \in States
    BY <1>1, <1>02 DEF Types, States, Ctx
  <2> QED  BY <1>01, <2>1 DEF Ctx
<1>4. /\ used' \in Counts /\ used'.lost = used.lost
      /\ (used'.fault = 0 => used.fault = 0 /\ n = 0)
      /\ (Faultless' => Faultless)
  BY <1>1, <1>2, CountedCalls
<1>5. owed' \in [Psis -> SUBSET Answers]
  BY <1>1, <1>2 DEF Types
<1>6. Faultless' /\ Ending(r)' => Ending(r)
  <2>1. CASE k # 0
    <3>1. ctx[r].dup \/ ctx[r].state = "InActive"
      BY <1>00, <2>1 DEF Removals
    <3> QED  BY <3>1 DEF Ending
  <2>2. CASE k = 0
    <3>1. ctx'[r] = b
      BY <1>1, <1>2, <1>3, <2>2, CtxSet DEF Ended
    <3>2. (Pend(r)' => Pend(r)) /\ pool' = pool
      BY <1>1, <1>2, <2>2, EndedUpdate DEF names
    <3> QED  BY <1>3, <1>02, <3>1, <3>2 DEF Ending
  <2> QED  BY <2>1, <2>2
<1> QED  BY <1>1, <1>2, <1>3, <1>4, <1>5, <1>6, UpdateKeeps

LEMMA ModifyKeeps ==
    ASSUME SessInv, NEW m, NEW n \in 0..1, Modify(m, n)
    PROVE  SessInv'
<1>0. PICK r : r = req.ref
  OBVIOUS
<1> DEFINE skip == m = "Deactivated" /\ ctx[r].state = "InActivePending"
           up == CASE m = "SetupRsp" -> "ACTIVATED"
                   [] m = "Activating" -> "ACTIVATING"
                   [] OTHER -> "DEACTIVATED"
           an == m = "SetupRsp" \/ ctx[r].an
           c == [ctx[r] EXCEPT !.state = "Active", !.an = an, !.up = up]
<1>00. PICK k : k = IF skip THEN 0 ELSE Removals(r, 0)
  OBVIOUS
<1>01. PICK b : b = IF skip THEN ctx[r] ELSE c
  OBVIOUS
<1>1. /\ r \in 1..nref /\ r \in Refs /\ lock[r] = "free" /\ Types /\ n \in Nat /\ k \in Nat
      /\ ctx[r] \in Ctx
  <2>1. m \in {"SetupRsp", "Activating", "Deactivated"} /\ Handling(m)
    BY DEF Modify
  <2> QED  BY SMTT(30), <1>0, <1>00, <2>1, Served DEF Handling, SessInv, Removals, Types
<1>2. /\ Fail(n) /\ EndUpdate(r, k, n)
      /\ ctx' = IF skip THEN ctx ELSE [ctx EXCEPT ![r] = Ended(c, k, n)]
      /\ Owe(req.psi, {"SetupRsp"}) \/ owed' = owed
      /\ UNCHANGED <<names, ipq, lock, jobs, upf, amf>>
  BY <1>0, <1>00 DEF Modify
<1>3. up \in {"none", "ACTIVATED", "ACTIVATING", "DEACTIVATED"} /\ an \in BOOLEAN /\ "Active" \in States
  BY <1>1 DEF Ctx, States
<1> HIDE DEF up, an
<1>4. c \in Ctx /\ c.sel = ctx[r].sel /\ c.ip = ctx[r].ip /\ c.tun = ctx[r].tun
      /\ c.seid = ctx[r].seid /\ c.policy = ctx[r].policy /\ c.state = "Active" /\ c.dup = ctx[r].dup
  BY <1>1, <1>3 DEF Ctx
<1> HIDE DEF c
<1>5. b \in Ctx /\ b.sel = ctx[r].sel /\ b.ip = ctx[r].ip /\ b.tun = ctx[r].tun
      /\ b.seid = ctx[r].seid /\ b.policy = ctx[r].policy
  BY <1>1, <1>01, <1>4
<1>6. ctx' = [ctx EXCEPT ![r] = Ended(b, k, n)]
  <2>1. CASE skip
    <3>1. Ended(b, k, n) = ctx[r]
      BY <1>00, <1>01, <2>1 DEF Ended
    <3> QED  BY <1>1, <1>2, <2>1, <3>1 DEF Types
  <2>2. CASE ~skip
    BY <1>01, <1>2, <2>2
  <2> QED  BY <2>1, <2>2
<1>7. /\ used' \in Counts /\ used'.lost = used.lost
      /\ (used'.fault = 0 => used.fault = 0 /\ n = 0)
      /\ (Faultless' => Faultless)
  BY <1>1, <1>2, CountedCalls
<1>8. owed' \in [Psis -> SUBSET Answers]
  BY <1>1, <1>2, OweType DEF Answers, Types
<1>9. Faultless' /\ Ending(r)' => Ending(r)
  <2>1. CASE skip
    BY <2>1 DEF Ending
  <2>2. CASE ~skip /\ k # 0
    <3>1. ctx[r].dup
      BY <1>00, <2>2 DEF Removals
    <3> QED  BY <3>1 DEF Ending
  <2>3. CASE ~skip /\ k = 0
    <3>1. ctx'[r] = c
      BY <1>1, <1>2, <1>4, <2>3, CtxSet DEF Ended
    <3>2. (Pend(r)' => Pend(r)) /\ pool' = pool
      BY <1>1, <1>2, <2>3, EndedUpdate DEF names
    <3> QED  BY <1>4, <3>1, <3>2 DEF Ending
  <2> QED  BY <2>1, <2>2, <2>3
<1> HIDE DEF skip
<1> QED  BY <1>1, <1>2, <1>5, <1>6, <1>7, <1>8, <1>9, UpdateKeeps

-----------------------------------------------------------------------------
(* The goroutines that run on their own.                                     *)

(* Nothing ends: no call to UDM or PCF is the same as none of them.          *)
LEMMA NothingEnds ==
    ASSUME Types, NEW r, UNCHANGED <<sdm, pcf>>
    PROVE  sdm' = UnSubscribe(0) /\ pcf' = Terminated(r, 0, 0)
<1>1. ~(0 < 0)
  OBVIOUS
<1>2. Terminated(r, 0, 0) = pcf
  BY <1>1 DEF Terminated
<1> QED  BY <1>2, Ended_

(* What these goroutines leave of the session of a context.                  *)
LEMMA LockStep ==
    ASSUME SessInv, NEW r \in Refs, NEW c \in Ctx, ctx' = [ctx EXCEPT ![r] = c],
           NEW w \in Locks, lock' = [lock EXCEPT ![r] = w], w # "est" \/ w = lock[r], lock[r] = "est" => w = "est",
           w = "notify" => rm[r][TRUE] > 0,
           cb' \in [Refs -> SUBSET {"retry", "cancel"}], \A o \in Refs \ {r} : cb'[o] = cb[o], r <= nref,
           c.sel = ctx[r].sel, c.ip = ctx[r].ip, c.tun = ctx[r].tun, c.seid = ctx[r].seid,
           c.policy = ctx[r].policy, c.state = ctx[r].state, c.dup = ctx[r].dup,
           UNCHANGED <<names, ipq, rm, pol, down, assoc, upf, pcf, sdm, req>>,
           amf' \in [Psis -> 0..nref], owed' \in [Psis -> SUBSET Answers],
           used' \in Counts, used'.lost = used.lost, used'.fault = 0 => used.fault = 0, Faultless' => Faultless
    PROVE  SessInv'
<1>1. Types /\ r \in 1..nref /\ Addresses /\ Serving
  BY RefsAre DEF SessInv, Refs
<1>2. ctx' \in [Refs -> Ctx] /\ ctx'[r] = c /\ \A i \in Refs \ {r} : ctx'[i] = ctx[i]
  BY <1>1, CtxSet
<1>3. lock' \in [Refs -> Locks] /\ lock'[r] = w /\ \A i \in Refs \ {r} : lock'[i] = lock[i]
  BY <1>1 DEF Types
<1>4. nref' = nref /\ pool' = pool /\ canon' = canon /\ sess' = sess /\ sfree' = sfree
  BY DEF names, upf
<1>5. Types'
  BY <1>1, <1>2, <1>3, <1>4 DEF Types, Requests
<1>6. Addresses' /\ Serving'
  <2>1. \A i \in Refs : ctx'[i].sel = ctx[i].sel /\ ctx'[i].ip = ctx[i].ip
    BY <1>2
  <2> QED  BY <1>1, <1>4, <2>1, AddressesKept DEF Serving
<1>7. Touch(r) /\ Shrinks
  BY <1>1, <1>2, <1>3, <1>4 DEF Touch, Shrinks
<1>8. lock'[r] = "est" <=> lock[r] = "est"
  BY <1>3
<1>9. lock'[r] = "notify" => rm'[r][TRUE] > 0
  BY <1>3
<1>10. /\ ctx'[r].seid = ctx[r].seid /\ ctx'[r].tun = ctx[r].tun
       /\ ctx'[r].state = ctx[r].state /\ ctx'[r].dup = ctx[r].dup
       /\ ctx'[r].policy = ctx[r].policy /\ rm' = rm /\ assoc' = assoc /\ down' = down
  BY <1>2
<1>11. sdm' = UnSubscribe(0) /\ pcf' = Terminated(r, 0, 0)
  BY <1>1, NothingEnds
<1>12. Pend(r)' <=> Pend(r)
  BY <1>10 DEF Pend
<1>13. Ending(r)' => Ending(r)
  BY <1>4, <1>10, <1>12 DEF Ending
<1>14. EndStep(r, 0, 0)
  BY <1>4, <1>7, <1>8, <1>9, <1>10, <1>11, <1>12, <1>13, Zenon DEF EndStep
<1> QED  BY <1>1, <1>5, <1>6, <1>14, EndKeeps

(* The contexts that have callers are made.                                  *)
LEMMA MadeCaller ==
    ASSUME SessInv, NEW r \in Refs, NEW w, w \in Caller(r)
    PROVE  /\ r <= nref /\ w \in Locks /\ w # "est"
           /\ (w = "notify" => rm[r][TRUE] > 0)
<1>0. Types /\ Fresh
  BY DEF SessInv
<1>01. /\ rm \in [Refs -> [BOOLEAN -> Nat]] /\ cb \in [Refs -> SUBSET {"retry", "cancel"}]
       /\ pol \subseteq 1..nref /\ down \in [todo : SUBSET (1..nref), cur : 0..nref]
       /\ nref \in Nat
  BY <1>0, RefsAre DEF Types
<1>02. r \in Nat /\ down.cur \in 0..nref
  BY <1>01 DEF Refs
<1>03. rm[r][TRUE] \in Nat /\ cb[r] \subseteq {"retry", "cancel"}
  BY <1>01
<1>1. /\ rm[r][TRUE] \in Nat /\ cb[r] \subseteq {"retry", "cancel"}
      /\ pol \subseteq 1..nref /\ down.cur \in 0..nref /\ nref \in Nat /\ r \in Nat
  BY <1>01, <1>02, <1>03
<1>2. PICK x : x = rm[r][TRUE]
  OBVIOUS
<1>21. x \in Nat
  BY <1>1, <1>2, Zenon
<1>3. CASE w \in {"notify" : i \in 1..x}
  <2>1. PICK i \in 1..x : w = "notify"
    BY <1>3, Zenon
  <2>2. x > 0
    BY <1>21, <2>1
  <2>3. rm[r][TRUE] > 0
    BY <1>2, <2>2, Zenon
  <2>4. r > nref => rm[r][TRUE] = 0
    BY <1>0 DEF Fresh
  <2>5. ~(r > nref)
    <3>1. ~(x = 0)
      BY <1>21, <2>2
    <3> QED  BY <1>2, <2>4, <3>1, Zenon
  <2>6. r <= nref
    BY <1>01, <1>02, <2>5
  <2>7. w \in Locks /\ w # "est"
    BY <2>1 DEF Locks
  <2> QED  BY <2>3, <2>6, <2>7, Zenon
<1>4. CASE w \in cb[r]
  <2>1. ~(r > nref)
    BY <1>0, <1>4 DEF Fresh
  <2>2. w = "retry" \/ w = "cancel"
    BY <1>1, <1>4
  <2>3. r <= nref
    BY <1>01, <1>02, <2>1
  <2>4. w \in Locks /\ w # "est" /\ w # "notify"
    BY <2>2 DEF Locks
  <2> QED  BY <2>3, <2>4, Zenon
<1>5. CASE w = "policy" /\ r \in pol
  BY <1>1, <1>5 DEF Locks
<1>6. CASE w = "down" /\ down.cur = r
  BY <1>1, <1>6 DEF Locks
<1> QED  BY <1>2, <1>3, <1>4, <1>5, <1>6 DEF Caller

LEMMA TakeLockKeeps ==
    ASSUME SessInv, NEW r \in Refs, NEW w, TakeLock(r, w)
    PROVE  SessInv'
<1>1. /\ w \in Caller(r) /\ lock[r] = "free" /\ lock' = [lock EXCEPT ![r] = w]
      /\ UNCHANGED <<names, ctx, ipq, rm, jobs, upf, pcf, sdm, amf, req, owed, used>>
  BY DEF TakeLock
<1>2. Types /\ ctx[r] \in Ctx
  BY DEF SessInv, Types
<1>3. r <= nref /\ w \in Locks /\ w # "est" /\ (w = "notify" => rm[r][TRUE] > 0)
  BY <1>1, MadeCaller
<1>4. ctx' = [ctx EXCEPT ![r] = ctx[r]] /\ amf' \in [Psis -> 0..nref]
      /\ owed' \in [Psis -> SUBSET Answers] /\ used' = used /\ used' \in Counts
      /\ cb' \in [Refs -> SUBSET {"retry", "cancel"}] /\ cb' = cb
  BY <1>1, <1>2 DEF Types, jobs
<1>5. Faultless' => Faultless
  BY <1>4 DEF Faultless
<1>6. UNCHANGED <<names, ipq, rm, pol, down, assoc, upf, pcf, sdm, req>>
  BY <1>1 DEF jobs
<1> QED  BY <1>1, <1>2, <1>3, <1>4, <1>5, <1>6, LockStep

LEMMA T3592TickKeeps ==
    ASSUME SessInv, NEW r \in Refs, T3592Tick(r)
    PROVE  SessInv'
<1>0. Types /\ Fresh /\ Holders
  BY DEF SessInv
<1>1. PICK c : c = [ctx[r] EXCEPT !.t3592 = @ + 1]
  OBVIOUS
<1>2. /\ ctx[r].t3592 <= MaxRetry
      /\ ctx' = [ctx EXCEPT ![r] = c]
      /\ \E A \in SUBSET {"retry", "cancel"} : cb' = [cb EXCEPT ![r] = A]
      /\ UNCHANGED <<names, ipq, lock, rm, pol, down, assoc, upf, pcf, sdm, amf, req, owed, used>>
  BY <1>1 DEF T3592Tick
<1>3. c \in Ctx /\ c.sel = ctx[r].sel /\ c.ip = ctx[r].ip /\ c.tun = ctx[r].tun
      /\ c.seid = ctx[r].seid /\ c.policy = ctx[r].policy /\ c.state = ctx[r].state
      /\ c.dup = ctx[r].dup
  <2>1. PICK t : t = ctx[r].t3592 + 1
    OBVIOUS
  <2>2. ctx[r] \in Ctx /\ ctx[r].t3592 \in 0..Off
    BY <1>0 DEF Types, Ctx
  <2>3. t \in 0..Off
    BY <1>2, <2>1, <2>2, SmfSessionAssumption DEF Off
  <2>4. c = [ctx[r] EXCEPT !.t3592 = t]
    BY <1>1, <2>1
  <2> QED  BY <2>2, <2>3, <2>4 DEF Ctx
<1>4. r <= nref
  <2>1. NoCtx.t3592 > MaxRetry
    BY SmfSessionAssumption DEF NoCtx, Off
  <2>2. NoCtx.t3592 \in Nat
    BY SmfSessionAssumption DEF NoCtx, Off
  <2>3. r > nref => ctx[r] = NoCtx
    BY <1>0 DEF Fresh
  <2>4. r \in Nat /\ nref \in Nat
    BY <1>0, RefsAre DEF Refs
  <2> QED  BY <1>2, <2>1, <2>2, <2>3, <2>4, SmfSessionAssumption
<1>5. cb' \in [Refs -> SUBSET {"retry", "cancel"}] /\ \A o \in Refs \ {r} : cb'[o] = cb[o]
  BY <1>0, <1>2 DEF Types
<1>6. lock' = [lock EXCEPT ![r] = lock[r]] /\ lock[r] \in Locks /\ amf' \in [Psis -> 0..nref]
      /\ owed' \in [Psis -> SUBSET Answers] /\ used' = used /\ used' \in Counts
  BY <1>0, <1>2 DEF Types
<1>7. (Faultless' => Faultless) /\ (lock[r] = "notify" => rm[r][TRUE] > 0)
  BY <1>0, <1>6 DEF Faultless, Holders
<1> QED  BY <1>2, <1>3, <1>4, <1>5, <1>6, <1>7, LockStep

LEMMA T3592RetryKeeps ==
    ASSUME SessInv, NEW r \in Refs, NEW x \in 0..1, T3592Retry(r, x)
    PROVE  SessInv'
<1>0. Types /\ Fresh /\ x \in Nat
  BY DEF SessInv
<1>1. PICK w : w = IF x = 0 /\ amf[ctx[r].psi] # None THEN "free" ELSE "stuck"
  OBVIOUS
<1>2. /\ lock[r] = "retry" /\ Fail(x) /\ cb' = [cb EXCEPT ![r] = @ \ {"retry"}]
      /\ lock' = [lock EXCEPT ![r] = w]
      /\ Owe(ctx[r].psi, {"Complete"}) \/ owed' = owed
      /\ UNCHANGED <<names, ctx, ipq, rm, pol, down, assoc, upf, pcf, sdm, amf, req>>
  BY <1>1 DEF T3592Retry, Calling
<1>3. /\ used' \in Counts /\ used'.lost = used.lost
      /\ (used'.fault = 0 => used.fault = 0 /\ x = 0) /\ (Faultless' => Faultless)
  BY <1>0, <1>2, CountedCalls
<1>4. ctx[r] \in Ctx /\ ctx' = [ctx EXCEPT ![r] = ctx[r]] /\ amf' \in [Psis -> 0..nref]
      /\ owed' \in [Psis -> SUBSET Answers]
  BY <1>0, <1>2, OweType DEF Types, Answers
<1>5. cb' \in [Refs -> SUBSET {"retry", "cancel"}] /\ \A o \in Refs \ {r} : cb'[o] = cb[o]
  BY <1>0, <1>2 DEF Types
<1>6. r <= nref
  <2>1. r > nref => lock[r] = "free"
    BY <1>0 DEF Fresh
  <2>2. r \in Nat /\ nref \in Nat
    BY <1>0, RefsAre DEF Refs
  <2> QED  BY <1>2, <2>1, <2>2
<1>7. w \in Locks /\ w # "est" /\ w # "notify"
  BY <1>1 DEF Locks
<1> QED  BY <1>2, <1>3, <1>4, <1>5, <1>6, <1>7, LockStep

LEMMA T3592CancelKeeps ==
    ASSUME SessInv, NEW r \in Refs, T3592Cancel(r)
    PROVE  SessInv'
<1>0. Types /\ Fresh
  BY DEF SessInv
<1>1. PICK c : c = [ctx[r] EXCEPT !.t3592 = Off]
  OBVIOUS
<1>2. /\ lock[r] = "cancel" /\ cb' = [cb EXCEPT ![r] = @ \ {"cancel"}]
      /\ ctx' = [ctx EXCEPT ![r] = c] /\ lock' = [lock EXCEPT ![r] = "free"]
      /\ amf' = [amf EXCEPT ![ctx[r].psi] = None]
      /\ UNCHANGED <<names, ipq, rm, pol, down, assoc, upf, pcf, sdm, req, owed, used>>
  BY <1>1 DEF T3592Cancel, Calling, StatusNotified
<1>3. c \in Ctx /\ c.sel = ctx[r].sel /\ c.ip = ctx[r].ip /\ c.tun = ctx[r].tun
      /\ c.seid = ctx[r].seid /\ c.policy = ctx[r].policy /\ c.state = ctx[r].state
      /\ c.dup = ctx[r].dup
  <2>1. ctx[r] \in Ctx /\ Off \in 0..Off
    BY <1>0, SmfSessionAssumption DEF Types, Off
  <2> QED  BY <1>1, <2>1 DEF Ctx
<1>4. amf' \in [Psis -> 0..nref] /\ owed' \in [Psis -> SUBSET Answers] /\ used' = used /\ used' \in Counts
  BY <1>0, <1>2, AmfDropped DEF Types
<1>5. cb' \in [Refs -> SUBSET {"retry", "cancel"}] /\ \A o \in Refs \ {r} : cb'[o] = cb[o]
  BY <1>0, <1>2 DEF Types
<1>6. r <= nref
  <2>1. r > nref => lock[r] = "free"
    BY <1>0 DEF Fresh
  <2>2. r \in Nat /\ nref \in Nat
    BY <1>0, RefsAre DEF Refs
  <2> QED  BY <1>2, <2>1, <2>2
<1>7. Faultless' => Faultless
  BY <1>4 DEF Faultless
<1>8. "free" \in Locks
  BY DEF Locks
<1> QED  BY <1>2, <1>3, <1>4, <1>5, <1>6, <1>7, <1>8, LockStep

LEMMA DownReleaseKeeps ==
    ASSUME SessInv, NEW o \in {"refused", "idle", "sent"}, NEW n \in 0..1, DownRelease(o, n)
    PROVE  SessInv'
<1>0. PICK r : r = down.cur
  OBVIOUS
<1> DEFINE idle == o = "idle"
           x == IF o = "sent" THEN "InActivePending" ELSE "InActive"
           y == IF idle THEN PolicyKept(r, 1, n) ELSE ctx[r].policy
           c == [ctx[r] EXCEPT !.state = x, !.policy = y]
           m == n + IF o = "refused" /\ amf[ctx[r].psi] # None THEN 1 ELSE 0
<1>00. PICK k : k = IF idle THEN 1 ELSE 0
  OBVIOUS
<1>1. /\ r \in 1..nref /\ r \in Refs /\ lock[r] = "down" /\ Types /\ n \in Nat /\ r # None
      /\ k \in Nat /\ m \in Nat /\ (m = 0 => n = 0) /\ ctx[r] \in Ctx
  <2>1. r # None /\ lock[r] = "down" /\ Types
    BY <1>0 DEF DownRelease, Calling, SessInv
  <2>2. r \in 1..nref /\ r \in Refs
    BY <1>0, <2>1, RefsAre DEF Types, None
  <2> QED  BY <1>00, <2>1, <2>2 DEF Types
<1>2. /\ Fail(m)
      /\ IF idle THEN /\ amf' = [amf EXCEPT ![ctx[r].psi] = None] /\ Spawn(r, FALSE, 1)
                      /\ pcf' = Terminated(r, 1, n) /\ sdm' = UnSubscribe(1)
                 ELSE UNCHANGED <<amf, rm, pcf, sdm>> /\ n = 0
      /\ ctx' = [ctx EXCEPT ![r].state = x, ![r].policy = y]
      /\ lock' = [lock EXCEPT ![r] = "free"] /\ down' = [down EXCEPT !.cur = None]
      /\ UNCHANGED <<names, ipq, cb, pol, assoc, upf, req>>
  BY <1>0 DEF DownRelease, StatusNotified
<1>3. (\E A \in SUBSET Answers : Owe(ctx[r].psi, A)) \/ owed' = owed
  <2>1. CASE o = "sent"
    <3>1. PICK A : A = {"Complete"} \cup IF ctx[r].up = "DEACTIVATED" THEN {} ELSE {"RelRsp"}
      OBVIOUS
    <3>2. Owe(ctx[r].psi, A) /\ A \in SUBSET Answers
      BY <1>0, <2>1, <3>1 DEF DownRelease, Answers
    <3> QED  BY <3>2
  <2>2. CASE o # "sent"
    BY <2>2 DEF DownRelease
  <2> QED  BY <2>1, <2>2
<1>4. x \in States /\ y \in BOOLEAN
  BY <1>1 DEF PolicyKept, Ctx, States
<1>41. ~idle => y = ctx[r].policy
  OBVIOUS
<1> HIDE DEF x, y, m
<1>5. c \in Ctx /\ c.sel = ctx[r].sel /\ c.ip = ctx[r].ip
      /\ c.tun = ctx[r].tun /\ c.seid = ctx[r].seid /\ c.policy = y
  BY <1>1, <1>4 DEF Ctx
<1>6. ctx' = [ctx EXCEPT ![r] = c]
  BY <1>1, <1>2, <1>4 DEF Types
<1> HIDE DEF c
<1>7. \A i \in Refs : ctx'[i].sel = ctx[i].sel /\ ctx'[i].ip = ctx[i].ip
  BY <1>1, <1>5, <1>6, CtxSet
<1>8. /\ used' \in Counts /\ used'.lost = used.lost
      /\ (used'.fault = 0 => used.fault = 0 /\ n = 0)
      /\ (Faultless' => Faultless)
  BY <1>1, <1>2, CountedCalls
<1>9. /\ rm' \in [Refs -> [BOOLEAN -> Nat]] /\ (\A i \in Refs \ {r} : rm'[i] = rm[i])
      /\ (Pend(r)' => k > 0 \/ Pend(r))
  <2>1. CASE idle
    BY <1>00, <1>1, <1>2, <2>1, Spawned
  <2>2. CASE ~idle
    BY <1>1, <1>2, <2>2 DEF Types, Pend
  <2> QED  BY <2>1, <2>2
<1>10. sdm' = UnSubscribe(k) /\ pcf' = Terminated(r, k, n)
  <2>1. CASE idle
    BY <1>00, <1>2, <2>1
  <2>2. CASE ~idle
    BY <1>00, <1>1, <1>2, <2>2, NothingEnds
  <2> QED  BY <2>1, <2>2
<1>11. amf' \in [Psis -> 0..nref]
  BY <1>1, <1>2, AmfDropped
<1>12. owed' \in [Psis -> SUBSET Answers]
  BY <1>1, <1>3, OweType DEF Types
<1>13. req' \in Requests' /\ Serving'
  BY <1>1, <1>2 DEF SessInv, Serving, Types, Requests, names
<1>14. down' \in [todo : SUBSET (1..nref), cur : 0..nref]
  <2>1. None \in 0..nref
    BY <1>1, RefsAre DEF None
  <2> QED  BY <1>1, <1>2, <2>1 DEF Types
<1>15. TypedStep /\ Shrinks
  BY <1>1, <1>2, <1>8, <1>9, <1>11, <1>12, <1>13, <1>14 DEF Types, upf, TypedStep, Shrinks
<1>16. Addresses'
  BY <1>2, <1>7, AddressesKept DEF names, SessInv
<1>17. ~Faultless /\ ~Faultless'
  BY <1>0, <1>1, <1>8 DEF SessInv, Clean
<1>18. k = 0 => c.policy = ctx[r].policy
  BY <1>00, <1>5, <1>41
<1>19. Handled(r, c, k, n)
  BY <1>2, <1>5, <1>6, <1>8, <1>9, <1>10, <1>15, <1>17, <1>18, Zenon DEF Handled
<1> QED
  BY <1>1, <1>5, <1>15, <1>16, <1>19, HandlerKeeps

-----------------------------------------------------------------------------
(* The steps that touch no context.                                          *)
LEMMA AmfCreateKeeps ==
    ASSUME SessInv, NEW p \in Psis, AmfCreate(p)
    PROVE  SessInv'
<1>0. Types /\ Serving
  BY DEF SessInv
<1>1. /\ nref < MaxRef
      /\ req' = IF canon[p] \in pool THEN [m |-> "LocalRelease", psi |-> p, ref |-> canon[p]]
                                     ELSE [m |-> "New", psi |-> p, ref |-> None]
      /\ UNCHANGED <<names, ctx, ipq, lock, rm, jobs, upf, pcf, sdm, amf, owed, used>>
  BY DEF AmfCreate
<1>2. nref' = nref /\ UNCHANGED <<canon, pool, cb, pol, down, assoc, sess, sfree>>
  BY <1>1 DEF names, jobs, upf
<1>3. canon[p] \in 0..nref /\ None \in 0..nref /\ (canon[p] \in pool => canon[p] # 0)
  BY <1>0, RefsAre DEF Types, None
<1>4. req' \in Requests' /\ Serving'
  <2>1. CASE canon[p] \in pool
    <3>1. req'.m = "LocalRelease" /\ req'.ref = canon[p] /\ req' \in Requests
      BY <1>1, <1>3, <2>1 DEF Requests
    <3> QED  BY <1>1, <1>2, <1>3, <2>1, <3>1 DEF Requests, Serving
  <2>2. CASE canon[p] \notin pool
    <3>1. req'.m = "New" /\ req' \in Requests
      BY <1>1, <1>3, <2>2 DEF Requests
    <3> QED  BY <1>1, <1>2, <3>1 DEF Requests, Serving
  <2> QED  BY <2>1, <2>2
<1>5. Types'
  BY <1>0, <1>1, <1>2, <1>4 DEF Types
<1>6. Shrinks /\ used' = used
  BY <1>1, <1>2 DEF Shrinks
<1>7. Faultless' => Faultless
  BY <1>6 DEF Faultless
<1> QED  BY <1>1, <1>2, <1>4, <1>5, <1>6, <1>7, QuietKeeps

LEMMA AmfSendKeeps ==
    ASSUME SessInv, NEW p \in Psis, NEW m \in Msgs \cup Answers, AmfSend(p, m)
    PROVE  SessInv'
<1>0. Types /\ Serving
  BY DEF SessInv
<1>1. /\ used' = [used EXCEPT !.sent = @ + 1] \/ used' = used
      /\ owed' = owed \/ owed' = [owed EXCEPT ![p] = @ \ {m}]
      /\ \/ amf[p] \in pool /\ req' = [m |-> m, psi |-> p, ref |-> amf[p]] /\ amf' = amf
         \/ req' = req /\ (amf' = amf \/ amf' = [amf EXCEPT ![p] = None])
      /\ UNCHANGED <<names, ctx, ipq, lock, rm, jobs, upf, pcf, sdm>>
  BY DEF AmfSend
<1>2. nref' = nref /\ UNCHANGED <<canon, pool, cb, pol, down, assoc, sess, sfree>>
  BY <1>1 DEF names, jobs, upf
<1>3. amf[p] \in 0..nref /\ (amf[p] \in pool => amf[p] # 0)
      /\ m \in AllMsgs \cup Answers /\ m \notin {"none", "New", "LocalRelease"}
  BY <1>0, RefsAre, SmfSessionAssumption DEF Types, AllMsgs, Answers
<1>4. req' \in Requests' /\ Serving'
  <2>1. CASE amf[p] \in pool /\ req' = [m |-> m, psi |-> p, ref |-> amf[p]]
    <3>1. req'.m = m /\ req'.ref = amf[p] /\ req' \in Requests
      BY <1>3, <2>1 DEF Requests
    <3> QED  BY <1>2, <1>3, <2>1, <3>1 DEF Requests, Serving
  <2>2. CASE req' = req
    BY <1>0, <1>2, <2>2 DEF Requests, Serving, Types
  <2> QED  BY <1>1, <2>1, <2>2
<1>41. amf' \in [Psis -> 0..nref]
  BY <1>0, <1>1, AmfDropped
<1>42. owed' \in [Psis -> SUBSET Answers]
  BY <1>0, <1>1 DEF Types
<1>43. /\ used' \in Counts /\ used'.fault = used.fault /\ used'.restart = used.restart
       /\ used'.late = used.late /\ used'.lost = used.lost
  <2>1. PICK z : z = used.sent + 1
    OBVIOUS
  <2>2. used \in Counts /\ z \in Nat
    BY <1>0, <2>1 DEF Types, Counts
  <2>3. used' = [used EXCEPT !.sent = z] \/ used' = used
    BY <1>1, <2>1
  <2>4. used' \in Counts
    BY <2>2, <2>3, Zenon DEF Counts
  <2> QED  BY <2>2, <2>3, <2>4 DEF Counts
<1>5. Types'
  BY <1>0, <1>1, <1>2, <1>4, <1>41, <1>42, <1>43 DEF Types
<1>6. Shrinks
  BY <1>1, <1>2 DEF Shrinks
<1>7. Faultless' => Faultless
  BY <1>43 DEF Faultless
<1> QED  BY <1>1, <1>2, <1>4, <1>43, <1>5, <1>6, <1>7, QuietKeeps

LEMMA PolicyNotifyKeeps ==
    ASSUME SessInv, NEW r \in Refs, PolicyNotify(r)
    PROVE  SessInv'
<1>0. Types /\ Serving
  BY DEF SessInv
<1>1. /\ r \in pcf /\ pol' = pol \cup {r} /\ used' = [used EXCEPT !.notify = @ + 1]
      /\ UNCHANGED <<names, ctx, ipq, lock, rm, cb, down, assoc, upf, pcf, sdm, amf, req, owed>>
  BY DEF PolicyNotify
<1>2. nref' = nref /\ UNCHANGED <<canon, pool, cb, down, assoc, sess, sfree>>
  BY <1>1 DEF names, upf
<1>3. /\ used' \in Counts /\ used'.fault = used.fault /\ used'.restart = used.restart
      /\ used'.late = used.late /\ used'.lost = used.lost
  <2>1. PICK z : z = used.notify + 1
    OBVIOUS
  <2>2. used \in Counts /\ z \in Nat
    BY <1>0, <2>1 DEF Types, Counts
  <2>3. used' = [used EXCEPT !.notify = z]
    BY <1>1, <2>1
  <2>4. used' \in Counts
    BY <2>2, <2>3, Zenon DEF Counts
  <2> QED  BY <2>2, <2>3, <2>4 DEF Counts
<1>4. req' \in Requests' /\ Serving' /\ pol' \subseteq 1..nref
  BY <1>0, <1>1, <1>2 DEF Types, Requests, Serving
<1>5. Types'
  BY <1>0, <1>1, <1>2, <1>3, <1>4 DEF Types
<1>6. Shrinks
  BY <1>2 DEF Shrinks
<1>7. Faultless' => Faultless
  BY <1>3 DEF Faultless
<1> QED  BY <1>1, <1>2, <1>3, <1>4, <1>5, <1>6, <1>7, QuietKeeps

(* The loss of the UPF is noticed and its contexts are visited.              *)
LEMMA DownStepKeeps ==
    ASSUME SessInv, HeartbeatTells \/ DownVisit \/ DownSkip
    PROVE  SessInv'
<1>0. Types /\ Serving
  BY DEF SessInv
<1>1. /\ assoc' \in {"up", "down"} \/ assoc' = assoc
      /\ down' = [todo |-> pool, cur |-> None] \/ down' = NotDown \/ down' = [down EXCEPT !.cur = None]
         \/ (\E r \in down.todo : down' = [todo |-> down.todo \ {r}, cur |-> r])
      /\ assoc # "up" \/ down.cur # None
      /\ UNCHANGED <<names, ctx, ipq, lock, rm, cb, pol, upf, pcf, sdm, amf, req, owed, used>>
  <2>1. CASE HeartbeatTells
    BY <2>1 DEF HeartbeatTells
  <2>2. CASE DownVisit
    BY <2>2 DEF DownVisit, Visitable
  <2>3. CASE DownSkip
    BY <2>3 DEF DownSkip
  <2> QED  BY <2>1, <2>2, <2>3
<1>2. nref' = nref /\ UNCHANGED <<canon, pool, sess, sfree>>
  BY <1>1 DEF names, upf
<1>3. down' \in [todo : SUBSET (1..nref), cur : 0..nref] /\ assoc' \in {"up", "stale", "down"}
  <2>1. None \in 0..nref /\ 1..nref \subseteq 0..nref /\ pool \subseteq 1..nref
        /\ down \in [todo : SUBSET (1..nref), cur : 0..nref] /\ assoc \in {"up", "stale", "down"}
    BY <1>0, RefsAre DEF Types, None
  <2>2. down.todo \subseteq 1..nref
    BY <2>1
  <2>3. (\E r \in down.todo : down' = [todo |-> down.todo \ {r}, cur |-> r])
           => down' \in [todo : SUBSET (1..nref), cur : 0..nref]
    BY <2>1, <2>2
  <2> QED  BY <1>1, <2>1, <2>3 DEF NotDown
<1>4. req' \in Requests' /\ Serving'
  BY <1>0, <1>1, <1>2 DEF Types, Requests, Serving
<1>5. Types'
  BY <1>0, <1>1, <1>2, <1>3, <1>4 DEF Types
<1>6. Shrinks
  BY <1>2 DEF Shrinks
<1>7. ~Faultless'
  BY <1>1 DEF Faultless, Clean, SessInv
<1> QED  BY <1>1, <1>2, <1>4, <1>5, <1>6, <1>7, QuietKeeps

LEMMA UpfRestartKeeps ==
    ASSUME SessInv, UpfRestart
    PROVE  SessInv'
<1>0. Types /\ Serving
  BY DEF SessInv
<1>1. /\ used' = [used EXCEPT !.restart = @ + 1] /\ sess' = <<>> /\ sfree' = <<>> /\ assoc' = "stale"
      /\ UNCHANGED <<names, ctx, ipq, lock, rm, cb, pol, down, pcf, sdm, amf, req, owed>>
  BY DEF UpfRestart
<1>2. nref' = nref /\ UNCHANGED <<canon, pool>>
  BY <1>1 DEF names
<1>3. /\ used' \in Counts /\ used'.fault = used.fault /\ used'.restart # 0 /\ used'.lost = used.lost
  <2>1. PICK z : z = used.restart + 1
    OBVIOUS
  <2>2. used \in Counts /\ z \in Nat /\ z # 0
    BY <1>0, <2>1 DEF Types, Counts
  <2>3. used' = [used EXCEPT !.restart = z]
    BY <1>1, <2>1
  <2>4. used' \in Counts
    BY <2>2, <2>3, Zenon DEF Counts
  <2> QED  BY <2>2, <2>3, <2>4 DEF Counts
<1>4. req' \in Requests' /\ Serving'
  BY <1>0, <1>1, <1>2 DEF Types, Requests, Serving
<1>5. Types'
  BY <1>0, <1>1, <1>2, <1>3, <1>4 DEF Types
<1>6. Shrinks
  BY <1>1 DEF Shrinks
<1>7. ~Faultless'
  BY <1>3 DEF Faultless
<1> QED  BY <1>1, <1>2, <1>3, <1>4, <1>5, <1>6, <1>7, QuietKeeps

-----------------------------------------------------------------------------
(* A removal goroutine takes the context out of the pool.                    *)
LEMMA RemovalKeeps ==
    ASSUME SessInv, NEW r \in Refs, Pend(r), lock[r] # "est", RemoveSMContext(r),
           rm' \in [Refs -> [BOOLEAN -> Nat]], \A o \in Refs \ {r} : rm'[o] = rm[o],
           lock' = [lock EXCEPT ![r] = "free"], amf' \in [Psis -> 0..nref],
           UNCHANGED <<nref, jobs, upf, pcf, sdm, req, owed, used>>
    PROVE  SessInv'
<1>0. Types /\ Serving /\ Holders /\ Fresh /\ Est /\ Addresses /\ Sdm /\ Policies /\ Seids /\ Clean
  BY DEF SessInv
<1>1. UNCHANGED <<cb, pol, down, assoc, sess, sfree>>
  BY DEF jobs, upf
<1>2. r \in 1..nref
  <2>1. r \in Nat /\ nref \in Nat /\ r >= 1
    BY <1>0, RefsAre, SmfSessionAssumption DEF Refs
  <2>2. r > nref => rm[r][TRUE] = 0 /\ rm[r][FALSE] = 0
    BY <1>0 DEF Fresh
  <2>3. ~(0 > 0)
    OBVIOUS
  <2>4. ~(r > nref)
    BY <2>2, <2>3, Zenon DEF Pend
  <2> QED  BY <2>1, <2>4
<1>3. PICK c : c = [ctx[r] EXCEPT !.sel = FALSE]
  OBVIOUS
<1>4. ctx[r] \in Ctx /\ c \in Ctx /\ c.sel = FALSE /\ c.ip = ctx[r].ip /\ c.tun = ctx[r].tun
      /\ c.seid = ctx[r].seid
  <2>1. ctx[r] \in Ctx
    BY <1>0 DEF Types
  <2> QED  BY <1>3, <2>1 DEF Ctx
<1>5. /\ pool' = pool \ {r} /\ canon' \in [Psis -> 0..nref] /\ ctx' \in [Refs -> Ctx]
      /\ ctx'[r].tun = ctx[r].tun /\ ctx'[r].seid = ctx[r].seid
      /\ \A i \in Refs \ {r} : ctx'[i] = ctx[i]
      /\ ipq' \in Seq(Ips) /\ Addresses'
  <2>1. CASE r \in pool
    <3>1. ipq' = FreeIp(r) /\ ctx' = [ctx EXCEPT ![r] = c] /\ pool' = pool \ {r}
          /\ canon' = [canon EXCEPT ![ctx[r].psi] = None]
      BY <1>3, <2>1 DEF RemoveSMContext
    <3>2. None \in 0..nref /\ canon \in [Psis -> 0..nref]
      BY <1>0, RefsAre DEF Types, None
    <3>3. canon' \in [Psis -> 0..nref]
      BY <3>1, <3>2
    <3>4. ctx' \in [Refs -> Ctx] /\ ctx'[r] = c /\ \A i \in Refs \ {r} : ctx'[i] = ctx[i]
      BY <1>0, <1>4, <3>1, CtxSet
    <3>5. \A i \in Refs, ip \in Ips : Holds(i, ip)' <=> Holds(i, ip) /\ i # r
      BY <3>1, <3>4 DEF Holds
    <3>6. \A i \in Refs : i \notin pool' => ~ctx'[i].sel
      BY <1>0, <1>4, <3>1, <3>4 DEF Addresses
    <3>7. ipq' \in Seq(Ips) /\ Addresses'
      BY <1>0, <3>1, <3>5, <3>6, Freed
    <3> QED  BY <1>4, <3>1, <3>3, <3>4, <3>7
  <2>2. CASE r \notin pool
    <3>1. UNCHANGED <<ipq, ctx, pool, canon>>
      BY <2>2 DEF RemoveSMContext
    <3>2. Addresses'
      BY <1>0, <3>1, AddressesKept
    <3> QED  BY <1>0, <2>2, <3>1, <3>2 DEF Types
  <2> QED  BY <2>1, <2>2
<1>6. lock' \in [Refs -> Locks] /\ lock'[r] = "free" /\ \A i \in Refs \ {r} : lock'[i] = lock[i]
  BY <1>0 DEF Types, Locks
<1>7. Types' /\ Serving'
  BY <1>0, <1>1, <1>5, <1>6 DEF Types, Requests, Serving
<1>8. Touch(r) /\ Shrinks
  BY <1>1, <1>5, <1>6 DEF Touch, Shrinks
<1>9. Fresh'
  BY <1>0, <1>2, <1>8, FreshKept
<1>10. Holders'
  BY <1>0, <1>6, <1>8 DEF Holders, Touch
<1>11. Est'
  BY <1>0, <1>5, <1>6, <1>8, EstKept
<1>12. \A o \in Refs \ {r} : Pend(o)' <=> Pend(o)
  BY <1>8 DEF Touch, Pend
<1>13. Sdm'
  <2>1. pool \subseteq Refs
    BY <1>0, RefsAre
  <2>2. Live' = Live
    BY <1>5, <1>12, <2>1 DEF Live
  <2> QED  BY <1>0, <2>2 DEF Sdm
<1>14. Policies'
  <2> SUFFICES ASSUME used'.fault = 0, NEW o \in pcf'
               PROVE  o \in pool' /\ ctx'[o].policy /\ ~Pend(o)'
    BY DEF Policies
  <2>1. o \in pool /\ ctx[o].policy /\ ~Pend(o) /\ o \in Refs
    BY <1>0, RefsAre DEF Policies
  <2>2. o # r
    BY <2>1
  <2> QED  BY <1>5, <1>12, <2>1, <2>2
<1>15. Seids'
  BY <1>0, <1>5, <1>8, SeidsKept
<1>16. Clean'
  <2>1. Faultless' => Faultless
    BY DEF Faultless
  <2>2. Faultless' => Gone(r)'
    <3>1. Ending(r)
      BY DEF Ending
    <3>2. Faultless => Gone(r)
      BY <1>0, <3>1 DEF Clean
    <3> QED  BY <1>0, <1>8, <2>1, <3>2, GoneKept
  <2>3. Faultless' /\ ctx'[r].tun /\ lock'[r] # "est" => ctx'[r].seid # 0
    BY <1>0, <1>5, <2>1 DEF Clean
  <2>4. \A o \in Refs \ {r} : o \in pool <=> o \in pool'
    BY <1>5
  <2> QED  BY <1>0, <1>1, <1>8, <2>1, <2>2, <2>3, <2>4, CleanKept
<1> QED  BY <1>5, <1>7, <1>9, <1>10, <1>11, <1>13, <1>14, <1>15, <1>16 DEF SessInv

(* One removal goroutine less.                                               *)
LEMMA Fewer ==
    ASSUME Types, NEW r \in Refs, NEW b \in BOOLEAN, rm[r][b] > 0, rm' = [rm EXCEPT ![r][b] = @ - 1]
    PROVE  Pend(r) /\ rm' \in [Refs -> [BOOLEAN -> Nat]] /\ \A o \in Refs \ {r} : rm'[o] = rm[o]
<1>1. rm[r] \in [BOOLEAN -> Nat] /\ rm \in [Refs -> [BOOLEAN -> Nat]]
  BY DEF Types
<1>2. PICK j : j = rm[r][b] - 1
  OBVIOUS
<1>3. j \in Nat
  <2>1. PICK x : x = rm[r][b]
    OBVIOUS
  <2>2. x \in Nat /\ x > 0
    BY <1>1, <2>1, Zenon
  <2>3. j = x - 1
    BY <1>2, <2>1, Zenon
  <2> QED  BY <2>2, <2>3
<1>4. PICK f : f = [rm[r] EXCEPT ![b] = j]
  OBVIOUS
<1>5. f \in [BOOLEAN -> Nat]
  BY <1>1, <1>3, <1>4, Zenon
<1>6. rm' = [rm EXCEPT ![r] = f]
  BY <1>2, <1>4
<1>7. rm' \in [Refs -> [BOOLEAN -> Nat]] /\ \A o \in Refs \ {r} : rm'[o] = rm[o]
  BY <1>1, <1>5, <1>6, Zenon
<1>8. Pend(r)
  <2>1. b = TRUE \/ b = FALSE
    OBVIOUS
  <2> QED  BY <2>1, Zenon DEF Pend
<1> QED  BY <1>7, <1>8

LEMMA RemoveKeeps ==
    ASSUME SessInv, NEW r \in Refs, Remove(r)
    PROVE  SessInv'
<1>0. Types
  BY DEF SessInv
<1>1. /\ rm[r][FALSE] > 0 /\ lock[r] = "free" /\ rm' = [rm EXCEPT ![r][FALSE] = @ - 1]
      /\ RemoveSMContext(r)
      /\ UNCHANGED <<nref, lock, jobs, upf, pcf, sdm, amf, req, owed, used>>
  BY DEF Remove
<1>2. Pend(r) /\ rm' \in [Refs -> [BOOLEAN -> Nat]] /\ \A o \in Refs \ {r} : rm'[o] = rm[o]
  BY <1>0, <1>1, Fewer
<1>3. lock' = [lock EXCEPT ![r] = "free"] /\ amf' \in [Psis -> 0..nref]
  BY <1>0, <1>1, LockFree DEF Types
<1> QED  BY <1>1, <1>2, <1>3, RemovalKeeps

LEMMA NotifyAndRemoveKeeps ==
    ASSUME SessInv, NEW r \in Refs, NotifyAndRemove(r)
    PROVE  SessInv'
<1>0. Types /\ Holders
  BY DEF SessInv
<1>1. /\ lock[r] = "notify" /\ rm' = [rm EXCEPT ![r][TRUE] = @ - 1]
      /\ RemoveSMContext(r) /\ lock' = [lock EXCEPT ![r] = "free"]
      /\ amf' = [amf EXCEPT ![ctx[r].psi] = None]
      /\ UNCHANGED <<nref, jobs, upf, pcf, sdm, req, owed, used>>
  BY DEF NotifyAndRemove, Calling, StatusNotified
<1>2. rm[r][TRUE] > 0
  BY <1>0, <1>1 DEF Holders
<1>3. Pend(r) /\ rm' \in [Refs -> [BOOLEAN -> Nat]] /\ \A o \in Refs \ {r} : rm'[o] = rm[o]
  BY <1>0, <1>1, <1>2, Fewer
<1>4. amf' \in [Psis -> 0..nref]
  BY <1>0, <1>1, AmfDropped
<1> QED  BY <1>1, <1>3, <1>4, RemovalKeeps

-----------------------------------------------------------------------------
(* A session is asked for, if e, and the lock given back.                    *)
EstStep(r, o, e, c, k, n) ==
    /\ IF e /\ o # "drop" THEN UpfNewSess(r) ELSE UNCHANGED upf
    /\ (e => ctx[r].seid = 0 /\ ctx[r].tun)
    /\ (o # "ok" => e)
    /\ ctx' = [ctx EXCEPT ![r] = c]
    /\ c.sel = ctx[r].sel /\ c.ip = ctx[r].ip /\ c.tun = ctx[r].tun
    /\ c.seid = (IF e /\ o = "ok" THEN NewSeid ELSE ctx[r].seid)
    /\ lock' = [lock EXCEPT ![r] = "free"]
    /\ UNCHANGED <<names, ipq, cb, down, assoc, req>>
    /\ pol' \subseteq pol /\ amf' \in [Psis -> 0..nref] /\ owed' \in [Psis -> SUBSET Answers]
    /\ rm' \in [Refs -> [BOOLEAN -> Nat]] /\ (\A i \in Refs \ {r} : rm'[i] = rm[i])
    /\ (Pend(r)' => k > 0 \/ Pend(r))
    /\ sdm' = UnSubscribe(k) /\ pcf' = Terminated(r, k, n)
    /\ (k = 0 => c.policy = ctx[r].policy)
    /\ used' \in Counts
    /\ used'.lost = (IF o = "lost" THEN used.lost \cup {r} ELSE used.lost)
    /\ (used'.fault = 0 => used.fault = 0 /\ n = 0 /\ o = "ok")
    /\ (Faultless' => Faultless)
    /\ (Faultless' /\ lock[r] = "est" => e)
    /\ (Faultless' /\ e => ~Ending(r)')
    /\ (Faultless' /\ Ending(r)' => Ending(r))

(* Such a step keeps the invariant.                                          *)
LEMMA EstStepKeeps ==
    ASSUME SessInv, NEW r \in 1..nref, NEW o \in Exchange, NEW e \in BOOLEAN, NEW c \in Ctx,
           NEW k \in Nat, NEW n \in Nat, EstStep(r, o, e, c, k, n)
    PROVE  SessInv'
<1>0. Types /\ Serving /\ Holders /\ Fresh /\ Est /\ Addresses /\ Sdm /\ Policies /\ Seids /\ Clean
      /\ r \in Refs
  BY RefsAre DEF SessInv
<1>1. /\ ctx' = [ctx EXCEPT ![r] = c]
      /\ c.sel = ctx[r].sel /\ c.ip = ctx[r].ip /\ c.tun = ctx[r].tun
      /\ lock' = [lock EXCEPT ![r] = "free"]
      /\ UNCHANGED <<nref, pool, canon, ipq, cb, down, assoc, req>>
      /\ pol' \subseteq pol /\ amf' \in [Psis -> 0..nref] /\ owed' \in [Psis -> SUBSET Answers]
      /\ rm' \in [Refs -> [BOOLEAN -> Nat]] /\ (\A i \in Refs \ {r} : rm'[i] = rm[i])
      /\ used' \in Counts
  BY DEF EstStep, names
<1>2. /\ (Pend(r)' => k > 0 \/ Pend(r))
      /\ sdm' = UnSubscribe(k) /\ pcf' = Terminated(r, k, n)
      /\ (k = 0 => c.policy = ctx[r].policy)
      /\ (used'.fault = 0 => used.fault = 0 /\ n = 0 /\ o = "ok")
      /\ (Faultless' => Faultless)
  BY DEF EstStep
<1>3. ctx' \in [Refs -> Ctx] /\ ctx'[r] = c /\ \A i \in Refs \ {r} : ctx'[i] = ctx[i]
  BY <1>0, <1>1, CtxSet
<1>4. lock' \in [Refs -> Locks] /\ lock'[r] = "free" /\ \A i \in Refs \ {r} : lock'[i] = lock[i]
  BY <1>0, <1>1 DEF Types, Locks
<1>5. /\ sess' \in Seq(Refs \cup {None}) /\ sfree' \in Seq(DOMAIN sess')
      /\ \/ sess' = sess /\ ~(e /\ o # "drop")
         \/ /\ e /\ o # "drop"
            /\ NewSeid \in Nat \ {0} /\ sess'[NewSeid] = r
            /\ \A s \in DOMAIN sess' \ {NewSeid} : s \in DOMAIN sess /\ sess'[s] = sess[s]
  <2>1. CASE e /\ o # "drop"
    <3>1. UpfNewSess(r)
      BY <2>1 DEF EstStep
    <3> QED  BY <1>0, <2>1, <3>1, Established
  <2>2. CASE ~(e /\ o # "drop")
    <3>1. sess' = sess /\ sfree' = sfree
      BY <2>2 DEF EstStep, upf
    <3> QED  BY <1>0, <2>2, <3>1 DEF Types
  <2> QED  BY <2>1, <2>2
<1>6. sdm' \in Nat /\ pcf' \subseteq pcf
  BY <1>0, <1>2, Ended_
<1>7. Types' /\ Serving'
  BY <1>0, <1>1, <1>3, <1>4, <1>5, <1>6 DEF Types, Requests, Serving
<1>8. Touch(r)
  BY <1>1, <1>3, <1>4 DEF Touch
<1>9. Fresh'
  BY <1>0, <1>1, <1>8, FreshKept
<1>10. Holders'
  BY <1>0, <1>4, <1>8 DEF Holders, Touch
<1>11. Est'
  BY <1>0, <1>1, <1>4, <1>8, EstKept
<1>12. Addresses'
  <2>1. \A i \in Refs : ctx'[i].sel = ctx[i].sel /\ ctx'[i].ip = ctx[i].ip
    BY <1>1, <1>3
  <2> QED  BY <1>0, <1>1, <2>1, AddressesKept
<1>13. Sdm'
  BY <1>0, <1>1, <1>2, <1>7, <1>8, SdmKept
<1>14. Policies'
  <2>1. k = 0 => ctx'[r].policy = ctx[r].policy
    BY <1>2, <1>3
  <2>2. used'.fault = 0 => used.fault = 0 /\ n = 0
    BY <1>2
  <2> QED  BY <1>0, <1>1, <1>2, <1>8, <2>1, <2>2, PoliciesKept
<1>15. /\ (e => ctx[r].seid = 0 /\ ctx[r].tun)
       /\ c.seid = (IF e /\ o = "ok" THEN NewSeid ELSE ctx[r].seid)
       /\ used'.lost = (IF o = "lost" THEN used.lost \cup {r} ELSE used.lost)
       /\ (o # "ok" => e)
  BY DEF EstStep
<1>16. \A s \in DOMAIN sess : s \in Nat \ {0}
  BY <1>0 DEF Types
<1>17. Seids'
  <2> SUFFICES ASSUME NEW i \in Refs \ used'.lost, NEW s \in DOMAIN sess', sess'[s] = i
               PROVE  s = ctx'[i].seid
    BY DEF Seids
  <2>1. i \in Refs \ used.lost
    BY <1>15
  <2>2. CASE sess' = sess /\ ~(e /\ o # "drop")
    <3>1. s = ctx[i].seid
      BY <1>0, <2>1, <2>2 DEF Seids
    <3>2. ~(e /\ o = "ok")
      BY <2>2
    <3>3. ctx'[i].seid = ctx[i].seid
      BY <1>3, <1>15, <3>2
    <3> QED  BY <3>1, <3>3
  <2>3. CASE /\ e /\ o # "drop"
             /\ NewSeid \in Nat \ {0} /\ sess'[NewSeid] = r
             /\ \A z \in DOMAIN sess' \ {NewSeid} : z \in DOMAIN sess /\ sess'[z] = sess[z]
    <3>1. CASE i = r
      <4>1. o = "ok" /\ ctx[r].seid = 0 /\ c.seid = NewSeid
        BY <1>15, <2>3, <3>1 DEF Exchange
      <4>2. s # NewSeid => s \in DOMAIN sess /\ sess[s] = r
        BY <2>3, <3>1
      <4>3. s # NewSeid => s = 0
        BY <1>0, <2>1, <3>1, <4>1, <4>2 DEF Seids
      <4> QED  BY <1>3, <1>16, <3>1, <4>1, <4>2, <4>3
    <3>2. CASE i # r
      <4>1. s \in DOMAIN sess /\ sess[s] = i
        BY <2>3, <3>2
      <4> QED  BY <1>0, <1>3, <2>1, <3>2, <4>1 DEF Seids
    <3> QED  BY <3>1, <3>2
  <2> QED  BY <1>5, <2>2, <2>3
<1>18. Clean'
  <2> SUFFICES ASSUME Faultless'
               PROVE  /\ assoc' = "up" /\ down'.cur = None /\ used'.lost = {}
                      /\ \A i \in Refs :
                            /\ (ctx'[i].tun /\ lock'[i] # "est" => ctx'[i].seid # 0)
                            /\ (~ctx'[i].tun \/ Ending(i)' => Gone(i)')
    BY DEF Clean
  <2>1. Faultless /\ o = "ok" /\ (lock[r] = "est" => e) /\ (e => ~Ending(r)') /\ (Ending(r)' => Ending(r))
    BY <1>2 DEF EstStep, Faultless
  <2>2. assoc' = "up" /\ down'.cur = None /\ used'.lost = {}
    BY <1>0, <1>1, <1>15, <2>1 DEF Clean
  <2>3. \A i \in Refs \ {r} : Gone(i) => Gone(i)'
    BY <1>5 DEF Gone
  <2>4. ASSUME NEW i \in Refs \ {r}
        PROVE  /\ (ctx'[i].tun /\ lock'[i] # "est" => ctx'[i].seid # 0)
               /\ (~ctx'[i].tun \/ Ending(i)' => Gone(i)')
    <3>1. Ending(i)' <=> Ending(i)
      BY <1>1, <1>8 DEF Ending, Pend, Touch
    <3>2. ctx'[i] = ctx[i] /\ lock'[i] = lock[i]
      BY <1>3, <1>4
    <3> QED  BY <1>0, <2>1, <2>3, <3>1, <3>2 DEF Clean
  <2>5. /\ (ctx'[r].tun /\ lock'[r] # "est" => ctx'[r].seid # 0)
        /\ (~ctx'[r].tun \/ Ending(r)' => Gone(r)')
    <3>1. CASE e
      <4>1. ctx'[r].seid = NewSeid /\ NewSeid # 0 /\ ctx'[r].tun
        BY <1>1, <1>3, <1>5, <1>15, <2>1, <3>1
      <4> QED  BY <2>1, <3>1, <4>1
    <3>2. CASE ~e
      <4>1. ctx'[r].seid = ctx[r].seid /\ ctx'[r].tun = ctx[r].tun /\ sess' = sess /\ lock[r] # "est"
        BY <1>1, <1>3, <1>5, <1>15, <2>1, <3>2
      <4>2. Gone(r) => Gone(r)'
        BY <4>1 DEF Gone
      <4> QED  BY <1>0, <2>1, <4>1, <4>2 DEF Clean
    <3> QED  BY <3>1, <3>2
  <2> QED  BY <2>2, <2>4, <2>5
<1> QED  BY <1>7, <1>9, <1>10, <1>11, <1>12, <1>13, <1>14, <1>17, <1>18 DEF SessInv

LEMMA EstablishKeeps ==
    ASSUME SessInv, NEW r \in Refs, NEW o \in Exchange, NEW x \in 0..1, NEW n \in 0..1,
           Establish(r, o, x, n)
    PROVE  SessInv'
<1> DEFINE p == ctx[r].psi
           ok == o = "ok" /\ assoc = "up"
           sent == x = 0 /\ amf[p] # None
           y == IF ok THEN NewSeid ELSE 0
           z == IF ~ok THEN "InActive" ELSE IF sent THEN "Active" ELSE ctx[r].state
           w == IF ~ok /\ sent THEN n = 1 ELSE ctx[r].policy
           c == [ctx[r] EXCEPT !.seid = y, !.state = z, !.policy = w]
           e == assoc = "up"
           m == Lost(o) + x + n
<1>00. PICK k : k = IF ~ok /\ sent THEN 1 ELSE 0
  OBVIOUS
<1>0. Types /\ Est /\ ctx[r] \in Ctx
  BY DEF SessInv, Types
<1>1. /\ lock[r] = "est" /\ r \in pool /\ ~Pend(r) /\ ctx[r].tun /\ ctx[r].seid = 0
      /\ ctx[r].state = "ActivePending" /\ ~ctx[r].dup /\ r \in 1..nref
  BY <1>0 DEF Establish, Est, Types
<1>2. /\ (o # "ok" => e) /\ (~(~ok /\ sent) => n = 0)
      /\ FailEst(m, r, o)
      /\ IF e /\ o # "drop" THEN UpfNewSess(r) ELSE UNCHANGED upf
      /\ ctx' = [ctx EXCEPT ![r].seid = y, ![r].state = z, ![r].policy = w]
      /\ IF ~ok /\ sent
           THEN Spawn(r, TRUE, 1) /\ sdm' = UnSubscribe(1) /\ pcf' = Terminated(r, 1, n)
           ELSE UNCHANGED <<rm, sdm, pcf>>
      /\ Owe(p, {"SetupRsp"}) \/ owed' = owed
      /\ lock' = [lock EXCEPT ![r] = "free"]
      /\ UNCHANGED <<names, ipq, jobs, amf, req>>
  BY DEF Establish
<1>3. y \in Nat /\ z \in States /\ w \in BOOLEAN
  <2>1. ok /\ o # "drop" /\ e => NewSeid \in Nat
    BY <1>0, <1>2, Established
  <2>2. ok => NewSeid \in Nat
    BY <2>1
  <2> QED  BY <1>0, <2>2 DEF Ctx, States
<1>4. m \in Nat /\ (m = 0 => n = 0 /\ x = 0 /\ o = "ok")
  BY DEF Lost
<1>5. /\ used' \in Counts /\ used'.fault = used.fault + m
      /\ used'.restart = used.restart /\ used'.late = used.late
      /\ used'.lost = IF o = "lost" THEN used.lost \cup {r} ELSE used.lost
  <2> HIDE DEF m
  <2> QED  BY <1>0, <1>2, <1>4, EstFailed
<1>6. /\ (used'.fault = 0 => used.fault = 0 /\ n = 0 /\ o = "ok")
      /\ (Faultless' => Faultless /\ o = "ok")
  <2> HIDE DEF m
  <2>1. used'.fault = 0 => used.fault = 0 /\ m = 0
    BY <1>0, <1>4, <1>5 DEF Types, Counts
  <2> QED  BY <1>4, <1>5, <2>1 DEF Faultless
<1>7. Faultless' => ok
  BY <1>6 DEF SessInv, Clean
<1>8. (~(~ok /\ sent) => w = ctx[r].policy) /\ (ok => z # "InActive" /\ z # "InActivePending")
  BY <1>1
<1>9. y = (IF e /\ o = "ok" THEN NewSeid ELSE ctx[r].seid)
  BY <1>1
<1> HIDE DEF y, z, w, m
<1>10. c \in Ctx /\ c.sel = ctx[r].sel /\ c.ip = ctx[r].ip /\ c.tun = ctx[r].tun
       /\ c.seid = y /\ c.policy = w /\ c.state = z /\ c.dup = ctx[r].dup
  BY <1>0, <1>3 DEF Ctx
<1>11. ctx' = [ctx EXCEPT ![r] = c]
  BY <1>0, <1>2, <1>3 DEF Types
<1> HIDE DEF c
<1>12. /\ rm' \in [Refs -> [BOOLEAN -> Nat]] /\ (\A i \in Refs \ {r} : rm'[i] = rm[i])
       /\ (Pend(r)' => k > 0 \/ Pend(r)) /\ (ok => rm' = rm)
       /\ sdm' = UnSubscribe(k) /\ pcf' = Terminated(r, k, n)
  <2>1. CASE ~ok /\ sent
    <3>1. k = 1 /\ Spawn(r, TRUE, 1) /\ sdm' = UnSubscribe(1) /\ pcf' = Terminated(r, 1, n)
      BY <1>00, <1>2, <2>1
    <3> QED  BY <1>0, <2>1, <3>1, Spawned
  <2>2. CASE ~(~ok /\ sent)
    <3>1. k = 0 /\ n = 0 /\ rm' = rm /\ sdm' = sdm /\ pcf' = pcf
      BY <1>00, <1>2, <2>2
    <3>2. sdm' = UnSubscribe(0) /\ pcf' = Terminated(r, 0, 0)
      BY <1>0, <3>1, NothingEnds
    <3> QED  BY <1>0, <3>1, <3>2 DEF Types, Pend
  <2> QED  BY <2>1, <2>2
<1>13. owed' \in [Psis -> SUBSET Answers] /\ amf' \in [Psis -> 0..nref]
  BY <1>0, <1>2, OweType DEF Answers, Types
<1>14. ok => ~Ending(r)'
  <2>1. ctx'[r] = c /\ pool' = pool
    BY <1>0, <1>2, <1>10, <1>11, CtxSet DEF names
  <2>2. ok => ~Pend(r)'
    BY <1>1, <1>12 DEF Pend
  <2> QED  BY <1>1, <1>8, <1>10, <2>1, <2>2 DEF Ending
<1>15. UNCHANGED <<names, ipq, cb, down, assoc, req>> /\ pol' \subseteq pol
  BY <1>2 DEF jobs
<1>16. k = 0 => c.policy = ctx[r].policy
  BY <1>00, <1>8, <1>10
<1>17. ok => e
  OBVIOUS
<1>18. k \in Nat /\ n \in Nat /\ e \in BOOLEAN
  BY <1>00
<1> HIDE DEF ok, sent, p
<1>19. /\ (Faultless' => Faultless) /\ (Faultless' /\ lock[r] = "est" => e)
       /\ (Faultless' /\ e => ~Ending(r)') /\ (Faultless' /\ Ending(r)' => Ending(r))
  BY <1>6, <1>7, <1>14, <1>17
<1>20. c.seid = (IF e /\ o = "ok" THEN NewSeid ELSE ctx[r].seid)
  BY <1>9, <1>10
<1>21. EstStep(r, o, e, c, k, n)
  <2> HIDE DEF e
  <2> QED
    BY <1>1, <1>2, <1>5, <1>6, <1>10, <1>11, <1>12, <1>13, <1>15, <1>16, <1>19, <1>20, Zenon DEF EstStep
<1> HIDE DEF e
<1> QED  BY <1>1, <1>10, <1>18, <1>21, EstStepKeeps

LEMMA PolicyUpdateKeeps ==
    ASSUME SessInv, NEW r \in Refs, NEW o \in Exchange, PolicyUpdate(r, o)
    PROVE  SessInv'
<1> DEFINE e == ctx[r].tun /\ ctx[r].seid = 0 /\ assoc = "up"
           y == IF e /\ o = "ok" THEN NewSeid ELSE ctx[r].seid
           c == [ctx[r] EXCEPT !.state = "ModificationPending", !.seid = y]
<1>0. Types /\ Fresh /\ ctx[r] \in Ctx
  BY DEF SessInv, Types
<1>2. /\ lock[r] = "policy" /\ (o # "ok" => e)
      /\ FailEst(Lost(o), r, o)
      /\ IF e /\ o # "drop" THEN UpfNewSess(r) ELSE UNCHANGED upf
      /\ ctx' = [ctx EXCEPT ![r].state = "ModificationPending", ![r].seid = y]
      /\ pol' = pol \ {r} /\ lock' = [lock EXCEPT ![r] = "free"]
      /\ UNCHANGED <<names, ipq, rm, cb, down, assoc, pcf, sdm, amf, req, owed>>
  BY <1>0 DEF PolicyUpdate
<1>1. r \in 1..nref
  <2>1. r > nref => lock[r] = "free"
    BY <1>0 DEF Fresh
  <2>2. r \in Nat /\ nref \in Nat /\ r >= 1
    BY <1>0, RefsAre, SmfSessionAssumption DEF Refs
  <2> QED  BY <1>2, <2>1, <2>2
<1>3. y \in Nat /\ "ModificationPending" \in States
  <2>1. e /\ o = "ok" => NewSeid \in Nat
    <3>1. e /\ o = "ok" => UpfNewSess(r)
      BY <1>2
    <3> QED  BY <1>0, <3>1, Established
  <2> QED  BY <1>0, <2>1 DEF Ctx, States
<1>4. Lost(o) \in Nat /\ (Lost(o) = 0 => o = "ok")
  BY DEF Lost
<1>5. /\ used' \in Counts /\ used'.fault = used.fault + Lost(o)
      /\ used'.restart = used.restart /\ used'.late = used.late
      /\ used'.lost = IF o = "lost" THEN used.lost \cup {r} ELSE used.lost
  BY <1>0, <1>2, <1>4, EstFailed
<1>6. /\ (used'.fault = 0 => used.fault = 0 /\ o = "ok")
      /\ (Faultless' => Faultless /\ o = "ok")
  <2>1. used'.fault = 0 => used.fault = 0 /\ Lost(o) = 0
    BY <1>0, <1>4, <1>5 DEF Types, Counts
  <2> QED  BY <1>4, <1>5, <2>1 DEF Faultless
<1>7. Faultless' => ~e
  BY <1>2, <1>6 DEF SessInv, Clean
<1>8. e \in BOOLEAN
  BY <1>0 DEF Ctx
<1> HIDE DEF y
<1>10. c \in Ctx /\ c.sel = ctx[r].sel /\ c.ip = ctx[r].ip /\ c.tun = ctx[r].tun
       /\ c.seid = y /\ c.policy = ctx[r].policy /\ c.state = "ModificationPending" /\ c.dup = ctx[r].dup
  BY <1>0, <1>3 DEF Ctx
<1>11. ctx' = [ctx EXCEPT ![r] = c]
  BY <1>0, <1>2, <1>3 DEF Types
<1> HIDE DEF c
<1>12. /\ rm' \in [Refs -> [BOOLEAN -> Nat]] /\ (\A i \in Refs \ {r} : rm'[i] = rm[i])
       /\ (Pend(r)' <=> Pend(r)) /\ sdm' = UnSubscribe(0) /\ pcf' = Terminated(r, 0, 0)
  BY <1>0, <1>2, NothingEnds DEF Types, Pend
<1>13. owed' \in [Psis -> SUBSET Answers] /\ amf' \in [Psis -> 0..nref]
  BY <1>0, <1>2 DEF Types
<1>14. Ending(r)' => Ending(r)
  <2>1. ctx'[r] = c /\ pool' = pool
    BY <1>0, <1>2, <1>10, <1>11, CtxSet DEF names
  <2> QED  BY <1>10, <1>12, <2>1 DEF Ending
<1>15. UNCHANGED <<names, ipq, cb, down, assoc, req>> /\ pol' \subseteq pol
  BY <1>2
<1>16. (e => ctx[r].seid = 0 /\ ctx[r].tun) /\ lock[r] # "est"
  BY <1>2
<1>17. c.seid = (IF e /\ o = "ok" THEN NewSeid ELSE ctx[r].seid)
  BY <1>10 DEF y
<1> HIDE DEF e
<1>18. 0 \in Nat
  OBVIOUS
<1>19. EstStep(r, o, e, c, 0, 0)
  BY <1>2, <1>5, <1>6, <1>7, <1>10, <1>11, <1>12, <1>13, <1>14, <1>15, <1>16, <1>17, Zenon DEF EstStep
<1> QED  BY <1>1, <1>8, <1>10, <1>18, <1>19, EstStepKeeps

-----------------------------------------------------------------------------
(* A context is made.                                                        *)

(* The first address of the queue is given to the context r.                 *)
LEMMA Taken ==
    ASSUME Types, Addresses, NEW r \in Refs, ipq # <<>>, ipq' = Tail(ipq),
           \A i \in Refs, ip \in Ips : Holds(i, ip)' <=> Holds(i, ip) \/ (i = r /\ ip = Head(ipq)),
           \A i \in Refs : i \notin pool' => ~ctx'[i].sel
    PROVE  ipq' \in Seq(Ips) /\ Addresses'
<1>0. ipq \in Seq(Ips)
  BY DEF Types
<1>1. PICK h : h = Head(ipq)
  OBVIOUS
<1>2. /\ h \in Ips /\ h = ipq[1] /\ 1 \in DOMAIN ipq
      /\ ipq' \in Seq(Ips) /\ Len(ipq') = Len(ipq) - 1 /\ Len(ipq) \in Nat \ {0}
      /\ DOMAIN ipq' = 1..(Len(ipq) - 1) /\ DOMAIN ipq = 1..Len(ipq)
      /\ \A i \in DOMAIN ipq' : ipq'[i] = ipq[i + 1]
  BY <1>0, <1>1
<1>3. \A i \in DOMAIN ipq' : i + 1 \in DOMAIN ipq /\ i + 1 # 1 /\ i \in Nat
  BY <1>2
<1>4. \A i \in DOMAIN ipq' : ipq'[i] # h /\ ipq'[i] \in Ips
  BY <1>0, <1>2, <1>3 DEF Addresses
<1>5. \A i \in Refs : ~Holds(i, h)
  BY <1>2 DEF Addresses
<1> HIDE DEF Holds
<1>6. \A i, j \in DOMAIN ipq' : ipq'[i] = ipq'[j] => i = j
  <2> SUFFICES ASSUME NEW i \in DOMAIN ipq', NEW j \in DOMAIN ipq', ipq'[i] = ipq'[j]
               PROVE  i = j
    OBVIOUS
  <2>1. i + 1 = j + 1
    BY <1>2, <1>3 DEF Addresses
  <2> QED  BY <1>3, <2>1
<1>7. \A i \in DOMAIN ipq' : \A q \in Refs : ~Holds(q, ipq[i])'
  <2> SUFFICES ASSUME NEW i \in DOMAIN ipq', NEW q \in Refs PROVE ~Holds(q, ipq[i])'
    OBVIOUS
  <2>1. PICK z : z = ipq'[i]
    OBVIOUS
  <2>2. z \in Ips /\ z # h /\ ~Holds(q, z)
    <3>1. z = ipq[i + 1] /\ i + 1 \in DOMAIN ipq
      BY <1>2, <1>3, <2>1
    <3> QED  BY <1>4, <2>1, <3>1 DEF Addresses
  <2>3. ~(q \in pool' /\ ctx'[q].sel /\ ctx'[q].ip = z)
    BY <1>1, <2>2 DEF Holds
  <2> QED  BY <2>1, <2>3 DEF Holds
<1>8. \A a \in Ips : (\E i \in DOMAIN ipq' : ipq'[i] = a) \/ (\E q \in Refs : Holds(q, a)')
  <2> SUFFICES ASSUME NEW a \in Ips
               PROVE  (\E i \in DOMAIN ipq' : ipq'[i] = a) \/ (\E q \in Refs : Holds(q, a)')
    OBVIOUS
  <2>1. CASE \E i \in DOMAIN ipq : ipq[i] = a
    <3>1. PICK i \in DOMAIN ipq : ipq[i] = a
      BY <2>1
    <3>2. CASE i = 1
      <4>1. Holds(r, a)'
        BY <1>1, <1>2, <3>1, <3>2
      <4> QED  BY <4>1
    <3>3. CASE i # 1
      <4>1. i - 1 \in DOMAIN ipq' /\ (i - 1) + 1 = i
        BY <1>2, <3>3
      <4>2. ipq'[i - 1] = a
        BY <1>2, <3>1, <4>1
      <4> QED  BY <4>1, <4>2
    <3> QED  BY <3>2, <3>3
  <2>2. CASE \E q \in Refs : Holds(q, a)
    BY <2>2
  <2> QED  BY <2>1, <2>2 DEF Addresses
<1>9. \A a \in Ips : \A q, s \in Refs : Holds(q, a)' /\ Holds(s, a)' => q = s
  BY <1>1, <1>5 DEF Addresses
<1> QED  BY <1>2, <1>6, <1>7, <1>8, <1>9 DEF Addresses

(* A context that is made as b; t: with an address.                          *)
Made(r, b, t) ==
    /\ nref' = r /\ pool' = pool \cup {r} /\ canon' = [canon EXCEPT ![req.psi] = r]
    /\ req' = Idle /\ ctx' = [ctx EXCEPT ![r] = b] /\ b.seid = 0 /\ b.dup = FALSE
    /\ IF t THEN ipq # <<>> /\ ipq' = Tail(ipq) /\ b.sel /\ b.ip = Head(ipq)
            ELSE ipq' = ipq /\ b.sel = FALSE
    /\ UNCHANGED <<jobs, upf, owed>>
    /\ used' \in Counts /\ used'.lost = used.lost
    /\ (used'.fault = 0 => used.fault = 0) /\ (Faultless' => Faultless)
(* How it starts: as it should, failed, or failed and ended.                 *)
Starts(r, b) ==
    /\ b.policy /\ b.tun /\ b.state = "ActivePending"
    /\ pcf' = pcf \cup {r} /\ sdm' = sdm + 1 /\ lock' = [lock EXCEPT ![r] = "est"]
    /\ amf' = [amf EXCEPT ![req.psi] = r] /\ rm' = rm
Fails(r, b) ==
    /\ b.tun = FALSE /\ UNCHANGED <<lock, amf>>
    /\ pcf' = pcf \/ (pcf' = pcf \cup {r} /\ used'.fault # 0)
    /\ \/ UNCHANGED <<rm, sdm>> 
       \/ Spawn(r, FALSE, 1) /\ sdm' = UnSubscribe(1)

(* Such a step keeps the invariant.                                          *)
LEMMA MadeKeeps ==
    ASSUME SessInv, nref < MaxRef, NEW r, r = nref + 1, NEW b \in Ctx, NEW t \in BOOLEAN,
           Made(r, b, t), Starts(r, b) \/ Fails(r, b)
    PROVE  SessInv'
<1>0. Types /\ Serving /\ Holders /\ Fresh /\ Est /\ Addresses /\ Sdm /\ Policies /\ Seids /\ Clean
  BY DEF SessInv
<1>1. nref \in Nat /\ r \in Refs /\ r \in Nat /\ r > nref /\ 1..nref \subseteq 1..r /\ r \in 1..r
      /\ r \notin 1..nref /\ 0..nref \subseteq 0..r /\ r \in 0..r /\ 0 \in 0..r
      /\ r \notin pool /\ r \notin pcf /\ pool \subseteq Refs /\ pcf \subseteq Refs
  BY <1>0, RefsAre, SmfSessionAssumption DEF Refs, Types
<1>2. /\ ctx[r] = NoCtx /\ lock[r] = "free" /\ ~Pend(r)
      /\ rm[r][TRUE] = 0 /\ rm[r][FALSE] = 0
  <2>1. ctx[r] = NoCtx /\ lock[r] = "free" /\ rm[r][TRUE] = 0 /\ rm[r][FALSE] = 0
    BY <1>0, <1>1 DEF Fresh
  <2>2. ~(0 > 0)
    OBVIOUS
  <2> QED  BY <2>1, <2>2, Zenon DEF Pend
<1>3. /\ nref' = r /\ pool' = pool \cup {r} /\ canon' = [canon EXCEPT ![req.psi] = r]
      /\ req' = Idle /\ ctx' = [ctx EXCEPT ![r] = b] /\ b.seid = 0 /\ b.dup = FALSE
      /\ UNCHANGED <<cb, pol, down, assoc, sess, sfree, owed>>
      /\ used' \in Counts /\ used'.lost = used.lost
      /\ (used'.fault = 0 => used.fault = 0) /\ (Faultless' => Faultless)
  BY DEF Made, jobs, upf
<1>4. ctx' \in [Refs -> Ctx] /\ ctx'[r] = b /\ \A i \in Refs \ {r} : ctx'[i] = ctx[i]
  BY <1>0, <1>1, <1>3, CtxSet
<1>5. /\ rm' \in [Refs -> [BOOLEAN -> Nat]] /\ \A i \in Refs \ {r} : rm'[i] = rm[i]
      /\ (Starts(r, b) => ~Pend(r)')
  <2>1. CASE rm' = rm
    BY <1>0, <1>2, <2>1 DEF Types, Pend
  <2>2. CASE rm' # rm
    <3>1. ~Starts(r, b) /\ Spawn(r, FALSE, 1)
      BY <2>2 DEF Starts, Fails
    <3> QED  BY <1>0, <1>1, <3>1, Spawned
  <2> QED  BY <2>1, <2>2
<1>6. /\ lock' \in [Refs -> Locks] /\ \A i \in Refs \ {r} : lock'[i] = lock[i]
      /\ (Starts(r, b) => lock'[r] = "est") /\ (Fails(r, b) => lock'[r] = "free")
  <2>1. "est" \in Locks
    BY DEF Locks
  <2>2. Starts(r, b) => lock' = [lock EXCEPT ![r] = "est"]
    BY DEF Starts
  <2>3. Fails(r, b) => lock' = lock
    BY DEF Fails
  <2>4. lock \in [Refs -> Locks]
    BY <1>0 DEF Types
  <2> QED  BY <1>1, <1>2, <2>1, <2>2, <2>3, <2>4
<1>7. /\ pcf' \subseteq 1..r /\ sdm' \in Nat /\ amf' \in [Psis -> 0..r]
      /\ (Fails(r, b) => sdm' <= sdm)
  <2>1. pcf' \subseteq 1..r
    BY <1>0, <1>1 DEF Starts, Fails, Types
  <2>2. UnSubscribe(1) \in Nat /\ UnSubscribe(1) <= sdm /\ sdm \in Nat
    BY <1>0, Ended_ DEF Types
  <2>5. Starts(r, b) => sdm' = sdm + 1
    BY DEF Starts
  <2>6. Fails(r, b) => sdm' = sdm \/ sdm' = UnSubscribe(1)
    BY DEF Fails
  <2>3. sdm' \in Nat /\ (Fails(r, b) => sdm' <= sdm)
    BY <2>2, <2>5, <2>6
  <2>4. amf' \in [Psis -> 0..r]
    BY <1>0, <1>1 DEF Starts, Fails, Types
  <2> QED  BY <2>1, <2>3, <2>4
<1>8. canon' \in [Psis -> 0..r]
  BY <1>0, <1>1, <1>3 DEF Types
<1>9. ipq' \in Seq(Ips) /\ Addresses'
  <2>1. \A i \in Refs : i \notin pool' => ~ctx'[i].sel
    BY <1>0, <1>1, <1>3, <1>4 DEF Addresses
  <2>2. CASE t
    <3>1. ipq # <<>> /\ ipq' = Tail(ipq) /\ b.sel /\ b.ip = Head(ipq)
      BY <2>2 DEF Made
    <3>2. \A i \in Refs, ip \in Ips : Holds(i, ip)' <=> Holds(i, ip) \/ (i = r /\ ip = Head(ipq))
      BY <1>1, <1>3, <1>4, <3>1 DEF Holds
    <3> QED  BY <1>0, <1>1, <2>1, <3>1, <3>2, Taken
  <2>3. CASE ~t
    <3>1. ipq' = ipq /\ b.sel = FALSE
      BY <2>3 DEF Made
    <3>2. \A i \in Refs : \A ip : Holds(i, ip)' <=> Holds(i, ip)
      BY <1>1, <1>3, <1>4, <3>1 DEF Holds
    <3>3. ipq' \in Seq(Ips)
      BY <1>0, <3>1 DEF Types
    <3> QED  BY <1>0, <2>1, <3>1, <3>2, <3>3 DEF Addresses
  <2> QED  BY <2>2, <2>3
<1>10. Types'
  <2>1. req' \in [m : AllMsgs \cup Answers \cup {"none", "LocalRelease", "New"},
                  psi : Psis \cup {None}, ref : 0..r]
    BY <1>1, <1>3 DEF Idle, None
  <2>2. r \in 0..MaxRef /\ pool' \subseteq 1..r /\ pol' \subseteq 1..r
        /\ down' \in [todo : SUBSET (1..r), cur : 0..r]
    <3>1. pool \subseteq 1..nref /\ pol \subseteq 1..nref /\ down \in [todo : SUBSET (1..nref), cur : 0..nref]
      BY <1>0 DEF Types
    <3>2. r \in 0..MaxRef
      BY <1>1, SmfSessionAssumption DEF Refs
    <3> QED  BY <1>1, <1>3, <3>1, <3>2
  <2> QED  BY <1>0, <1>3, <1>4, <1>5, <1>6, <1>7, <1>8, <1>9, <2>1, <2>2 DEF Types, Requests
<1>11. Serving'
  BY <1>3 DEF Serving, Idle
<1>12. Holders'
  <2>1. lock'[r] # "notify"
    BY <1>6
  <2> QED  BY <1>0, <1>5, <1>6, <2>1 DEF Holders
<1>13. Fresh'
  <2>1. \A i \in Refs : i > r => i \in Refs \ {r} /\ i > nref
    BY <1>1 DEF Refs
  <2> SUFFICES ASSUME NEW i \in Refs, i > r
               PROVE  /\ ctx'[i] = NoCtx /\ lock'[i] = "free" /\ cb'[i] = {}
                      /\ rm'[i][TRUE] = 0 /\ rm'[i][FALSE] = 0
    BY <1>3 DEF Fresh
  <2>2. i \in Refs \ {r} /\ i > nref
    BY <2>1
  <2>3. ctx'[i] = ctx[i] /\ lock'[i] = lock[i] /\ cb'[i] = cb[i] /\ rm'[i] = rm[i]
    BY <1>3, <1>4, <1>5, <1>6, <2>2
  <2>4. ctx[i] = NoCtx /\ lock[i] = "free" /\ cb[i] = {} /\ rm[i][TRUE] = 0 /\ rm[i][FALSE] = 0
    BY <1>0, <2>2 DEF Fresh
  <2> QED  BY <2>3, <2>4, Zenon
<1>14. \A i \in Refs \ {r} : Pend(i)' <=> Pend(i)
  BY <1>5 DEF Pend
<1>15. Est'
  <2> SUFFICES ASSUME NEW i \in Refs, lock'[i] = "est"
               PROVE  /\ i \in pool' /\ ~Pend(i)'
                      /\ ctx'[i].tun /\ ctx'[i].seid = 0 /\ ctx'[i].state = "ActivePending" /\ ~ctx'[i].dup
    BY DEF Est
  <2>1. CASE i = r
    <3>1. Starts(r, b)
      BY <1>6, <2>1
    <3> QED  BY <1>3, <1>4, <1>5, <2>1, <3>1 DEF Starts
  <2>2. CASE i # r
    BY <1>0, <1>3, <1>4, <1>6, <1>14, <2>2 DEF Est
  <2> QED  BY <2>1, <2>2
<1>16. Sdm'
  <2>1. IsFiniteSet(Live) /\ Cardinality(Live) \in Nat /\ IsFiniteSet(Live') /\ Cardinality(Live') \in Nat
        /\ sdm \in Nat /\ sdm <= Cardinality(Live)
    BY <1>0, <1>10, LiveFinite, LiveFiniteNext DEF Sdm, Types
  <2>2. Live \subseteq Live' /\ r \notin Live /\ (~Pend(r)' => Live \cup {r} \subseteq Live')
    BY <1>1, <1>3, <1>14 DEF Live
  <2>3. CASE Starts(r, b)
    <3>1. Cardinality(Live \cup {r}) = Cardinality(Live) + 1
      BY <2>1, <2>2, FS_AddElement
    <3>2. Cardinality(Live \cup {r}) <= Cardinality(Live')
      BY <1>5, <2>1, <2>2, <2>3, FS_Subset
    <3>3. sdm' = sdm + 1
      BY <2>3 DEF Starts
    <3> QED  BY <2>1, <3>1, <3>2, <3>3 DEF Sdm
  <2>4. CASE Fails(r, b)
    <3>1. Cardinality(Live) <= Cardinality(Live')
      BY <2>1, <2>2, FS_Subset
    <3> QED  BY <1>7, <2>1, <2>4, <3>1 DEF Sdm
  <2> QED  BY <2>3, <2>4
<1>17. Policies'
  <2> SUFFICES ASSUME used'.fault = 0, NEW i \in pcf'
               PROVE  i \in pool' /\ ctx'[i].policy /\ ~Pend(i)'
    BY DEF Policies
  <2>1. used.fault = 0
    BY <1>3
  <2>2. CASE i \in pcf
    <3>1. i \in pool /\ ctx[i].policy /\ ~Pend(i) /\ i \in Refs \ {r}
      BY <1>0, <1>1, <2>1, <2>2 DEF Policies
    <3> QED  BY <1>3, <1>4, <1>14, <3>1
  <2>3. CASE i \notin pcf
    <3>1. i = r /\ Starts(r, b)
      BY <2>3 DEF Starts, Fails
    <3> QED  BY <1>3, <1>4, <1>5, <3>1 DEF Starts
  <2> QED  BY <2>2, <2>3
<1>18. Seids'
  <2>1. \A i \in Refs : ctx'[i].seid = ctx[i].seid
    BY <1>2, <1>3, <1>4 DEF NoCtx
  <2> QED  BY <1>0, <1>3, <2>1 DEF Seids
<1>19. Clean'
  <2> SUFFICES ASSUME Faultless'
               PROVE  /\ assoc' = "up" /\ down'.cur = None /\ used'.lost = {}
                      /\ \A i \in Refs :
                            /\ (ctx'[i].tun /\ lock'[i] # "est" => ctx'[i].seid # 0)
                            /\ (~ctx'[i].tun \/ Ending(i)' => Gone(i)')
    BY DEF Clean
  <2>1. Faultless
    BY <1>3
  <2>2. assoc' = "up" /\ down'.cur = None /\ used'.lost = {}
    BY <1>0, <1>3, <2>1 DEF Clean
  <2>3. Gone(r)
    BY <1>0, <1>1, <1>2, <2>1 DEF Clean, NoCtx
  <2>4. \A i : Gone(i)' <=> Gone(i)
    BY <1>3 DEF Gone
  <2>5. ctx'[r].tun => lock'[r] = "est"
    BY <1>4, <1>6 DEF Fails
  <2>6. ASSUME NEW i \in Refs \ {r}
        PROVE  /\ (ctx'[i].tun /\ lock'[i] # "est" => ctx'[i].seid # 0)
               /\ (~ctx'[i].tun \/ Ending(i)' => Gone(i)')
    <3>1. Ending(i)' <=> Ending(i)
      BY <1>3, <1>4, <1>14 DEF Ending
    <3>2. ctx'[i] = ctx[i] /\ lock'[i] = lock[i]
      BY <1>4, <1>6
    <3> QED  BY <1>0, <2>1, <2>4, <3>1, <3>2 DEF Clean
  <2> QED  BY <2>2, <2>3, <2>4, <2>5, <2>6
<1> QED  BY <1>9, <1>10, <1>11, <1>12, <1>13, <1>15, <1>16, <1>17, <1>18, <1>19 DEF SessInv

LEMMA CreateKeeps ==
    ASSUME SessInv, NEW o \in CreateOutcomes, NEW n \in 0..1, Create(o, n)
    PROVE  SessInv'
<1>00. PICK r : r = nref + 1
  OBVIOUS
<1>01. PICK p : p = req.psi
  OBVIOUS
<1>02. PICK h : h = Head(ipq)
  OBVIOUS
<1> DEFINE c == [NoCtx EXCEPT !.psi = p, !.state = "ActivePending"]
           d == [c EXCEPT !.ip = h, !.sel = TRUE]
           b1 == [c EXCEPT !.state = "InActive"]
           b2 == [d EXCEPT !.state = "InActive"]
           w == n = 1
           b3 == [d EXCEPT !.state = "InActive", !.policy = w]
           b4 == [d EXCEPT !.policy = TRUE, !.tun = TRUE]
<1>0. Types /\ p \in Psis \cup {None} /\ nref < MaxRef
  BY <1>01 DEF SessInv, Serving, Types, Requests, Create
<1>1. /\ nref' = r /\ pool' = pool \cup {r} /\ canon' = [canon EXCEPT ![req.psi] = r] /\ req' = Idle
      /\ UNCHANGED <<jobs, upf, owed>>
  BY <1>00 DEF Create
<1>2. NoCtx \in Ctx /\ "ActivePending" \in States /\ "InActive" \in States /\ w \in BOOLEAN
  BY NoCtxType DEF States
<1>3. ipq # <<>> => h \in Ips
  BY <1>0, <1>02 DEF Types
<1>4. /\ c \in Ctx /\ c.seid = 0 /\ c.dup = FALSE /\ c.sel = FALSE /\ c.tun = FALSE
      /\ c.state = "ActivePending"
  <2>1. NoCtx.seid = 0 /\ NoCtx.dup = FALSE /\ NoCtx.sel = FALSE /\ NoCtx.tun = FALSE
    BY DEF NoCtx
  <2> QED  BY <1>0, <1>2, <2>1 DEF Ctx
<1> HIDE DEF c, w
<1>5. b1 \in Ctx /\ b1.seid = 0 /\ b1.dup = FALSE /\ b1.sel = FALSE /\ b1.tun = FALSE
  BY <1>2, <1>4 DEF Ctx
<1>6. ipq # <<>> =>
        /\ d \in Ctx /\ d.seid = 0 /\ d.dup = FALSE /\ d.sel = TRUE /\ d.ip = h /\ d.tun = FALSE
        /\ d.state = "ActivePending"
  BY <1>3, <1>4 DEF Ctx
<1> HIDE DEF d
<1>7. ipq # <<>> =>
        /\ b2 \in Ctx /\ b2.seid = 0 /\ b2.dup = FALSE /\ b2.sel = TRUE /\ b2.ip = h /\ b2.tun = FALSE
        /\ b3 \in Ctx /\ b3.seid = 0 /\ b3.dup = FALSE /\ b3.sel = TRUE /\ b3.ip = h /\ b3.tun = FALSE
        /\ b4 \in Ctx /\ b4.seid = 0 /\ b4.dup = FALSE /\ b4.sel = TRUE /\ b4.ip = h
        /\ b4.policy = TRUE /\ b4.tun = TRUE /\ b4.state = "ActivePending"
  BY <1>2, <1>6 DEF Ctx
<1>8. \/ /\ o = "noToken" /\ Fail(1)
         /\ ctx' = [ctx EXCEPT ![r] = c]
         /\ UNCHANGED <<ipq, lock, rm, pcf, sdm, amf>>
      \/ /\ o = "ok" /\ ipq = <<>>
         /\ ctx' = [ctx EXCEPT ![r] = b1]
         /\ Spawn(r, FALSE, 1) /\ sdm' = UnSubscribe(1)
         /\ UNCHANGED <<ipq, lock, pcf, amf, used>>
      \/ /\ ipq # <<>> /\ Fail(1)
         /\ ipq' = Tail(ipq)
         /\ ctx' = [ctx EXCEPT ![r] = b2]
         /\ pcf' = pcf \/ pcf' = pcf \cup {r}
         /\ Spawn(r, FALSE, 1) /\ sdm' = UnSubscribe(1)
         /\ UNCHANGED <<lock, amf>>
      \/ /\ ipq # <<>> /\ Fail(1 + n)
         /\ ipq' = Tail(ipq)
         /\ ctx' = [ctx EXCEPT ![r] = b3]
         /\ pcf' = pcf \/ pcf' = pcf \cup {r}
         /\ Spawn(r, FALSE, 1) /\ sdm' = UnSubscribe(1)
         /\ UNCHANGED <<lock, amf>>
      \/ /\ o = "ok" /\ ipq # <<>>
         /\ ipq' = Tail(ipq)
         /\ ctx' = [ctx EXCEPT ![r] = b4]
         /\ Starts(r, b4) /\ used' = used
  <2>1. CASE o = "noToken"
    BY <1>00, <1>01, <2>1 DEF Create, c
  <2>2. CASE o = "ok" /\ ipq = <<>>
    BY <1>00, <1>01, <2>2 DEF Create, c
  <2>3. CASE o \in {"noPolicy", "policyLost"}
    BY <1>00, <1>01, <1>02, <2>3 DEF Create, c, d
  <2>4. CASE o = "noPath"
    BY <1>00, <1>01, <1>02, <2>4 DEF Create, c, d, w
  <2>5. CASE o = "ok" /\ ipq # <<>>
    <3>1. /\ ipq' = Tail(ipq)
          /\ ctx' = [ctx EXCEPT ![r] = b4]
          /\ pcf' = pcf \cup {r} /\ sdm' = sdm + 1
          /\ lock' = [lock EXCEPT ![r] = "est"]
          /\ amf' = [amf EXCEPT ![req.psi] = r]
          /\ UNCHANGED <<rm, used>>
      BY <1>00, <1>01, <1>02, <2>5 DEF Create, c, d
    <3> HIDE DEF b4
    <3> QED  BY <1>7, <2>5, <3>1 DEF Starts
  <2> QED  BY <2>1, <2>2, <2>3, <2>4, <2>5 DEF CreateOutcomes
<1> HIDE DEF b1, b2, b3, b4
<1>9. 1 \in Nat /\ 1 + n \in Nat /\ 1 # 0 /\ 1 + n # 0 /\ used \in Counts /\ used.fault \in Nat
  BY <1>0 DEF Types, Counts
<1>10. ASSUME NEW m \in Nat, m # 0, Fail(m)
       PROVE  used' \in Counts /\ used'.lost = used.lost /\ used'.fault # 0 /\ (Faultless' => Faultless)
  <2>1. /\ used' \in Counts /\ used'.fault = used.fault + m
        /\ used'.restart = used.restart /\ used'.late = used.late /\ used'.lost = used.lost
    BY <1>0, <1>10, Failed
  <2>2. used'.fault # 0
    BY <1>9, <1>10, <2>1
  <2> QED  BY <2>1, <2>2 DEF Faultless
<1>11. CASE o = "noToken" /\ Fail(1)
            /\ ctx' = [ctx EXCEPT ![r] = c]
            /\ UNCHANGED <<ipq, lock, rm, pcf, sdm, amf>>
  <2>1. Made(r, c, FALSE)
    BY <1>1, <1>4, <1>9, <1>10, <1>11 DEF Made
  <2>2. Fails(r, c)
    BY <1>4, <1>11 DEF Fails
  <2> QED  BY <1>0, <1>00, <1>4, <2>1, <2>2, MadeKeeps
<1>12. CASE o = "ok" /\ ipq = <<>>
            /\ ctx' = [ctx EXCEPT ![r] = b1]
            /\ Spawn(r, FALSE, 1) /\ sdm' = UnSubscribe(1)
            /\ UNCHANGED <<ipq, lock, pcf, amf, used>>
  <2>1. Made(r, b1, FALSE)
    BY <1>1, <1>5, <1>9, <1>12 DEF Made, Faultless
  <2>2. Fails(r, b1)
    BY <1>5, <1>12 DEF Fails
  <2> QED  BY <1>0, <1>00, <1>5, <2>1, <2>2, MadeKeeps
<1>13. CASE ipq # <<>> /\ Fail(1)
            /\ ipq' = Tail(ipq)
            /\ ctx' = [ctx EXCEPT ![r] = b2]
            /\ (pcf' = pcf \/ pcf' = pcf \cup {r})
            /\ Spawn(r, FALSE, 1) /\ sdm' = UnSubscribe(1)
            /\ UNCHANGED <<lock, amf>>
  <2>1. Made(r, b2, TRUE) /\ used'.fault # 0
    BY <1>02, <1>1, <1>7, <1>9, <1>10, <1>13 DEF Made
  <2>2. Fails(r, b2)
    BY <1>7, <1>13, <2>1 DEF Fails
  <2> QED  BY <1>0, <1>00, <1>7, <1>13, <2>1, <2>2, MadeKeeps
<1>14. CASE ipq # <<>> /\ Fail(1 + n)
            /\ ipq' = Tail(ipq)
            /\ ctx' = [ctx EXCEPT ![r] = b3]
            /\ (pcf' = pcf \/ pcf' = pcf \cup {r})
            /\ Spawn(r, FALSE, 1) /\ sdm' = UnSubscribe(1)
            /\ UNCHANGED <<lock, amf>>
  <2>1. Made(r, b3, TRUE) /\ used'.fault # 0
    BY <1>02, <1>1, <1>7, <1>9, <1>10, <1>14 DEF Made
  <2>2. Fails(r, b3)
    BY <1>7, <1>14, <2>1 DEF Fails
  <2> QED  BY <1>0, <1>00, <1>7, <1>14, <2>1, <2>2, MadeKeeps
<1>15. CASE o = "ok" /\ ipq # <<>>
            /\ ipq' = Tail(ipq)
            /\ ctx' = [ctx EXCEPT ![r] = b4]
            /\ Starts(r, b4) /\ used' = used
  <2>1. Made(r, b4, TRUE)
    BY <1>02, <1>1, <1>7, <1>9, <1>15 DEF Made, Faultless
  <2> QED  BY <1>0, <1>00, <1>7, <1>15, <2>1, MadeKeeps
<1> QED  BY <1>8, <1>11, <1>12, <1>13, <1>14, <1>15

-----------------------------------------------------------------------------
(* The invariant holds.                                                      *)
LEMMA InitHolds == Init => SessInv
<1> SUFFICES ASSUME Init PROVE SessInv
  OBVIOUS
<1>0. /\ nref = 0 /\ ctx = [r \in Refs |-> NoCtx] /\ pool = {} /\ canon = [p \in Psis |-> None]
      /\ ipq \in [1..Cardinality(Ips) -> Ips] /\ (\A i, j \in DOMAIN ipq : ipq[i] = ipq[j] => i = j)
      /\ lock = [r \in Refs |-> "free"]
      /\ rm = [r \in Refs |-> [n \in BOOLEAN |-> 0]] /\ cb = [r \in Refs |-> {}]
      /\ pol = {} /\ down = NotDown /\ assoc = "up" /\ sess = <<>> /\ sfree = <<>>
      /\ pcf = {} /\ sdm = 0 /\ amf = [p \in Psis |-> None] /\ req = Idle
      /\ owed = [p \in Psis |-> {}]
      /\ used = [sent |-> 0, late |-> FALSE, lost |-> {}, fault |-> 0, restart |-> 0, notify |-> 0]
  BY DEF Init
<1>1. IsFiniteSet(Ips) /\ Cardinality(Ips) \in Nat
  BY SmfSessionAssumption, FS_CardinalityType
<1>2. ipq \in Seq(Ips) /\ DOMAIN ipq = 1..Cardinality(Ips)
  BY <1>0, <1>1
<1>3. \A a \in Ips : \E i \in DOMAIN ipq : ipq[i] = a
  <2> SUFFICES ASSUME NEW a \in Ips, \A i \in DOMAIN ipq : ipq[i] # a
               PROVE  FALSE
    OBVIOUS
  <2>1. PICK n \in Nat : n = Cardinality(Ips)
    BY <1>1
  <2>2. IsFiniteSet(1..n) /\ Cardinality(1..n) = n
    BY FS_Interval
  <2>3. IsFiniteSet(Ips \ {a}) /\ Cardinality(Ips \ {a}) = n - 1
    BY <1>1, <2>1, FS_RemoveElement
  <2>4. ipq \in [1..n -> Ips \ {a}]
    BY <1>0, <2>1
  <2>5. Cardinality(Ips \ {a}) < Cardinality(1..n)
    BY <2>1, <2>2, <2>3
  <2>6. \E x, y \in 1..n : x # y /\ ipq[x] = ipq[y]
    BY <2>2, <2>3, <2>4, <2>5, FS_PigeonHole
  <2> QED  BY <1>0, <1>2, <2>1, <2>6
<1>4. 0 \in 0..MaxRef /\ 0 \in 0..0 /\ nref \in 0..MaxRef /\ pool \subseteq 1..nref /\ pol \subseteq 1..nref
      /\ pcf \subseteq 1..nref /\ 0 \in 0..nref
  BY <1>0, SmfSessionAssumption
<1>5. Types
  <2>1. ctx \in [Refs -> Ctx]
    BY <1>0, NoCtxType
  <2>2. lock \in [Refs -> Locks] /\ cb \in [Refs -> SUBSET {"retry", "cancel"}]
        /\ rm \in [Refs -> [BOOLEAN -> Nat]]
    BY <1>0 DEF Locks
  <2>3. down \in [todo : SUBSET (1..nref), cur : 0..nref] /\ req \in Requests
    BY <1>0, <1>4 DEF NotDown, None, Idle, Requests
  <2>4. used \in Counts
    BY <1>0 DEF Counts
  <2>5. canon \in [Psis -> 0..nref] /\ amf \in [Psis -> 0..nref] /\ owed \in [Psis -> SUBSET Answers]
    BY <1>0, <1>4 DEF None
  <2>6. sess \in Seq(Refs \cup {None}) /\ sfree \in Seq(DOMAIN sess) /\ sdm \in Nat
    BY <1>0
  <2> QED  BY <1>0, <1>2, <1>4, <2>1, <2>2, <2>3, <2>4, <2>5, <2>6 DEF Types
<1>6. Serving
  BY <1>0 DEF Serving, Idle
<1>7. /\ \A r \in Refs : /\ ctx[r] = NoCtx /\ lock[r] = "free" /\ cb[r] = {}
                         /\ rm[r] = [n \in BOOLEAN |-> 0]
  BY <1>0
<1>8. \A r \in Refs : rm[r][TRUE] = 0 /\ rm[r][FALSE] = 0
  BY <1>7
<1>9. Holders /\ Fresh /\ Est
  BY <1>7, <1>8 DEF Holders, Fresh, Est
<1>10. Addresses
  <2>1. \A r \in Refs : ~ctx[r].sel /\ r \notin pool
    BY <1>0, <1>7 DEF NoCtx
  <2> QED  BY <1>0, <1>3, <2>1 DEF Addresses, Holds
<1>11. Sdm
  <2>1. Live = {}
    BY <1>0 DEF Live
  <2>2. Cardinality(Live) = 0
    BY <2>1, FS_EmptySet
  <2> QED  BY <1>0, <2>2 DEF Sdm
<1>12. Policies /\ Seids
  BY <1>0 DEF Policies, Seids
<1>13. Clean
  <2>1. \A r \in Refs : ~ctx[r].tun /\ Gone(r)
    BY <1>0, <1>7 DEF NoCtx, Gone
  <2> QED  BY <1>0, <2>1 DEF Clean, NotDown
<1> QED  BY <1>5, <1>6, <1>9, <1>10, <1>11, <1>12, <1>13 DEF SessInv

(* Every action keeps the invariant.                                         *)
LEMMA NextKeeps ==
    ASSUME SessInv, Next
    PROVE  SessInv'
<1>1. CASE \E p \in Psis : AmfCreate(p)
  BY <1>1, AmfCreateKeeps
<1>2. CASE \E p \in Psis, m \in Msgs \cup Answers : AmfSend(p, m)
  BY <1>2, AmfSendKeeps
<1>3. CASE Serve
  <2>1. CASE \E o \in Exchange, n \in 0..2 : LocalRelease(o, n)
    BY <2>1, LocalReleaseKeeps
  <2>2. CASE \E o \in CreateOutcomes, n \in 0..1 : Create(o, n)
    BY <2>2, CreateKeeps
  <2>3. CASE \E o \in Exchange, n \in 0..2 : ReleaseRequest(o, n)
    BY <2>3, ReleaseRequestKeeps
  <2>4. CASE \E n \in 0..2 : ReleaseComplete(n)
    BY <2>4, ReleaseCompleteKeeps
  <2>5. CASE \E n \in 0..2 : ResourceReleaseResponse(n)
    BY <2>5, ResourceReleaseResponseKeeps
  <2>6. CASE \E m \in Msgs \cup Answers, n \in 0..1 : Modify(m, n)
    BY <2>6, ModifyKeeps
  <2>7. CASE \E o \in Exchange, n \in 0..1 : Duplicate(o, n)
    BY <2>7, DuplicateKeeps
  <2>8. CASE \E o \in Exchange, n \in 0..2 : Release(o, n)
    BY <2>8, ReleaseKeeps
  <2> QED  BY <1>3, <2>1, <2>2, <2>3, <2>4, <2>5, <2>6, <2>7, <2>8 DEF Serve
<1>4. CASE Down
  <2>1. CASE HeartbeatTells \/ DownVisit \/ DownSkip
    BY <2>1, DownStepKeeps
  <2>2. CASE \E o \in {"refused", "idle", "sent"}, n \in 0..1 : DownRelease(o, n)
    BY <2>2, DownReleaseKeeps
  <2> QED  BY <1>4, <2>1, <2>2 DEF Down
<1>5. CASE UpfRestart
  BY <1>5, UpfRestartKeeps
<1>6. CASE \E r \in Refs : Background(r) \/ T3592Tick(r) \/ PolicyNotify(r)
  <2>1. PICK r \in Refs : Background(r) \/ T3592Tick(r) \/ PolicyNotify(r)
    BY <1>6
  <2>2. CASE T3592Tick(r)
    BY <2>2, T3592TickKeeps
  <2>3. CASE PolicyNotify(r)
    BY <2>3, PolicyNotifyKeeps
  <2>4. CASE Background(r)
    <3>1. CASE \E o \in Exchange, x, n \in 0..1 : Establish(r, o, x, n)
      BY <3>1, EstablishKeeps
    <3>2. CASE Remove(r)
      BY <3>2, RemoveKeeps
    <3>3. CASE \E w \in {"notify", "retry", "cancel", "policy", "down"} : TakeLock(r, w)
      BY <3>3, TakeLockKeeps
    <3>4. CASE NotifyAndRemove(r)
      BY <3>4, NotifyAndRemoveKeeps
    <3>5. CASE \E x \in 0..1 : T3592Retry(r, x)
      BY <3>5, T3592RetryKeeps
    <3>6. CASE T3592Cancel(r)
      BY <3>6, T3592CancelKeeps
    <3>7. CASE \E o \in Exchange : PolicyUpdate(r, o)
      BY <3>7, PolicyUpdateKeeps
    <3> QED  BY <2>4, <3>1, <3>2, <3>3, <3>4, <3>5, <3>6, <3>7 DEF Background
  <2> QED  BY <2>1, <2>2, <2>3, <2>4
<1> QED  BY <1>1, <1>2, <1>3, <1>4, <1>5, <1>6 DEF Next

(* And so does a step that changes nothing.                                  *)
LEMMA StutterKeeps ==
    ASSUME SessInv, UNCHANGED vars
    PROVE  SessInv'
<1>1. UNCHANGED <<nref, pool, canon, ctx, ipq, lock, rm, cb, pol, down, assoc, sess, sfree,
                  pcf, sdm, amf, req, owed, used>>
  BY DEF vars
<1>2. Types' /\ Serving'
  BY <1>1 DEF SessInv, Types, Serving, Requests
<1>3. Shrinks
  BY <1>1 DEF Shrinks
<1>4. Faultless' => Faultless
  BY <1>1 DEF Faultless
<1>5. UNCHANGED <<names, ctx, rm, lock, cb, ipq, pcf, sdm>>
  BY <1>1 DEF names
<1> QED  BY <1>1, <1>2, <1>3, <1>4, <1>5, QuietKeeps

(* The invariant is inductive.                                               *)
LEMMA SessInvHolds == Spec => []SessInv
<1>1. Init => SessInv
  BY InitHolds
<1>2. SessInv /\ [Next]_vars => SessInv'
  BY NextKeeps, StutterKeeps
<1> QED  BY <1>1, <1>2, PTL DEF Spec

-----------------------------------------------------------------------------
(* The theorems.                                                             *)

(* The contexts that are counted are among those of the pool, and there are  *)
(* at most as many as were made.                                             *)
LEMMA CountBounded ==
    ASSUME SessInv
    PROVE  sdm <= Cardinality(pool) /\ Cardinality(pool) <= nref /\ sdm \in Nat
<1>1. /\ nref \in Nat /\ pool \subseteq 1..nref /\ sdm \in Nat /\ sdm <= Cardinality(Live)
      /\ IsFiniteSet(Live) /\ Cardinality(Live) \in Nat
  BY RefsAre, LiveFinite DEF SessInv, Types, Sdm
<1>2. IsFiniteSet(pool) /\ Cardinality(pool) \in Nat
  BY <1>1, SubFinite
<1>3. Cardinality(Live) <= Cardinality(pool)
  <2>1. Live \subseteq pool
    BY DEF Live
  <2> HIDE DEF Live
  <2> QED  BY <1>2, <2>1, FS_Subset
<1>4. Cardinality(pool) <= nref
  <2>1. 1 \in Int /\ nref \in Int
    BY <1>1
  <2>2. IsFiniteSet(1..nref) /\ Cardinality(1..nref) = IF 1 > nref THEN 0 ELSE nref - 1 + 1
    BY <2>1, FS_Interval
  <2>3. Cardinality(1..nref) = nref
    BY <1>1, <2>2
  <2>4. Cardinality(pool) <= Cardinality(1..nref)
    BY <1>1, <2>2, FS_Subset
  <2> QED  BY <2>3, <2>4
<1> QED  BY <1>1, <1>2, <1>3, <1>4

(* Every variable keeps its type; the SDM count of the UE is never negative, *)
(* and never above the number of contexts ever made.                         *)
THEOREM TypeCorrect == Spec => []TypeOK
<1>1. SessInv => TypeOK
  <2> SUFFICES ASSUME SessInv PROVE TypeOK
    OBVIOUS
  <2>1. Types /\ 1..nref \subseteq Refs /\ nref \in Nat /\ nref <= MaxRef
    BY RefsAre DEF SessInv
  <2>2. sdm \in 0..nref
    <3> DEFINE c == Cardinality(pool)
    <3>1. sdm <= c /\ c <= nref /\ sdm \in Nat /\ c \in Nat
      BY <2>1, CountBounded, SubFinite DEF Types
    <3> HIDE DEF c
    <3> QED  BY <2>1, <3>1
  <2>3. 0..nref \subseteq Refs \cup {None}
    BY <2>1 DEF Refs, None
  <2>4. req \in [m : AllMsgs \cup Answers \cup {"none", "LocalRelease", "New"},
                 psi : Psis \cup {None}, ref : Refs \cup {None}]
    BY <2>1, <2>3 DEF Types, Requests
  <2>5. down.todo \subseteq Refs /\ down.cur \in Refs \cup {None} /\ pol \subseteq Refs
    BY <2>1, <2>3 DEF Types
  <2>6. ctx \in [Refs -> Ctx] /\ lock \in [Refs -> Locks]
    BY <2>1 DEF Types
  <2> QED  BY <2>1, <2>2, <2>4, <2>5, <2>6, Zenon DEF Types, TypeOK, Ctx, Locks
<1> QED  BY <1>1, SessInvHolds, PTL

(* Whatever ends a session, and however many removal goroutines run for it,  *)
(* an address is in the queue once or held by one context, never both.       *)
THEOREM UeIpAccountingHolds == Spec => []UeIpAccounting
<1>1. SessInv => UeIpAccounting
  <2> SUFFICES ASSUME SessInv, NEW ip \in Ips
               PROVE  Cardinality({i \in DOMAIN ipq : ipq[i] = ip})
                        + Cardinality({r \in pool : ctx[r].sel /\ ctx[r].ip = ip}) = 1
    BY DEF UeIpAccounting
  <2> DEFINE free == {i \in DOMAIN ipq : ipq[i] = ip}
             held == {r \in pool : ctx[r].sel /\ ctx[r].ip = ip}
  <2>1. Addresses /\ pool \subseteq Refs
    BY RefsAre DEF SessInv
  <2>2. \A i, j \in free : i = j
    BY <2>1 DEF Addresses
  <2>3. \A r, o \in held : r = o
    BY <2>1 DEF Addresses, Holds
  <2>4. free = {} \/ held = {}
    <3>1. \A i \in DOMAIN ipq : \A r \in Refs : ~Holds(r, ipq[i])
      BY <2>1 DEF Addresses
    <3> QED  BY <2>1, <3>1 DEF Holds
  <2>5. free # {} \/ held # {}
    <3>1. (\E i \in DOMAIN ipq : ipq[i] = ip) \/ (\E r \in Refs : Holds(r, ip))
      BY <2>1 DEF Addresses
    <3> QED  BY <3>1 DEF Holds
  <2>6. Cardinality({}) = 0 /\ \A x : Cardinality({x}) = 1
    BY FS_EmptySet, FS_Singleton
  <2> HIDE DEF free, held
  <2>7. CASE free = {}
    <3>1. PICK r : held = {r}
      BY <2>3, <2>5, <2>7
    <3>2. Cardinality(free) = 0 /\ Cardinality(held) = 1
      BY <2>6, <2>7, <3>1
    <3> QED  BY <3>2 DEF free, held
  <2>8. CASE held = {}
    <3>1. PICK i : free = {i}
      BY <2>2, <2>5, <2>8
    <3>2. Cardinality(free) = 1 /\ Cardinality(held) = 0
      BY <2>6, <2>8, <3>1
    <3> QED  BY <3>2 DEF free, held
  <2> QED  BY <2>4, <2>7, <2>8
<1> QED  BY <1>1, SessInvHolds, PTL

(* As long as no call fails, every association of the PCF has its context in *)
(* the pool, whichever procedures raced for the removal.                     *)
THEOREM PolicyEndsHolds == Spec => []PolicyEnds
<1>1. SessInv => PolicyEnds
  BY DEF SessInv, Policies, PolicyEnds
<1> QED  BY <1>1, SessInvHolds, PTL

(* The SDM subscription of the UE ends with its contexts, or before.         *)
THEOREM SdmReleasedHolds == Spec => []SdmReleased
<1>1. SessInv => SdmReleased
  BY CountBounded DEF SdmReleased
<1> QED  BY <1>1, SessInvHolds, PTL

(* A context leaves no session in the UPF, unless an exchange failed, the    *)
(* UPF restarted or a Release Complete came when nothing was being released. *)
THEOREM NoOrphanSessionHolds == Spec => []NoOrphanSession
<1>1. SessInv => NoOrphanSession
  <2> SUFFICES ASSUME SessInv, Faultless, NEW r \in 1..nref \ pool
               PROVE  Sessions(r) = {}
    BY DEF NoOrphanSession, Faultless
  <2>1. r \in Refs
    BY RefsAre DEF SessInv
  <2>2. Gone(r)
    BY <2>1 DEF SessInv, Clean, Ending
  <2> QED  BY <2>2 DEF Gone, Sessions
<1> QED  BY <1>1, SessInvHolds, PTL

(* A step either has the UPF delete a session at the SMF's word, or takes no *)
(* session away but by the UPF's restart.                                    *)
LEMMA Deletions ==
    ASSUME SessInv, Next
    PROVE  \/ req.ref \in Refs /\ \E o \in Exchange : releaseSession(req.ref, o)
           \/ \E r \in Refs : UpfNewSess(r)
           \/ sess' = sess
           \/ sess' = <<>>
<1>1. CASE \E p \in Psis : AmfCreate(p)
  BY <1>1 DEF AmfCreate, upf
<1>2. CASE \E p \in Psis, m \in Msgs \cup Answers : AmfSend(p, m)
  BY <1>2 DEF AmfSend, upf
<1>3. CASE Serve
  <2>1. CASE \E o \in Exchange, n \in 0..2 : LocalRelease(o, n)
    BY <2>1, Served DEF LocalRelease
  <2>2. CASE \E o \in CreateOutcomes, n \in 0..1 : Create(o, n)
    BY <2>2 DEF Create, upf
  <2>3. CASE \E o \in Exchange, n \in 0..2 : ReleaseRequest(o, n)
    BY <2>3, Served DEF ReleaseRequest, Handling
  <2>4. CASE \E n \in 0..2 : ReleaseComplete(n)
    BY <2>4 DEF ReleaseComplete, upf
  <2>5. CASE \E n \in 0..2 : ResourceReleaseResponse(n)
    BY <2>5 DEF ResourceReleaseResponse, upf
  <2>6. CASE \E m \in Msgs \cup Answers, n \in 0..1 : Modify(m, n)
    BY <2>6 DEF Modify, upf
  <2>7. CASE \E o \in Exchange, n \in 0..1 : Duplicate(o, n)
    BY <2>7, Served DEF Duplicate, Handling, upf
  <2>8. CASE \E o \in Exchange, n \in 0..2 : Release(o, n)
    BY <2>8, Served DEF Release, Handling
  <2> QED  BY <1>3, <2>1, <2>2, <2>3, <2>4, <2>5, <2>6, <2>7, <2>8 DEF Serve
<1>4. CASE Down
  BY <1>4 DEF Down, HeartbeatTells, DownVisit, DownSkip, DownRelease, upf
<1>5. CASE UpfRestart
  BY <1>5 DEF UpfRestart
<1>6. CASE \E r \in Refs : Background(r) \/ T3592Tick(r) \/ PolicyNotify(r)
  <2>1. PICK r \in Refs : Background(r) \/ T3592Tick(r) \/ PolicyNotify(r)
    BY <1>6
  <2>2. CASE T3592Tick(r) \/ PolicyNotify(r)
    BY <2>2 DEF T3592Tick, PolicyNotify, upf
  <2>3. CASE \E o \in Exchange, x, n \in 0..1 : Establish(r, o, x, n)
    BY <2>3 DEF Establish, upf
  <2>4. CASE \E o \in Exchange : PolicyUpdate(r, o)
    BY <2>4 DEF PolicyUpdate, upf
  <2>5. CASE Remove(r) \/ NotifyAndRemove(r) \/ T3592Cancel(r)
    BY <2>5 DEF Remove, NotifyAndRemove, T3592Cancel, upf
  <2>6. CASE \E w \in {"notify", "retry", "cancel", "policy", "down"} : TakeLock(r, w)
    BY <2>6 DEF TakeLock, upf
  <2>7. CASE \E x \in 0..1 : T3592Retry(r, x)
    BY <2>7 DEF T3592Retry, upf
  <2> QED  BY <2>1, <2>2, <2>3, <2>4, <2>5, <2>6, <2>7 DEF Background
<1> QED  BY <1>1, <1>2, <1>3, <1>4, <1>5, <1>6 DEF Next

(* A deletion hits the session of another context only when the UPF has none *)
(* of the own one, or one whose establishment it answered in vain.           *)
THEOREM StraysOnlyStaleHolds == Spec => StraysOnlyStale
<1> DEFINE Stray(s) == /\ s \in DOMAIN sess' /\ sess[s] # None /\ sess'[s] = None
                       /\ sess[s] # req.ref
           Fair == \A s \in DOMAIN sess : Stray(s) => Sessions(req.ref) = {} \/ req.ref \in used.lost
<1>1. SessInv /\ [Next]_vars => Fair
  <2> SUFFICES ASSUME SessInv, [Next]_vars, NEW s \in DOMAIN sess, Stray(s), req.ref \notin used.lost
               PROVE  Sessions(req.ref) = {}
    BY Zenon
  <2>1. Types
    BY DEF SessInv
  <2>2. CASE req.ref \in Refs /\ \E o \in Exchange : releaseSession(req.ref, o)
    <3>1. PICK r \in Refs : r = req.ref
      BY <2>2
    <3>2. PICK o \in Exchange : releaseSession(r, o)
      BY <2>2, <3>1
    <3>3. s = ctx[r].seid
      BY <2>1, <3>2, Released
    <3>4. \A t \in DOMAIN sess : sess[t] = r => t = s
      BY <3>1, <3>3 DEF SessInv, Seids
    <3>5. \A t \in DOMAIN sess : sess[t] # r
      BY <3>1, <3>4
    <3> QED  BY <3>1, <3>5 DEF Sessions
  <2>3. CASE \E r \in Refs : UpfNewSess(r)
    <3>1. PICK r \in Refs : UpfNewSess(r)
      BY <2>3
    <3>2. sess'[NewSeid] = r /\ \A t \in DOMAIN sess' \ {NewSeid} : sess'[t] = sess[t]
      BY <2>1, <3>1, Established
    <3>3. r # None
      BY <2>1, RefsAre
    <3> QED  BY <3>2, <3>3
  <2>4. CASE sess' = sess
    BY <2>4
  <2>5. CASE sess' = <<>>
    BY <2>5
  <2>6. CASE UNCHANGED vars
    BY <2>6 DEF vars
  <2> QED  BY <2>2, <2>3, <2>4, <2>5, <2>6, Deletions
<1>2. Fair => \A s \in DOMAIN sess :
          /\ s \in DOMAIN sess' /\ sess[s] # None /\ sess'[s] = None
          /\ sess[s] # req.ref
          => Sessions(req.ref) = {} \/ req.ref \in used.lost
  OBVIOUS
<1> QED  BY <1>1, SessInvHolds, PTL DEF Spec, StraysOnlyStale
=============================================================================
