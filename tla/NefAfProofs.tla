----------------------------- MODULE NefAfProofs -----------------------------
(***************************************************************************)
(* Proofs about NefAf for every set of goroutines, AFs and applications and *)
(* any number of requests.                                                   *)
(***************************************************************************)
EXTENDS NefAf, FiniteSetTheorems, TLAPS

SubType == [corre : Nat, sess : Nat, influ : BOOLEAN]
ObjType == [id : Afs, subs : [Ids -> SubType], numSub : Nat, trans : [Ids -> SUBSET Apps],
            open : SUBSET Nat, numTrans : Nat, w : Threads \cup {NoThread}]
Holding == {"correid", "call", "addaf", "pfd"}      \* with AfData.Mu
Located == Holding \cup {"lockaf", "rlock"}         \* with an AfData
Pcs == Located \cup {"idle", "check", "scan", "getaf"}
ThType == [pc : Pcs, op : AllOps \cup {"none"}, a : Afs \cup {0}, h : Nat, id : Nat,
           apps : SUBSET Apps, ask : SUBSET Apps, cur : Apps \cup {0}, seen : SUBSET Nat,
           sub : SubType, del : SUBSET Apps, put : SUBSET Apps, ok : SUBSET Apps]

PeerTypes ==
    /\ readers \subseteq Threads /\ waiting \subseteq Threads
    /\ numCorreID \in Nat /\ nsess \in Nat /\ posts \in 0..MaxPosts
    /\ sessions \subseteq 1..nsess /\ influ \subseteq 1..numCorreID /\ pfds \subseteq Apps
Types ==
    /\ PeerTypes
    /\ nobj \in Nat /\ afs \in [Afs -> 0..nobj]
    /\ th \in [Threads -> ThType] /\ obj \in [Objs -> ObjType]

(* What a goroutine may rely on where it is.                                 *)
Handler(t) ==
    /\ th[t].pc # "idle" => th[t].op \in AllOps /\ th[t].a \in Afs
    /\ th[t].pc \in {"check", "scan"} => th[t].op \in Validated \cup {"smfNotify"}
    /\ th[t].pc \in Located => th[t].h \in 1..nobj
    /\ th[t].pc \in Holding => obj[th[t].h].w = t
    /\ th[t].pc = "correid" => th[t].op \in Posting
    /\ th[t].pc = "call" =>
         /\ th[t].sub.corre \in 1..numCorreID
         /\ th[t].op \notin Posting => th[t].id \in Ids /\ obj[th[t].h].subs[th[t].id] = th[t].sub
    /\ th[t].pc = "pfd" /\ th[t].op = "pfdPost" => th[t].id \in 1..obj[th[t].h].numTrans

Object(h) ==
    /\ \A i \in Ids : obj[h].subs[i] # NoSub => obj[h].subs[i].corre \in 1..numCorreID
    /\ obj[h].open \subseteq 1..obj[h].numTrans
    /\ obj[h].numSub <= numCorreID
    /\ h > nobj => \A i \in Ids : obj[h].subs[i] = NoSub

(* A subscription a POST is about to store.                                  *)
Pending(t) == th[t].op \in Posting /\ th[t].pc = "call"
Corre(h, i) == obj[h].subs[i].corre
Distinct ==
    /\ \A g, h \in Objs, i, j \in Ids : Corre(g, i) # 0 /\ Corre(g, i) = Corre(h, j) => g = h /\ i = j
    /\ \A t \in Threads : Pending(t) => \A h \in Objs, i \in Ids : Corre(h, i) # th[t].sub.corre
    /\ \A t, u \in Threads : Pending(t) /\ Pending(u) /\ t # u => th[t].sub.corre # th[u].sub.corre

(* The requests that may still make an AfData, a NotifCorreID, an app session *)
(* or a transaction: each of them was counted in posts.                       *)
MakesAf == {t \in Threads : th[t].op \in Posting /\ th[t].pc = "getaf"}
MakesSub == {t \in Threads : th[t].op \in Posting /\ th[t].pc \in {"getaf", "lockaf", "correid"}}
MakesSess == {t \in Threads : /\ th[t].op \in {"qosPost", "tiPost", "tiPut"}
                              /\ th[t].pc \notin {"idle", "addaf"}}
MakesTrans == {t \in Threads : /\ th[t].op = "pfdPost"
                               /\ th[t].pc \in {"check", "scan", "getaf", "lockaf"}}
Counts ==
    /\ nobj + Cardinality(MakesAf) <= Cardinality(KnownAfs) + posts
    /\ numCorreID + Cardinality(MakesSub) <= posts
    /\ nsess + Cardinality(MakesSess) <= posts
    /\ \A h \in Objs : obj[h].numTrans + Cardinality(MakesTrans) <= posts

NefInv ==
    /\ Types
    /\ \A t \in Threads : Handler(t)
    /\ \A h \in Objs : Object(h)
    /\ Distinct
    /\ Counts

(* Handlers work on an AfData of their AF, and on the registered one if the  *)
(* AF was known from the start.                                               *)
Working == Located \ {"rlock"}
Settled ==
    /\ \A a \in Afs : afs[a] # 0 => obj[afs[a]].id = a
    /\ \A a \in KnownAfs : afs[a] # 0
    /\ \A h \in Objs, i \in Ids :
          obj[h].subs[i] # NoSub /\ obj[h].id \in KnownAfs => afs[obj[h].id] = h
    /\ \A t \in Threads : th[t].pc \in Working =>
          obj[th[t].h].id = th[t].a /\ (th[t].a \in KnownAfs => afs[th[t].a] = th[t].h)

-----------------------------------------------------------------------------
(* What every action shares: goroutine t acts, an AfData that changes is new *)
(* or was free or held by t, and the counters only grow.                     *)
Frame(t) ==
    /\ \A u \in Threads : u # t => th'[u] = th[u]
    /\ \A h \in Objs : obj'[h] # obj[h] => h > nobj \/ obj[h].w \in {NoThread, t}
    /\ nobj' \in Nat /\ nobj' >= nobj
    /\ numCorreID' \in Nat /\ numCorreID' >= numCorreID

(* The AfData made so far are those the bound has room for.                  *)
LEMMA NobjBound ==
    ASSUME Types, Counts
    PROVE  /\ nobj \in 0..(MaxPosts + Cardinality(Afs))
           /\ Cardinality(Afs) \in Nat /\ Cardinality(KnownAfs) \in Nat
           /\ MakesAf # {} => nobj + 1 \in Objs
<1>1. /\ Cardinality(Afs) \in Nat /\ Cardinality(KnownAfs) \in Nat
      /\ Cardinality(KnownAfs) <= Cardinality(Afs)
  BY NefAssumption, FS_Subset, FS_CardinalityType
<1>2. IsFiniteSet(MakesAf)
  BY NefAssumption, FS_Subset DEF MakesAf
<1>3. Cardinality(MakesAf) \in Nat /\ (MakesAf # {} => Cardinality(MakesAf) >= 1)
  BY <1>2, FS_CardinalityType, FS_EmptySet
<1> QED
  BY <1>1, <1>3, NefAssumption DEF Types, PeerTypes, Counts, Objs

(* The open transactions of an AF are among its possible identifiers.        *)
LEMMA OpenIds ==
    ASSUME Types, Counts, NEW h \in Objs, Object(h)
    PROVE  obj[h].open \subseteq Ids /\ obj[h].numTrans \in 0..MaxPosts
<1>1. Cardinality(MakesTrans) \in Nat
  BY NefAssumption, FS_Subset, FS_CardinalityType DEF MakesTrans
<1>2. obj[h].numTrans + Cardinality(MakesTrans) <= posts /\ posts \in 0..MaxPosts
  BY DEF Counts, Types, PeerTypes
<1>3. obj[h].numTrans \in Nat
  BY DEF Types, ObjType
<1>4. obj[h].open \subseteq 1..obj[h].numTrans
  BY DEF Object
<1> QED
  BY <1>1, <1>2, <1>3, <1>4, NefAssumption DEF Ids

(* A step of t takes nothing from the goroutines beside it.                  *)
LEMMA HandlersKept ==
    ASSUME Types, Counts, NEW t \in Threads, Frame(t), Handler(t)',
           \A u \in Threads : Handler(u)
    PROVE  \A u \in Threads : Handler(u)'
<1> SUFFICES ASSUME NEW u \in Threads, u # t PROVE Handler(u)'
  OBVIOUS
<1>1. th'[u] = th[u] /\ Handler(u) /\ numCorreID \in Nat /\ nobj \in Nat
  BY DEF Frame, Types, PeerTypes
<1>2. th[u].pc \in Holding => obj'[th[u].h] = obj[th[u].h]
  BY NobjBound, NefAssumption, <1>1 DEF Handler, Frame, Objs, Located
<1>3. th[u].pc = "call" \/ th[u].pc = "pfd" => th[u].pc \in Holding
  BY DEF Holding
<1> QED
  BY <1>1, <1>2, <1>3 DEF Handler, Frame

(* ... nor from the AfData it leaves alone.                                  *)
LEMMA ObjectKept ==
    ASSUME Types, NEW t \in Threads, Frame(t), NEW h \in Objs, Object(h), obj'[h] = obj[h]
    PROVE  Object(h)'
<1>1. numCorreID \in Nat /\ nobj \in Nat /\ h \in Nat
  BY DEF Types, PeerTypes, Objs
<1>2. obj[h] \in ObjType
  BY DEF Types
<1> QED
  BY <1>1, <1>2 DEF Object, Frame, ObjType, SubType

(* No step that gives no NotifCorreID makes two alike.                       *)
LEMMA DistinctKept ==
    ASSUME Distinct,
           \A h \in Objs, i \in Ids : Corre(h, i)' = 0 \/ Corre(h, i)' = Corre(h, i),
           \A u \in Threads : Pending(u)' => Pending(u) /\ th'[u].sub.corre = th[u].sub.corre,
           \A t \in Threads : Pending(t) => th[t].sub.corre # 0
    PROVE  Distinct'
BY DEF Distinct

(* A finite set of goroutines that gets smaller, or larger by one.           *)
LEMMA Counting ==
    ASSUME NEW A \in SUBSET Threads, NEW B, NEW t
    PROVE  /\ Cardinality(A) \in Nat
           /\ B \subseteq A => Cardinality(B) \in Nat /\ Cardinality(B) <= Cardinality(A)
           /\ B \subseteq A \ {t} /\ t \in A => Cardinality(B) \in Nat /\ Cardinality(B) + 1 <= Cardinality(A)
           /\ B \subseteq A \cup {t} => Cardinality(B) \in Nat /\ Cardinality(B) <= Cardinality(A) + 1
<1>1. IsFiniteSet(A)
  BY NefAssumption, FS_Subset
<1>2. Cardinality(A) \in Nat
  BY <1>1, FS_CardinalityType
<1>3. ASSUME B \subseteq A PROVE Cardinality(B) \in Nat /\ Cardinality(B) <= Cardinality(A)
  BY <1>1, <1>3, FS_Subset, FS_CardinalityType
<1>4. ASSUME B \subseteq A \ {t}, t \in A
      PROVE Cardinality(B) \in Nat /\ Cardinality(B) + 1 <= Cardinality(A)
  <2>1. IsFiniteSet(A \ {t}) /\ Cardinality(A \ {t}) = Cardinality(A) - 1
    BY <1>1, <1>4, FS_RemoveElement
  <2>2. Cardinality(B) \in Nat /\ Cardinality(B) <= Cardinality(A \ {t})
    BY <2>1, <1>4, FS_Subset, FS_CardinalityType
  <2> QED
    BY <1>2, <2>1, <2>2
<1>5. ASSUME B \subseteq A \cup {t}
      PROVE Cardinality(B) \in Nat /\ Cardinality(B) <= Cardinality(A) + 1
  <2>1. IsFiniteSet(A \cup {t}) /\ Cardinality(A \cup {t}) \in Nat
        /\ Cardinality(A \cup {t}) <= Cardinality(A) + 1
    BY <1>1, <1>2, FS_AddElement, FS_CardinalityType
  <2>2. Cardinality(B) \in Nat /\ Cardinality(B) <= Cardinality(A \cup {t})
    BY <2>1, <1>5, FS_Subset, FS_CardinalityType
  <2> QED
    BY <1>2, <2>1, <2>2
<1> QED
  BY <1>2, <1>3, <1>4, <1>5

(* A goroutine that leaves a set of those that may still count may count one *)
(* more; the bounds hold on.                                                 *)
LEMMA CountsMoved ==
    ASSUME Types, Counts, NEW t \in Threads, posts' = posts,
           \/ nobj' = nobj /\ MakesAf' \subseteq MakesAf
           \/ nobj' = nobj + 1 /\ t \in MakesAf /\ MakesAf' \subseteq MakesAf \ {t},
           \/ numCorreID' = numCorreID /\ MakesSub' \subseteq MakesSub
           \/ numCorreID' = numCorreID + 1 /\ t \in MakesSub /\ MakesSub' \subseteq MakesSub \ {t},
           \/ nsess' = nsess /\ MakesSess' \subseteq MakesSess
           \/ nsess' = nsess + 1 /\ t \in MakesSess /\ MakesSess' \subseteq MakesSess \ {t},
           \A h \in Objs : obj'[h].numTrans \in Nat,
           \/ /\ \A h \in Objs : obj'[h].numTrans <= obj[h].numTrans
              /\ MakesTrans' \subseteq MakesTrans
           \/ /\ \A h \in Objs : obj'[h].numTrans <= obj[h].numTrans + 1
              /\ t \in MakesTrans /\ MakesTrans' \subseteq MakesTrans \ {t}
    PROVE  Counts'
<1>1. /\ MakesAf \in SUBSET Threads /\ MakesSub \in SUBSET Threads
      /\ MakesSess \in SUBSET Threads /\ MakesTrans \in SUBSET Threads
  BY DEF MakesAf, MakesSub, MakesSess, MakesTrans
<1>2. /\ posts \in Nat /\ nobj \in Nat /\ nsess \in Nat /\ numCorreID \in Nat
      /\ \A h \in Objs : obj[h].numTrans \in Nat
      /\ Cardinality(KnownAfs) \in Nat
  BY NefAssumption, FS_Subset, FS_CardinalityType DEF Types, PeerTypes, ObjType
<1>3. nobj' + Cardinality(MakesAf') <= Cardinality(KnownAfs) + posts'
  <2>1. /\ Cardinality(MakesAf) \in Nat /\ Cardinality(MakesAf') \in Nat
        /\ \/ nobj' = nobj /\ Cardinality(MakesAf') <= Cardinality(MakesAf)
           \/ nobj' = nobj + 1 /\ Cardinality(MakesAf') + 1 <= Cardinality(MakesAf)
    BY <1>1, Counting
  <2> QED
    BY <1>2, <2>1 DEF Counts
<1>4. numCorreID' + Cardinality(MakesSub') <= posts'
  <2>1. /\ Cardinality(MakesSub) \in Nat /\ Cardinality(MakesSub') \in Nat
        /\ \/ numCorreID' = numCorreID /\ Cardinality(MakesSub') <= Cardinality(MakesSub)
           \/ numCorreID' = numCorreID + 1 /\ Cardinality(MakesSub') + 1 <= Cardinality(MakesSub)
    BY <1>1, Counting
  <2> QED
    BY <1>2, <2>1 DEF Counts
<1>5. nsess' + Cardinality(MakesSess') <= posts'
  <2>1. /\ Cardinality(MakesSess) \in Nat /\ Cardinality(MakesSess') \in Nat
        /\ \/ nsess' = nsess /\ Cardinality(MakesSess') <= Cardinality(MakesSess)
           \/ nsess' = nsess + 1 /\ Cardinality(MakesSess') + 1 <= Cardinality(MakesSess)
    BY <1>1, Counting
  <2> QED
    BY <1>2, <2>1 DEF Counts
<1>6. ASSUME NEW h \in Objs PROVE obj'[h].numTrans + Cardinality(MakesTrans') <= posts'
  <2>1. /\ Cardinality(MakesTrans) \in Nat /\ Cardinality(MakesTrans') \in Nat
        /\ \/ obj'[h].numTrans <= obj[h].numTrans /\ Cardinality(MakesTrans') <= Cardinality(MakesTrans)
           \/ obj'[h].numTrans <= obj[h].numTrans + 1 /\ Cardinality(MakesTrans') + 1 <= Cardinality(MakesTrans)
    BY <1>1, Counting
  <2>2. obj[h].numTrans + Cardinality(MakesTrans) <= posts
    BY DEF Counts
  <2>3. obj[h].numTrans \in Nat /\ obj'[h].numTrans \in Nat
    BY <1>2
  <2> QED
    BY <1>2, <2>1, <2>2, <2>3
<1> QED
  BY <1>3, <1>4, <1>5, <1>6 DEF Counts

(* The steps that count nothing: what each of them has to show.              *)
QuietGoroutine(t) ==
    /\ th' \in [Threads -> ThType]
    /\ \A u \in Threads : u # t => th'[u] = th[u]
    /\ th'[t] # th[t] /\ th'[t].pc # "idle" =>
         /\ th'[t].op = th[t].op /\ th[t].pc \notin {"idle", "addaf"}
         /\ th'[t].pc = "getaf" => th[t].pc \in {"check", "scan"}
         /\ th'[t].pc \in {"check", "scan"} => th[t].pc \in {"check", "scan"}
         /\ th'[t].pc = "lockaf" => th[t].pc = "getaf"
         /\ th'[t].pc = "correid" => th[t].pc = "lockaf"
         /\ th'[t].pc = "call" => th'[t].op \notin Posting

(* A goroutine goes on with record r.                                        *)
LEMMA QuietStep ==
    ASSUME Types, NEW t \in Threads, NEW r \in ThType, th' = [th EXCEPT ![t] = r],
           r # th[t] /\ r.pc # "idle" =>
             /\ r.op = th[t].op /\ th[t].pc \notin {"idle", "addaf"}
             /\ r.pc = "getaf" => th[t].pc \in {"check", "scan"}
             /\ r.pc \in {"check", "scan"} => th[t].pc \in {"check", "scan"}
             /\ r.pc = "lockaf" => th[t].pc = "getaf"
             /\ r.pc = "correid" => th[t].pc = "lockaf"
             /\ r.pc = "call" => r.op \notin Posting
    PROVE  QuietGoroutine(t) /\ th'[t] = r
<1>1. th'[t] = r /\ th' \in [Threads -> ThType] /\ \A u \in Threads : u # t => th'[u] = th[u]
  BY DEF Types
<1> QED
  BY <1>1 DEF QuietGoroutine

(* A step of t that only reads, or replaces what it reads by new AfData.     *)
LEMMA QuietKeeps ==
    ASSUME NefInv, NEW t \in Threads, QuietGoroutine(t), Frame(t), Handler(t)',
           PeerTypes', posts' = posts, nobj' = nobj, numCorreID' = numCorreID,
           nsess' = nsess \/ (nsess' = nsess + 1 /\ t \in MakesSess /\ t \notin MakesSess'),
           afs' \in [Afs -> 0..nobj], obj' \in [Objs -> ObjType],
           \A h \in Objs : obj'[h].numTrans = obj[h].numTrans,
           \A h \in Objs : obj'[h] # obj[h] => Object(h)',
           \A h \in Objs, i \in Ids : Corre(h, i)' = 0 \/ Corre(h, i)' = Corre(h, i)
    PROVE  NefInv'
<1>1. Types'
  BY DEF NefInv, Types, QuietGoroutine
<1>2. \A u \in Threads : Handler(u)'
  BY HandlersKept DEF NefInv
<1>3. \A h \in Objs : Object(h)'
  BY ObjectKept DEF NefInv
<1>4. \A u \in Threads : u # t => th'[u] = th[u]
  BY DEF QuietGoroutine
<1>5. Handler(t) /\ th[t] \in ThType /\ \A u \in Threads : Handler(u)
  BY DEF NefInv, Types
<1>6. \A u \in Threads : Pending(u)' => Pending(u) /\ th'[u].sub.corre = th[u].sub.corre
  BY <1>4, <1>5 DEF Pending, QuietGoroutine
<1>7. \A u \in Threads : Pending(u) => th[u].sub.corre # 0
  BY <1>5 DEF Pending, Handler
<1>8. Distinct'
  BY <1>6, <1>7, DistinctKept DEF NefInv
<1>9. /\ MakesAf' \subseteq MakesAf /\ MakesSub' \subseteq MakesSub
      /\ MakesSess' \subseteq MakesSess /\ MakesTrans' \subseteq MakesTrans
  BY <1>4, <1>5 DEF MakesAf, MakesSub, MakesSess, MakesTrans, QuietGoroutine, Handler, Posting, Validated
<1>10. \A h \in Objs : obj[h].numTrans \in Nat
  BY DEF NefInv, Types, ObjType
<1>11. Counts'
  BY <1>9, <1>10, CountsMoved DEF NefInv
<1> QED
  BY <1>1, <1>2, <1>3, <1>8, <1>11 DEF NefInv

(* The steps that change no AfData.                                          *)
LEMMA SameObjects ==
    ASSUME NefInv, NEW t \in Threads, QuietGoroutine(t), Handler(t)', obj' = obj,
           posts' = posts, nobj' = nobj, numCorreID' = numCorreID, afs' = afs,
           readers' \subseteq Threads, waiting' \subseteq Threads, UNCHANGED peers
    PROVE  NefInv'
<1>1. Types
  BY DEF NefInv
<1>2. PeerTypes' /\ nsess' = nsess
  BY <1>1 DEF Types, PeerTypes, peers
<1>3. Frame(t)
  BY <1>1 DEF Frame, QuietGoroutine, Types, PeerTypes
<1>4. /\ afs' \in [Afs -> 0..nobj] /\ obj' \in [Objs -> ObjType]
      /\ \A h \in Objs : obj'[h].numTrans = obj[h].numTrans
      /\ \A h \in Objs, i \in Ids : Corre(h, i)' = Corre(h, i)
  BY <1>1 DEF Types, Corre
<1> QED
  BY <1>2, <1>3, <1>4, QuietKeeps

(* NefContext.mu is asked for.                                               *)
LEMMA CtxWaitKeeps ==
    ASSUME NefInv, NEW t \in Threads, CtxWait(t)
    PROVE  NefInv'
<1>1. QuietGoroutine(t)
  BY DEF CtxWait, QuietGoroutine, NefInv, Types
<1>2. Handler(t)'
  BY DEF CtxWait, NefInv, Handler
<1>3. readers' \subseteq Threads /\ waiting' \subseteq Threads
  BY DEF CtxWait, NefInv, Types, PeerTypes
<1> QED
  BY <1>1, <1>2, <1>3, SameObjects DEF CtxWait

(* The AF registered under the name of a request is one of those made.       *)
LEMMA ServedAf ==
    ASSUME Types, NEW t \in Threads, Handler(t), th[t].pc # "idle"
    PROVE  afs[th[t].a] \in 0..nobj
BY DEF Types, Handler

(* FindAfSub and IsAppIDExisted only look at AFs that are registered.        *)
LEMMA RegisteredMade ==
    ASSUME Types
    PROVE  Registered \subseteq 1..nobj
BY DEF Types, Registered, PeerTypes

LEMMA ScanBeginKeeps ==
    ASSUME NefInv, NEW t \in Threads, ScanBegin(t)
    PROVE  NefInv'
<1>1. th[t] \in ThType /\ Handler(t)
  BY DEF NefInv, Types
<1>2. PICK x \in IF th[t].op = "smfNotify" THEN {th[t].cur} ELSE th[t].ask :
          th' = [th EXCEPT ![t].pc = "scan", ![t].seen = {}, ![t].cur = x]
  BY DEF ScanBegin
<1> DEFINE r == [th[t] EXCEPT !.pc = "scan", !.seen = {}, !.cur = x]
<1>3. r \in ThType
  BY <1>1, <1>2 DEF ThType, Pcs, Located
<1>4. th' = [th EXCEPT ![t] = r]
  BY <1>1, <1>2 DEF NefInv, Types
<1>5. r.op = th[t].op /\ r.pc = "scan" /\ r.a = th[t].a /\ th[t].pc \in {"check", "scan"}
  BY <1>1, <1>2 DEF ThType, ScanBegin
<1> HIDE DEF r
<1>6. QuietGoroutine(t) /\ th'[t] = r
  BY <1>3, <1>4, <1>5, QuietStep DEF NefInv
<1>7. Handler(t)'
  BY <1>1, <1>5, <1>6 DEF Handler, Located, Holding
<1>8. readers' \subseteq Threads /\ waiting' \subseteq Threads
  BY DEF ScanBegin, NefInv, Types, PeerTypes
<1> QED
  BY <1>6, <1>7, <1>8, SameObjects DEF ScanBegin

LEMMA ScanNextKeeps ==
    ASSUME NefInv, NEW t \in Threads, ScanNext(t)
    PROVE  NefInv'
<1>1. th[t] \in ThType /\ Handler(t) /\ Registered \subseteq Nat
  BY RegisteredMade DEF NefInv, Types
<1>2. PICK h \in Registered \ th[t].seen : th' = [th EXCEPT ![t].seen = @ \cup {h}]
  BY DEF ScanNext
<1> DEFINE r == [th[t] EXCEPT !.seen = @ \cup {h}]
<1>3. r \in ThType
  BY <1>1, <1>2 DEF ThType
<1>4. th' = [th EXCEPT ![t] = r]
  BY <1>1, <1>2 DEF NefInv, Types
<1>5. r.op = th[t].op /\ r.pc = "scan" /\ r.a = th[t].a /\ th[t].pc \in {"check", "scan"}
  BY <1>1, <1>2 DEF ThType, ScanNext
<1> HIDE DEF r
<1>6. QuietGoroutine(t) /\ th'[t] = r
  BY <1>3, <1>4, <1>5, QuietStep DEF NefInv
<1>7. Handler(t)'
  BY <1>1, <1>5, <1>6 DEF Handler, Located, Holding
<1>8. readers' \subseteq Threads /\ waiting' \subseteq Threads
  BY DEF ScanNext, ctx, NefInv, Types, PeerTypes
<1> QED
  BY <1>6, <1>7, <1>8, SameObjects DEF ScanNext, ctx

LEMMA ScanEndKeeps ==
    ASSUME NefInv, NEW t \in Threads, ScanEnd(t)
    PROVE  NefInv'
<1> DEFINE on(apps) == [th[t] EXCEPT !.apps = apps, !.ask = @ \ {th[t].cur},
                                     !.pc = IF th[t].ask = {th[t].cur} THEN "getaf" ELSE "check"]
           found(h) == [th[t] EXCEPT !.pc = "rlock", !.h = h]
<1>1. th[t] \in ThType /\ Handler(t) /\ Registered \subseteq 1..nobj /\ th[t].pc = "scan"
  BY RegisteredMade DEF NefInv, Types, ScanEnd
<1>2. Idle \in ThType /\ th \in [Threads -> ThType] /\ nobj \in Nat
  BY DEF Idle, ThType, Pcs, NoSub, SubType, NefInv, Types
<1>3. \/ th' = [th EXCEPT ![t] = Idle]
      \/ \E apps \in SUBSET Apps : th' = [th EXCEPT ![t] = on(apps)]
      \/ th[t].op = "smfNotify" /\ \E h \in Registered : th' = [th EXCEPT ![t] = found(h)]
  <2> DEFINE go(apps) == [th EXCEPT ![t].apps = apps, ![t].ask = @ \ {th[t].cur},
                                    ![t].pc = IF th[t].ask = {th[t].cur} THEN "getaf" ELSE "check"]
             end(apps) == IF apps = {} THEN [th EXCEPT ![t] = Idle] ELSE go(apps)
             drop == th[t].apps \ {th[t].cur}
             hit(h) == [th EXCEPT ![t].pc = "rlock", ![t].h = h]
  <2>1. th[t].apps \subseteq Apps /\ drop \subseteq Apps
    BY <1>1 DEF ThType
  <2>2. \A apps : go(apps) = [th EXCEPT ![t] = on(apps)]
    BY <1>1, <1>2 DEF ThType
  <2>3. \A h : hit(h) = [th EXCEPT ![t] = found(h)]
    BY <1>1, <1>2 DEF ThType
  <2>4. \/ th' = [th EXCEPT ![t] = Idle]
        \/ th' = end(th[t].apps) \/ th' = end(drop)
        \/ th[t].op = "smfNotify" /\ \E h \in Registered : th' = hit(h)
    <3> HIDE DEF go, on, hit
    <3> USE DEF ScanEnd
    <3>1. \/ \E h \in Registered : th[t].op = "smfNotify" /\ th' = [th EXCEPT ![t].pc = "rlock", ![t].h = h]
          \/ th' = end(th[t].apps) \/ th' = end(drop)
          \/ th' = [th EXCEPT ![t] = Idle]
      BY DEF go
    <3> QED
      BY <3>1 DEF hit
  <2> HIDE DEF go, on, found, hit, drop
  <2> QED
    BY <2>1, <2>2, <2>3, <2>4
<1>4. /\ readers' \subseteq Threads /\ waiting' \subseteq Threads /\ obj' = obj /\ posts' = posts
      /\ nobj' = nobj /\ numCorreID' = numCorreID /\ afs' = afs /\ UNCHANGED peers
  BY DEF ScanEnd, NefInv, Types, PeerTypes
<1>5. CASE th' = [th EXCEPT ![t] = Idle]
  <2>1. QuietGoroutine(t) /\ th'[t] = Idle
    BY <1>2, <1>5, QuietStep DEF Idle, NefInv
  <2>2. Handler(t)'
    BY <2>1 DEF Handler, Idle, Located, Holding
  <2> QED
    BY <2>1, <2>2, <1>4, SameObjects
<1>6. ASSUME NEW apps \in SUBSET Apps, th' = [th EXCEPT ![t] = on(apps)]
      PROVE NefInv'
  <2>1. on(apps) \in ThType
    BY <1>1 DEF ThType, Pcs, Located
  <2>4. /\ on(apps).op = th[t].op /\ on(apps).pc \in {"getaf", "check"}
        /\ on(apps).a = th[t].a
    BY <1>1 DEF ThType
  <2> HIDE DEF on
  <2>2. QuietGoroutine(t) /\ th'[t] = on(apps)
    BY <1>1, <2>1, <1>6, <2>4, QuietStep DEF NefInv
  <2>3. Handler(t)'
    BY <1>1, <2>2, <2>4 DEF Handler, Located, Holding
  <2> QED
    BY <2>2, <2>3, <1>4, SameObjects
<1>7. ASSUME NEW h \in Registered, th[t].op = "smfNotify", th' = [th EXCEPT ![t] = found(h)]
      PROVE NefInv'
  <2>5. h \in Nat
    BY <1>1, <1>2
  <2>1. found(h) \in ThType
    BY <1>1, <2>5 DEF ThType, Pcs, Located
  <2>4. /\ found(h).op = th[t].op /\ found(h).pc = "rlock"
        /\ found(h).a = th[t].a /\ found(h).h = h
    BY <1>1 DEF ThType
  <2> HIDE DEF found
  <2>2. QuietGoroutine(t) /\ th'[t] = found(h)
    BY <1>1, <2>1, <1>7, <2>4, QuietStep DEF NefInv
  <2>3. Handler(t)'
    BY <1>1, <1>4, <2>2, <2>4 DEF Handler, Located, Holding
  <2> QED
    BY <2>2, <2>3, <1>4, SameObjects
<1> QED
  BY <1>3, <1>5, <1>6, <1>7

LEMMA SmfNotificationKeeps ==
    ASSUME NefInv, NEW t \in Threads, SmfNotification(t)
    PROVE  NefInv'
<1>1. Idle \in ThType /\ th \in [Threads -> ThType]
  BY DEF Idle, ThType, Pcs, NoSub, SubType, NefInv, Types
<1>2. QuietGoroutine(t) /\ th'[t] = Idle
  BY <1>1, QuietStep DEF SmfNotification, Idle, NefInv
<1>3. Handler(t)'
  BY <1>2 DEF Handler, Idle, Located, Holding
<1>4. readers' \subseteq Threads /\ waiting' \subseteq Threads
  BY DEF SmfNotification, ctx, NefInv, Types, PeerTypes
<1> QED
  BY <1>2, <1>3, <1>4, SameObjects DEF SmfNotification, ctx

-----------------------------------------------------------------------------
(* The steps of a goroutine that holds AfData.Mu, or takes it.               *)
Mine(t) == obj[th[t].h]     \* the AfData goroutine t works on

(* The AfData a goroutine has looked up exists.                              *)
LEMMA MineTyped ==
    ASSUME NefInv, NEW t \in Threads, th[t].pc \in Located
    PROVE  /\ th[t].h \in Objs /\ Mine(t) \in ObjType /\ th[t] \in ThType
           /\ Object(th[t].h) /\ Handler(t) /\ th[t].h <= nobj /\ th[t].h \in 0..nobj
           /\ obj \in [Objs -> ObjType] /\ th \in [Threads -> ThType]
           /\ Idle \in ThType /\ NoSub \in SubType
<1>1. /\ Types /\ Handler(t) /\ Counts /\ th \in [Threads -> ThType] /\ obj \in [Objs -> ObjType]
  BY DEF NefInv, Types
<1>2. th[t].h \in 1..nobj
  BY <1>1 DEF Handler
<1>3. th[t].h \in Objs
  BY <1>1, <1>2, NobjBound, NefAssumption DEF Objs
<1>4. th[t].h <= nobj /\ th[t].h \in 0..nobj
  BY <1>1, <1>2 DEF Types
<1>5. Idle \in ThType /\ NoSub \in SubType
  BY DEF Idle, ThType, Pcs, NoSub, SubType
<1>6. Object(th[t].h)
  BY <1>3 DEF NefInv
<1> QED
  BY <1>1, <1>3, <1>4, <1>5, <1>6 DEF Mine

(* What a step may do to the AfData it holds without counting: subscriptions *)
(* go or keep their NotifCorreID, transactions end or change applications.   *)
Lessens(t, o) ==
    /\ o \in ObjType
    /\ \A i \in Ids : o.subs[i] # NoSub => /\ Mine(t).subs[i] # NoSub
                                            /\ o.subs[i].corre = Mine(t).subs[i].corre
    /\ o.open \subseteq 1..o.numTrans
    /\ o.numSub = Mine(t).numSub /\ o.numTrans = Mine(t).numTrans

(* The end of a handler, which unlocks the AfData ...                        *)
LEMMA DoneKeeps ==
    ASSUME NefInv, NEW t \in Threads, th[t].pc \in Located, Mine(t).w \in {NoThread, t},
           NEW o, Lessens(t, o), Done(t, o), PeerTypes',
           posts' = posts, nobj' = nobj, numCorreID' = numCorreID,
           nsess' = nsess \/ (nsess' = nsess + 1 /\ t \in MakesSess),
           afs' \in [Afs -> 0..nobj]
    PROVE  NefInv'
<1>0. PICK H \in Objs : H = th[t].h
  BY MineTyped
<1> DEFINE n == [o EXCEPT !.w = NoThread]
<1>1. /\ H \in Objs /\ Mine(t) \in ObjType /\ Object(H) /\ H <= nobj /\ nobj \in Nat
      /\ obj \in [Objs -> ObjType] /\ Idle \in ThType /\ th \in [Threads -> ThType]
      /\ H \in Nat /\ numCorreID \in Nat
  BY <1>0, MineTyped DEF NefInv, Types, PeerTypes, Objs
<1>2. /\ n \in ObjType /\ n.numTrans = o.numTrans /\ n.subs = o.subs /\ n.open = o.open
      /\ n.numSub = o.numSub /\ n.w = NoThread
  BY DEF Lessens, ObjType
<1>3. obj'[H] = n /\ obj' \in [Objs -> ObjType] /\ \A h \in Objs : h # H => obj'[h] = obj[h]
  BY <1>0, <1>1, <1>2 DEF Done
<1>4. QuietGoroutine(t) /\ th'[t] = Idle
  BY <1>1, QuietStep DEF Done, Idle, NefInv
<1>5. Handler(t)'
  BY <1>4 DEF Handler, Idle, Located, Holding
<1>6. Frame(t)
  BY <1>0, <1>1, <1>3, <1>4 DEF Frame, QuietGoroutine, Mine
<1> HIDE DEF n
<1>7. Object(H)'
  BY <1>0, <1>1, <1>2, <1>3 DEF Object, Lessens, Mine
<1>8. \A h \in Objs : obj'[h].numTrans = obj[h].numTrans
  BY <1>0, <1>2, <1>3 DEF Lessens, Mine
<1>9. \A h \in Objs, i \in Ids : Corre(h, i)' = 0 \/ Corre(h, i)' = Corre(h, i)
  BY <1>0, <1>2, <1>3 DEF Lessens, Mine, Corre, NoSub
<1>10. t \notin MakesSess'
  BY <1>4 DEF MakesSess, Idle
<1> QED
  BY <1>10, <1>3, <1>4, <1>5, <1>6, <1>7, <1>8, <1>9, QuietKeeps

(* ... or goes on with the AfData locked.                                    *)
LEMMA HoldKeeps ==
    ASSUME NefInv, NEW t \in Threads, th[t].pc \in Located, Mine(t).w \in {NoThread, t},
           NEW o, Lessens(t, o), NEW r \in ThType, Hold(t, o, r), PeerTypes',
           r.h = th[t].h, r.a = th[t].a, r.op = th[t].op, r.pc \in Holding,
           th[t].pc # "addaf",
           r.pc = "correid" => r.op \in Posting /\ th[t].pc = "lockaf",
           r.pc = "call" => /\ r.op \notin Posting /\ r.id \in Ids
                            /\ o.subs[r.id] = r.sub /\ r.sub.corre \in 1..numCorreID,
           r.pc = "pfd" /\ r.op = "pfdPost" => r.id \in 1..o.numTrans,
           posts' = posts, nobj' = nobj, nsess' = nsess, numCorreID' = numCorreID,
           afs' \in [Afs -> 0..nobj]
    PROVE  NefInv'
<1>0. PICK H \in Objs : H = th[t].h
  BY MineTyped
<1> DEFINE n == [o EXCEPT !.w = t]
<1>1. /\ H \in Objs /\ Mine(t) \in ObjType /\ Object(H) /\ H <= nobj /\ nobj \in Nat
      /\ obj \in [Objs -> ObjType] /\ Handler(t) /\ th \in [Threads -> ThType]
      /\ H \in Nat /\ numCorreID \in Nat
  BY <1>0, MineTyped DEF NefInv, Types, PeerTypes, Objs
<1>2. /\ n \in ObjType /\ n.numTrans = o.numTrans /\ n.subs = o.subs /\ n.open = o.open
      /\ n.numSub = o.numSub /\ n.w = t
  BY DEF Lessens, ObjType
<1>3. obj'[H] = n /\ obj' \in [Objs -> ObjType] /\ \A h \in Objs : h # H => obj'[h] = obj[h]
  BY <1>0, <1>1, <1>2 DEF Hold
<1>4. QuietGoroutine(t) /\ th'[t] = r
  BY <1>1, QuietStep DEF Hold, NefInv, Holding, Located
<1> HIDE DEF n
<1>5. Handler(t)'
  BY <1>0, <1>1, <1>2, <1>3, <1>4 DEF Handler, Located, Holding
<1>6. Frame(t)
  BY <1>0, <1>1, <1>3, <1>4 DEF Frame, QuietGoroutine, Mine
<1>7. Object(H)'
  BY <1>0, <1>1, <1>2, <1>3 DEF Object, Lessens, Mine
<1>8. \A h \in Objs : obj'[h].numTrans = obj[h].numTrans
  BY <1>0, <1>2, <1>3 DEF Lessens, Mine
<1>9. \A h \in Objs, i \in Ids : Corre(h, i)' = 0 \/ Corre(h, i)' = Corre(h, i)
  BY <1>0, <1>2, <1>3 DEF Lessens, Mine, Corre, NoSub
<1> QED
  BY <1>3, <1>4, <1>5, <1>6, <1>7, <1>8, <1>9, QuietKeeps

(* Work on an AfData that starts and ends without change of its contents.    *)
LEMMA MineLessens ==
    ASSUME NefInv, NEW t \in Threads, th[t].pc \in Located
    PROVE  Lessens(t, Mine(t))
BY MineTyped DEF Lessens, Object, Mine

(* A goroutine that holds an AfData meets no other holder.                   *)
LEMMA HeldByMe ==
    ASSUME NefInv, NEW t \in Threads, th[t].pc \in Holding
    PROVE  Mine(t).w \in {NoThread, t} /\ th[t].pc \in Located
BY DEF NefInv, Handler, Mine, Located

(* The peers' data stay what the UPF, PCF and UDR can hold.                  *)
LEMMA PeerTypesKept ==
    ASSUME Types, UNCHANGED <<readers, waiting, numCorreID, nsess, posts>>,
           sessions' \subseteq sessions, influ' \subseteq influ \cup 1..numCorreID,
           pfds' \subseteq Apps
    PROVE  PeerTypes'
BY DEF Types, PeerTypes

LEMMA AddAfKeeps ==
    ASSUME NefInv, NEW t \in Threads, AddAf(t)
    PROVE  NefInv'
<1>1. th[t].pc = "addaf" /\ Types
  BY DEF AddAf, CtxLocked, NefInv
<1>2. /\ Mine(t).w \in {NoThread, t} /\ Lessens(t, Mine(t)) /\ th[t].pc \in Located
      /\ th[t].h \in 0..nobj
  BY <1>1, MineLessens, HeldByMe, MineTyped DEF Holding
<1>3. PeerTypes'
  BY <1>1 DEF AddAf, CtxLocked, Types, PeerTypes, peers
<1>4. afs' \in [Afs -> 0..nobj]
  BY <1>1, <1>2 DEF AddAf, Types, Objs
<1>5. Done(t, Mine(t))
  BY DEF AddAf, Mine
<1> QED
  BY <1>1, <1>2, <1>3, <1>4, <1>5, DoneKeeps DEF AddAf, peers

LEMMA PatchSubscriptionKeeps ==
    ASSUME NefInv, NEW t \in Threads, PatchSubscription(t)
    PROVE  NefInv'
<1>1. th[t].pc = "call" /\ Types
  BY DEF PatchSubscription, MayCall, NefInv
<1>2. Mine(t).w \in {NoThread, t} /\ Lessens(t, Mine(t)) /\ th[t].pc \in Located
  BY <1>1, MineLessens, HeldByMe DEF Holding
<1>3. PeerTypes' /\ afs' \in [Afs -> 0..nobj]
  BY <1>1 DEF PatchSubscription, ctx, peers, Types, PeerTypes
<1>4. Done(t, Mine(t))
  BY DEF PatchSubscription, Mine
<1> QED
  BY <1>1, <1>2, <1>3, <1>4, DoneKeeps DEF PatchSubscription, ctx, peers

(* Without the subscription of the request the AfData holds less.            *)
LEMMA RemoveLessens ==
    ASSUME NefInv, NEW t \in Threads, th[t].pc \in Located, NEW i
    PROVE  Lessens(t, [Mine(t) EXCEPT !.subs[i] = NoSub])
<1>1. Mine(t) \in ObjType /\ Object(th[t].h) /\ NoSub \in SubType
  BY MineTyped
<1> DEFINE m == Mine(t)
           o == [m EXCEPT !.subs[i] = NoSub]
           s == [m.subs EXCEPT ![i] = NoSub]
<1>2. o = [m EXCEPT !.subs = s]
  OBVIOUS
<1>3. s \in [Ids -> SubType] /\ \A j \in Ids : s[j] = NoSub \/ s[j] = m.subs[j]
  BY <1>1 DEF ObjType
<1> HIDE DEF s
<1>4. /\ o \in ObjType /\ o.subs = s /\ o.open = m.open /\ o.numSub = m.numSub
      /\ o.numTrans = m.numTrans
  BY <1>1, <1>2, <1>3 DEF ObjType
<1> QED
  BY <1>1, <1>3, <1>4 DEF Lessens, Object, Mine

LEMMA DeleteSubscriptionKeeps ==
    ASSUME NefInv, NEW t \in Threads, NEW out, DeleteSubscription(t, out)
    PROVE  NefInv'
<1>1. th[t].pc = "call" /\ Types
  BY DEF DeleteSubscription, MayCall, NefInv
<1>2. Mine(t).w \in {NoThread, t} /\ Lessens(t, Mine(t)) /\ th[t].pc \in Located
  BY <1>1, MineLessens, HeldByMe DEF Holding
<1>3. sessions' \subseteq sessions /\ influ' \subseteq influ
  BY DEF DeleteSubscription
<1>4. PeerTypes' /\ afs' \in [Afs -> 0..nobj]
  BY <1>1, <1>3 DEF DeleteSubscription, ctx, Types, PeerTypes
<1>5. Lessens(t, [Mine(t) EXCEPT !.subs[th[t].id] = NoSub])
  BY <1>2, RemoveLessens
<1>6. Done(t, Mine(t)) \/ Done(t, [Mine(t) EXCEPT !.subs[th[t].id] = NoSub])
  BY DEF DeleteSubscription, Mine
<1>7. /\ posts' = posts /\ nobj' = nobj /\ nsess' = nsess /\ numCorreID' = numCorreID
  BY DEF DeleteSubscription, ctx
<1> QED
  BY <1>2, <1>4, <1>5, <1>6, <1>7, DoneKeeps

(* A transaction that gets other applications, and perhaps opens or ends.    *)
LEMMA TransLessens ==
    ASSUME NefInv, NEW t \in Threads, th[t].pc \in Located, NEW i, NEW T \in SUBSET Apps,
           NEW S, S \subseteq 1..Mine(t).numTrans
    PROVE  /\ Lessens(t, [Mine(t) EXCEPT !.trans[i] = T])
           /\ Lessens(t, [Mine(t) EXCEPT !.open = S])
           /\ Lessens(t, [Mine(t) EXCEPT !.open = S, !.trans[i] = T])
<1>1. Mine(t) \in ObjType /\ Object(th[t].h)
  BY MineTyped
<1> DEFINE m == Mine(t)
           tr == [m.trans EXCEPT ![i] = T]
<1>2. /\ [m EXCEPT !.trans[i] = T] = [m EXCEPT !.trans = tr]
      /\ [m EXCEPT !.open = S, !.trans[i] = T] = [m EXCEPT !.open = S, !.trans = tr]
  BY <1>1 DEF ObjType
<1>7. m.numTrans \in Nat /\ m.trans \in [Ids -> SUBSET Apps]
  BY <1>1 DEF ObjType
<1>8. tr \in [Ids -> SUBSET Apps]
  BY <1>7
<1>9. S \in SUBSET Nat
  BY <1>7
<1>3. tr \in [Ids -> SUBSET Apps] /\ S \in SUBSET Nat /\ m.numTrans \in Nat
  BY <1>7, <1>8, <1>9
<1> HIDE DEF tr
<1>4. Lessens(t, [m EXCEPT !.trans = tr])
  BY <1>1, <1>3 DEF Lessens, Object, Mine, ObjType
<1>5. Lessens(t, [m EXCEPT !.open = S])
  BY <1>1, <1>3 DEF Lessens, Object, Mine, ObjType
<1>6. Lessens(t, [m EXCEPT !.open = S, !.trans = tr])
  BY <1>1, <1>3 DEF Lessens, Object, Mine, ObjType
<1> QED
  BY <1>2, <1>4, <1>5, <1>6

(* The goroutine's record as a PFD handler goes on.                          *)
LEMMA PfdGoesOn ==
    ASSUME NefInv, NEW t \in Threads, th[t].pc = "pfd", NEW o, Lessens(t, o),
           NEW r \in ThType, Hold(t, o, r), r.pc = "pfd", r.h = th[t].h, r.a = th[t].a, r.op = th[t].op,
           r.op = "pfdPost" => r.id = th[t].id,
           pfds' \subseteq Apps, UNCHANGED <<ctx, sessions, nsess, influ>>
    PROVE  NefInv'
<1>1. th[t].pc \in Located /\ Mine(t).w \in {NoThread, t} /\ Handler(t)
  BY HeldByMe, MineTyped DEF Holding
<1>2. PeerTypes' /\ afs' \in [Afs -> 0..nobj]
  BY DEF ctx, NefInv, Types, PeerTypes
<1>3. r.op = "pfdPost" => r.id \in 1..o.numTrans
  BY <1>1 DEF Handler, Lessens, Mine
<1> QED
  BY <1>1, <1>2, <1>3, HoldKeeps DEF ctx, Holding

LEMMA DeletePfdKeeps ==
    ASSUME NefInv, NEW t \in Threads, NEW out, NEW x \in Apps, DeletePfd(t, x, out)
    PROVE  NefInv'
<1>1. th[t].pc = "pfd" /\ Types
  BY DEF DeletePfd, MayCall, NefInv
<1>2. /\ Mine(t).w \in {NoThread, t} /\ Lessens(t, Mine(t)) /\ th[t].pc \in Located
      /\ th[t] \in ThType
  BY <1>1, MineLessens, HeldByMe, MineTyped DEF Holding
<1>3. pfds' \subseteq Apps
  BY <1>1 DEF DeletePfd, Types, PeerTypes
<1>4. PeerTypes' /\ afs' \in [Afs -> 0..nobj]
  BY <1>1, <1>3 DEF DeletePfd, ctx, Types, PeerTypes
<1>5. CASE Done(t, Mine(t))
  BY <1>2, <1>4, <1>5, DoneKeeps DEF DeletePfd, ctx
<1> DEFINE r == [th[t] EXCEPT !.del = @ \ {x}, !.ok = @ \cup {x}]
<1>6. CASE Hold(t, Mine(t), r)
  <2>1. /\ r \in ThType /\ r.pc = "pfd" /\ r.h = th[t].h /\ r.a = th[t].a /\ r.op = th[t].op
        /\ r.id = th[t].id
    BY <1>1, <1>2 DEF ThType
  <2> HIDE DEF r
  <2> QED
    BY <1>1, <1>2, <1>3, <1>6, <2>1, PfdGoesOn DEF DeletePfd
<1> QED
  BY <1>5, <1>6 DEF DeletePfd, Mine

LEMMA StorePfdKeeps ==
    ASSUME NefInv, NEW t \in Threads, NEW out, NEW x \in Apps, StorePfd(t, x, out)
    PROVE  NefInv'
<1> DEFINE r == [th[t] EXCEPT !.put = @ \ {x}, !.ok = IF out = "ok" THEN @ \cup {x} ELSE @]
           fresh == th[t].op = "pfdPut" /\ th[t].put = th[t].apps
           T == (IF fresh THEN {} ELSE Mine(t).trans[th[t].id]) \cup {x}
           o == IF th[t].op \in Validated THEN [Mine(t) EXCEPT !.trans[th[t].id] = T] ELSE Mine(t)
<1>1. th[t].pc = "pfd" /\ Types
  BY DEF StorePfd, MayCall, NefInv
<1>2. /\ Lessens(t, Mine(t)) /\ th[t].pc \in Located /\ th[t] \in ThType /\ Mine(t) \in ObjType
      /\ Mine(t).numTrans \in Nat
  BY <1>1, MineLessens, MineTyped DEF Located, Holding, ObjType
<1>3. pfds' \subseteq Apps
  BY <1>1 DEF StorePfd, Types, PeerTypes
<1>4. Lessens(t, o)
  <2>1. CASE th[t].id \in Ids
    <3>1. T \in SUBSET Apps
      BY <1>2, <2>1 DEF ObjType
    <3> HIDE DEF T
    <3>2. Lessens(t, [Mine(t) EXCEPT !.trans[th[t].id] = T])
      BY <1>2, <3>1, TransLessens
    <3> QED
      BY <1>2, <3>2
  <2>2. CASE th[t].id \notin Ids
    <3>1. [Mine(t) EXCEPT !.trans[th[t].id] = T] = Mine(t)
      BY <1>2, <2>2 DEF ObjType
    <3> QED
      BY <1>2, <3>1
  <2> QED
    BY <2>1, <2>2
<1>5. Hold(t, o, r)
  BY DEF StorePfd, Mine
<1>6. /\ r \in ThType /\ r.pc = "pfd" /\ r.h = th[t].h /\ r.a = th[t].a /\ r.op = th[t].op
      /\ r.id = th[t].id
  BY <1>1, <1>2 DEF ThType
<1> HIDE DEF r, o
<1> QED
  BY <1>1, <1>3, <1>4, <1>5, <1>6, PfdGoesOn DEF StorePfd

LEMMA PfdEndKeeps ==
    ASSUME NefInv, NEW t \in Threads, PfdEnd(t)
    PROVE  NefInv'
<1> DEFINE m == Mine(t)
           id == th[t].id
           shut == [m EXCEPT !.open = @ \ {id}, !.trans[id] = {}]
<1>1. th[t].pc = "pfd" /\ Types /\ Counts
  BY DEF PfdEnd, NefInv
<1>2. /\ Mine(t).w \in {NoThread, t} /\ Lessens(t, m) /\ th[t].pc \in Located
      /\ th[t] \in ThType /\ m \in ObjType /\ Object(th[t].h) /\ Handler(t) /\ th[t].h \in Objs
  BY <1>1, MineLessens, HeldByMe, MineTyped DEF Holding
<1>3. PeerTypes' /\ afs' \in [Afs -> 0..nobj] /\ pfds' \subseteq Apps
  BY <1>1 DEF PfdEnd, ctx, peers, Types, PeerTypes
<1>4. UNCHANGED <<ctx, peers>>
  BY DEF PfdEnd
<1>5. ASSUME NEW o, Done(t, o), Lessens(t, o) PROVE NefInv'
  BY <1>2, <1>3, <1>4, <1>5, DoneKeeps DEF ctx, peers
<1>6. m.open \subseteq 1..m.numTrans /\ m.open \subseteq Ids
  BY <1>1, <1>2, OpenIds DEF Object, Mine
<1>7. Lessens(t, shut)
  BY <1>2, <1>6, TransLessens
<1> DEFINE post == [th[t] EXCEPT !.pc = "addaf"]
<1>8. CASE th[t].op = "pfdPost" /\ Hold(t, [m EXCEPT !.open = @ \cup {id}], post)
  <2>1. post \in ThType /\ post.pc = "addaf" /\ post.h = th[t].h /\ post.a = th[t].a /\ post.op = th[t].op
    BY <1>2 DEF ThType, Pcs, Located, Holding
  <2>2. Lessens(t, [m EXCEPT !.open = @ \cup {id}])
    <3>1. id \in 1..m.numTrans
      BY <1>1, <1>2, <1>8 DEF Handler, Mine
    <3> QED
      BY <3>1, <1>2, <1>6, TransLessens
  <2> HIDE DEF post
  <2> QED
    BY <1>1, <1>2, <1>3, <1>4, <1>8, <2>1, <2>2, HoldKeeps DEF ctx, peers, Holding
<1>9. CASE Done(t, [m EXCEPT !.trans[id] = {}])
  BY <1>2, <1>5, <1>9, TransLessens
<1>10. CASE Done(t, shut)
  BY <1>5, <1>7, <1>10
<1>11. ASSUME NEW i \in shut.open, th[t].op = "pfdDeleteAll",
              Hold(t, shut, [th[t] EXCEPT !.id = i, !.del = m.trans[i]])
       PROVE NefInv'
  <2> DEFINE r == [th[t] EXCEPT !.id = i, !.del = m.trans[i]]
  <2>1. i \in Ids /\ i \in Nat
    <3>1. i \in m.open
      BY <1>2 DEF ObjType
    <3> QED
      BY <3>1, <1>6 DEF Ids
  <2>2. m.trans[i] \in SUBSET Apps
    BY <2>1, <1>2 DEF ObjType
  <2>3. r \in ThType /\ r.pc = "pfd" /\ r.h = th[t].h /\ r.a = th[t].a /\ r.op = th[t].op
    BY <1>1, <1>2, <2>1, <2>2 DEF ThType
  <2> HIDE DEF r
  <2> QED
    BY <1>1, <1>3, <1>4, <1>7, <1>11, <2>3, PfdGoesOn DEF peers, r
<1>12. CASE Done(t, [m EXCEPT !.trans[id] = @ \ th[t].apps])
  <2>1. CASE id \in Ids
    <3>1. m.trans[id] \ th[t].apps \in SUBSET Apps
      BY <1>2, <2>1 DEF ObjType
    <3> QED
      BY <1>2, <1>5, <1>12, <3>1, TransLessens
  <2>2. CASE id \notin Ids
    <3>1. [m EXCEPT !.trans[id] = @ \ th[t].apps] = m
      BY <1>2, <2>2 DEF ObjType
    <3> QED
      BY <1>2, <1>5, <1>12, <3>1
  <2> QED
    BY <2>1, <2>2
<1>13. CASE Done(t, m)
  BY <1>2, <1>5, <1>13
<1>14. \/ th[t].op = "pfdPost" /\ Hold(t, [m EXCEPT !.open = @ \cup {id}], post)
       \/ Done(t, [m EXCEPT !.trans[id] = {}])
       \/ Done(t, shut)
       \/ \E i \in shut.open : th[t].op = "pfdDeleteAll" /\ Hold(t, shut, [th[t] EXCEPT !.id = i, !.del = m.trans[i]])
       \/ Done(t, [m EXCEPT !.trans[id] = @ \ th[t].apps])
       \/ Done(t, m)
  BY DEF PfdEnd, Mine
<1> HIDE DEF m, shut, post, id
<1> QED
  BY <1>8, <1>9, <1>10, <1>11, <1>12, <1>13, <1>14

-----------------------------------------------------------------------------
(* The steps that count: what each of them has to show.                      *)
LEMMA CountingKeeps ==
    ASSUME NefInv, NEW t \in Threads, NEW r \in ThType, th' = [th EXCEPT ![t] = r], Frame(t), Handler(t)',
           PeerTypes', afs' \in [Afs -> 0..nobj'], obj' \in [Objs -> ObjType],
           \A h \in Objs : obj'[h] # obj[h] => Object(h)', Distinct', Counts'
    PROVE  NefInv'
<1>1. Types'
  <2>1. th' \in [Threads -> ThType] /\ nobj' \in Nat
    BY DEF NefInv, Types, Frame
  <2> QED
    BY <2>1 DEF Types
<1>2. \A u \in Threads : Handler(u)'
  BY HandlersKept DEF NefInv
<1>3. \A h \in Objs : Object(h)'
  BY ObjectKept DEF NefInv
<1> QED
  BY <1>1, <1>2, <1>3 DEF NefInv

LEMMA RequestKeeps ==
    ASSUME NefInv, NEW t \in Threads, NEW op \in AllOps, NEW a \in Afs, NEW id \in Nat,
           NEW apps \in SUBSET Apps, Request(t, op, a, id, apps)
    PROVE  NefInv'
<1> DEFINE r == [Idle EXCEPT !.pc = IF op \in Validated \cup {"smfNotify"} THEN "check" ELSE "getaf",
                             !.op = op, !.a = a, !.id = id, !.apps = apps, !.ask = apps]
<1>1. /\ Types /\ th[t] = Idle /\ th \in [Threads -> ThType] /\ Idle \in ThType /\ posts \in Nat
      /\ MaxPosts \in Nat
  BY NefAssumption DEF NefInv, Types, Request, PeerTypes
<1>2. /\ r \in ThType /\ r.pc \in {"check", "getaf"} /\ r.op = op /\ r.a = a
      /\ r.pc = "check" => op \in Validated \cup {"smfNotify"}
  BY ZenonT(60), <1>1 DEF ThType, Idle, Pcs, Located
<1>3. th' = [th EXCEPT ![t] = r]
  BY DEF Request
<1> HIDE DEF r
<1>4. th'[t] = r /\ (\A u \in Threads : u # t => th'[u] = th[u]) /\ obj' = obj /\ nobj' = nobj
      /\ numCorreID' = numCorreID /\ nsess' = nsess /\ afs' = afs
  BY <1>1, <1>2, <1>3 DEF Request, peers
<1>5. Frame(t)
  BY <1>1, <1>4 DEF Frame, Types, PeerTypes
<1>6. Handler(t)'
  BY <1>2, <1>4 DEF Handler, Located, Holding
<1>7. posts' \in 0..MaxPosts /\ posts' >= posts /\ (op \in Creating => posts' = posts + 1)
  BY <1>1 DEF Request, Types, PeerTypes
<1>8. PeerTypes'
  BY <1>1, <1>7 DEF Request, peers, Types, PeerTypes
<1>9. Distinct'
  <2>1. \A h \in Objs, i \in Ids : Corre(h, i)' = Corre(h, i)
    BY <1>4 DEF Corre
  <2>2. \A u \in Threads : Pending(u)' => Pending(u) /\ th'[u].sub.corre = th[u].sub.corre
    BY <1>2, <1>4 DEF Pending
  <2>3. \A u \in Threads : Pending(u) => th[u].sub.corre # 0
    BY DEF Pending, NefInv, Handler
  <2> QED
    BY <2>1, <2>2, <2>3, DistinctKept DEF NefInv
<1>10. Counts'
  <2>1. CASE op \in Creating
    <3>1. /\ MakesAf \subseteq Threads /\ MakesAf' \subseteq MakesAf \cup {t}
          /\ MakesSub \subseteq Threads /\ MakesSub' \subseteq MakesSub \cup {t}
          /\ MakesSess \subseteq Threads /\ MakesSess' \subseteq MakesSess \cup {t}
          /\ MakesTrans \subseteq Threads /\ MakesTrans' \subseteq MakesTrans \cup {t}
      BY <1>4 DEF MakesAf, MakesSub, MakesSess, MakesTrans
    <3>2. posts' = posts + 1
      BY <1>7, <2>1
    <3>3. /\ Cardinality(MakesAf) \in Nat /\ Cardinality(MakesAf') \in Nat
          /\ Cardinality(MakesAf') <= Cardinality(MakesAf) + 1
      BY <3>1, Counting
    <3>4. /\ Cardinality(MakesSub) \in Nat /\ Cardinality(MakesSub') \in Nat
          /\ Cardinality(MakesSub') <= Cardinality(MakesSub) + 1
      BY <3>1, Counting
    <3>5. /\ Cardinality(MakesSess) \in Nat /\ Cardinality(MakesSess') \in Nat
          /\ Cardinality(MakesSess') <= Cardinality(MakesSess) + 1
      BY <3>1, Counting
    <3>6. /\ Cardinality(MakesTrans) \in Nat /\ Cardinality(MakesTrans') \in Nat
          /\ Cardinality(MakesTrans') <= Cardinality(MakesTrans) + 1
      BY <3>1, Counting
    <3>7. /\ nobj \in Nat /\ numCorreID \in Nat /\ nsess \in Nat /\ Cardinality(KnownAfs) \in Nat
          /\ \A h \in Objs : obj[h].numTrans \in Nat
      BY <1>1, NobjBound DEF NefInv, Types, PeerTypes, ObjType
    <3>8. /\ nobj + Cardinality(MakesAf') <= Cardinality(KnownAfs) + posts'
          /\ numCorreID + Cardinality(MakesSub') <= posts'
          /\ nsess + Cardinality(MakesSess') <= posts'
      BY <1>1, <3>2, <3>3, <3>4, <3>5, <3>7 DEF NefInv, Counts
    <3>9. \A h \in Objs : obj[h].numTrans + Cardinality(MakesTrans') <= posts'
      BY <1>1, <3>2, <3>6, <3>7 DEF NefInv, Counts
    <3> QED
      BY <1>4, <3>8, <3>9 DEF Counts
  <2>2. CASE op \notin Creating
    <3>1. /\ MakesAf' \subseteq MakesAf /\ MakesSub' \subseteq MakesSub
          /\ MakesSess' \subseteq MakesSess /\ MakesTrans' \subseteq MakesTrans
      BY <1>1, <1>2, <1>4, <2>2 DEF MakesAf, MakesSub, MakesSess, MakesTrans, Creating, Posting
    <3>2. posts' = posts
      BY <2>2 DEF Request
    <3>3. \A h \in Objs : obj[h].numTrans \in Nat
      BY <1>1 DEF Types, ObjType
    <3> QED
      BY <1>4, <3>1, <3>2, <3>3, CountsMoved DEF NefInv
  <2> QED
    BY <2>1, <2>2
<1>11. afs' \in [Afs -> 0..nobj'] /\ obj' \in [Objs -> ObjType]
  BY <1>1, <1>4 DEF Types
<1> QED
  BY <1>2, <1>3, <1>4, <1>5, <1>6, <1>8, <1>9, <1>10, <1>11, CountingKeeps

LEMMA GetAfKeeps ==
    ASSUME NefInv, NEW t \in Threads, GetAf(t)
    PROVE  NefInv'
<1>1. /\ th[t].pc = "getaf" /\ Types /\ Counts /\ Handler(t) /\ th[t] \in ThType /\ nobj \in Nat
      /\ th \in [Threads -> ThType] /\ obj \in [Objs -> ObjType] /\ Idle \in ThType
      /\ afs \in [Afs -> 0..nobj] /\ th[t].a \in Afs
  BY DEF GetAf, CtxLocked, NefInv, Types, Idle, ThType, Pcs, NoSub, SubType, Handler
<1>2. /\ readers' \subseteq Threads /\ waiting' \subseteq Threads /\ posts' = posts
      /\ numCorreID' = numCorreID /\ afs' = afs /\ UNCHANGED peers /\ nsess' = nsess
  BY <1>1 DEF GetAf, CtxLocked, peers, Types, PeerTypes
<1>3. PeerTypes'
  BY <1>1, <1>2 DEF Types, PeerTypes, peers
<1> DEFINE r(h) == [th[t] EXCEPT !.pc = "lockaf", !.h = h]
<1>4. ASSUME NEW h \in Nat
      PROVE  /\ r(h) \in ThType /\ r(h).pc = "lockaf" /\ r(h).h = h /\ r(h).op = th[t].op
             /\ r(h).a = th[t].a /\ [th EXCEPT ![t].pc = "lockaf", ![t].h = h] = [th EXCEPT ![t] = r(h)]
             /\ r(h).sub = th[t].sub
  BY <1>1 DEF ThType, Pcs, Located
<1> HIDE DEF r
<1>5. CASE /\ afs[th[t].a] # 0 /\ UNCHANGED <<nobj, obj>>
           /\ th' = [th EXCEPT ![t].pc = "lockaf", ![t].h = afs[th[t].a]]
  <2> DEFINE h == afs[th[t].a]
  <2>1. h \in Nat /\ h \in 1..nobj
    BY <1>1, <1>5
  <2>2. QuietGoroutine(t) /\ th'[t] = r(h)
    BY <1>1, <1>4, <1>5, <2>1, QuietStep
  <2>3. Handler(t)'
    BY ZenonT(60), <1>1, <1>4, <1>5, <2>1, <2>2 DEF Handler, Located, Holding
  <2> QED
    BY <1>2, <1>5, <2>2, <2>3, SameObjects
<1>6. CASE UNCHANGED <<nobj, obj>> /\ th' = [th EXCEPT ![t] = Idle]
  <2>1. QuietGoroutine(t) /\ th'[t] = Idle
    BY <1>1, <1>6, QuietStep DEF Idle
  <2>2. Handler(t)'
    BY <2>1 DEF Handler, Idle, Located, Holding
  <2> QED
    BY <1>2, <1>6, <2>1, <2>2, SameObjects
<1>7. CASE /\ th[t].op \in Posting /\ nobj' = nobj + 1
           /\ obj' = [obj EXCEPT ![nobj + 1] = NewAf(th[t].a)]
           /\ th' = [th EXCEPT ![t].pc = "lockaf", ![t].h = nobj + 1]
  <2> DEFINE n == NewAf(th[t].a)
  <2>1. t \in MakesAf /\ nobj + 1 \in Objs /\ nobj + 1 \in Nat
    BY <1>1, <1>7, NobjBound DEF MakesAf
  <2>2. /\ n \in ObjType /\ n.numTrans = 0 /\ n.numSub = 0 /\ n.open = {} /\ n.id = th[t].a
        /\ \A i \in Ids : n.subs[i] = NoSub
    BY <1>1 DEF NewAf, ObjType, SubType, NoSub
  <2> HIDE DEF n
  <2>3. /\ obj' \in [Objs -> ObjType] /\ obj'[nobj + 1] = n
        /\ \A h \in Objs : h # nobj + 1 => obj'[h] = obj[h]
    BY <1>1, <1>7, <2>1, <2>2 DEF n
  <2>4. th' = [th EXCEPT ![t] = r(nobj + 1)]
    BY <1>4, <1>7, <2>1
  <2>5. r(nobj + 1) \in ThType /\ th'[t] = r(nobj + 1) /\ \A u \in Threads : u # t => th'[u] = th[u]
    BY <1>1, <1>4, <2>1, <2>4
  <2>12. PICK H \in Objs : H = nobj + 1 /\ H \in 1..nobj'
    BY <1>1, <1>7, <2>1
  <2>13. /\ th'[t].pc = "lockaf" /\ th'[t].h = H /\ th'[t].op = th[t].op /\ th'[t].a = th[t].a
    BY ZenonT(60), <1>4, <2>1, <2>5, <2>12
  <2>6. Frame(t)
    BY <1>1, <1>2, <1>7, <2>3, <2>5 DEF Frame, Types, PeerTypes
  <2>7. Handler(t)'
    BY <1>1, <2>12, <2>13 DEF Handler, Located, Holding
  <2>8. Object(H)'
    <3>1. /\ \A i \in Ids : obj'[H].subs[i] = NoSub
          /\ obj'[H].open = {} /\ obj'[H].numSub = 0 /\ numCorreID' \in Nat
      BY <1>1, <1>2, <2>2, <2>3, <2>12 DEF Types, PeerTypes
    <3> QED
      BY <3>1 DEF Object
  <2>9. Distinct'
    <3>1. \A h \in Objs, i \in Ids : Corre(h, i)' = 0 \/ Corre(h, i)' = Corre(h, i)
      BY <2>2, <2>3 DEF Corre, NoSub
    <3>2. \A u \in Threads : Pending(u)' => Pending(u) /\ th'[u].sub.corre = th[u].sub.corre
      BY <1>4, <2>1, <2>5 DEF Pending
    <3>3. \A u \in Threads : Pending(u) => th[u].sub.corre # 0
      BY DEF Pending, NefInv, Handler
    <3> QED
      BY <3>1, <3>2, <3>3, DistinctKept DEF NefInv
  <2>10. Counts'
    <3>1. /\ MakesAf' \subseteq MakesAf \ {t} /\ MakesSub' \subseteq MakesSub
          /\ MakesSess' \subseteq MakesSess /\ MakesTrans' \subseteq MakesTrans
      BY <1>1, <2>5, <2>13 DEF MakesAf, MakesSub, MakesSess, MakesTrans
    <3>2. \A h \in Objs : obj[h].numTrans \in Nat /\ obj'[h].numTrans \in Nat
      BY <1>1, <2>3 DEF ObjType
    <3>3. \A h \in Objs : obj'[h].numTrans <= obj[h].numTrans
      BY <2>2, <2>3, <3>2
    <3> QED
      BY <1>1, <1>2, <1>7, <2>1, <3>1, <3>2, <3>3, CountsMoved
  <2>11. afs' \in [Afs -> 0..nobj']
    BY <1>1, <1>2, <1>7
  <2> QED
    BY <1>3, <2>3, <2>4, <2>5, <2>6, <2>7, <2>8, <2>9, <2>10, <2>11, <2>12, CountingKeeps
<1> QED
  BY <1>5, <1>6, <1>7 DEF GetAf

(* The subscription NewSub makes, from its NotifCorreID.                      *)
LEMMA NewSubType ==
    ASSUME NEW n \in Nat, NEW op
    PROVE  /\ [NoSub EXCEPT !.corre = n, !.influ = op = "tiPostGroup"] \in SubType
           /\ [NoSub EXCEPT !.corre = n, !.influ = op = "tiPostGroup"].corre = n
<1>1. CASE op = "tiPostGroup"
  <2>1. (op = "tiPostGroup") = TRUE
    BY <1>1
  <2> QED
    BY <2>1 DEF NoSub, SubType
<1>2. CASE op # "tiPostGroup"
  <2>1. (op = "tiPostGroup") = FALSE
    BY <1>2
  <2> QED
    BY <2>1 DEF NoSub, SubType
<1> QED
  BY <1>1, <1>2

(* NewCorreID gives a number no subscription and no other POST has.          *)
LEMMA NewSubKeeps ==
    ASSUME NefInv, NEW t \in Threads, NewSub(t)
    PROVE  NefInv'
<1>1. th[t].pc = "correid" /\ Types /\ Counts /\ Handler(t)
  BY DEF NewSub, CtxLocked, NefInv
<1>2. PICK H \in Objs : H = th[t].h
  BY <1>1, MineTyped DEF Located, Holding
<1> DEFINE m == obj[H]
           sub == [NoSub EXCEPT !.corre = numCorreID + 1, !.influ = th[t].op = "tiPostGroup"]
           next == m.numSub + 1
           r == [th[t] EXCEPT !.pc = "call", !.id = next, !.sub = sub]
           n == [[m EXCEPT !.numSub = next] EXCEPT !.w = t]
<1>3. /\ m \in ObjType /\ th[t] \in ThType /\ obj \in [Objs -> ObjType] /\ th \in [Threads -> ThType]
      /\ m.w = t /\ H \in 1..nobj /\ nobj \in Nat /\ numCorreID \in Nat /\ th[t].op \in Posting
      /\ th[t].a \in Afs /\ th[t].op \in AllOps
  BY <1>1, <1>2, MineTyped DEF Types, PeerTypes, Handler, Located, Holding
<1>19. numCorreID + 1 \in Nat
  BY <1>3
<1>4. sub \in SubType /\ sub.corre = numCorreID + 1
  BY <1>19, NewSubType, Zenon
<1>18. m.numSub + 1 \in Nat
  BY <1>3 DEF ObjType
<1> HIDE DEF sub
<1>5. /\ r \in ThType /\ r.pc = "call" /\ r.h = H /\ r.op = th[t].op /\ r.a = th[t].a /\ r.sub = sub
  <2> HIDE DEF next
  <2>1. next \in Nat
    BY <1>18 DEF next
  <2> QED
    BY <1>2, <1>3, <1>4, <2>1 DEF ThType, Pcs, Located, Holding
<1>6. /\ n \in ObjType /\ n.numSub = m.numSub + 1 /\ n.subs = m.subs /\ n.open = m.open
      /\ n.numTrans = m.numTrans /\ n.w = t
  <2>1. next \in Nat /\ next = m.numSub + 1
    BY <1>18
  <2> HIDE DEF next, m
  <2> QED
    BY <1>3, <2>1 DEF ObjType
<1>7. th' = [th EXCEPT ![t] = r] /\ obj' = [obj EXCEPT ![H] = n]
  BY <1>2 DEF NewSub, Hold, sub
<1> HIDE DEF r, n
<1>8. /\ th'[t] = r /\ \A u \in Threads : u # t => th'[u] = th[u]
  BY <1>3, <1>7
<1>9. /\ obj'[H] = n /\ obj' \in [Objs -> ObjType] /\ \A h \in Objs : h # H => obj'[h] = obj[h]
  BY <1>3, <1>6, <1>7
<1>10. /\ numCorreID' = numCorreID + 1 /\ nobj' = nobj /\ afs' = afs /\ posts' = posts
       /\ UNCHANGED peers /\ nsess' = nsess /\ waiting' \subseteq waiting /\ UNCHANGED readers
  BY DEF NewSub, CtxLocked, peers
<1>11. Frame(t)
  BY <1>3, <1>8, <1>9, <1>10 DEF Frame
<1>12. Handler(t)'
  BY <1>3, <1>4, <1>5, <1>6, <1>8, <1>9, <1>10 DEF Handler, Located, Holding
<1>13. PeerTypes'
  BY <1>1, <1>3, <1>10 DEF Types, PeerTypes, peers
<1>14. Object(H)'
  <2>1. Object(H)
    BY DEF NefInv
  <2>2. m.numSub \in Nat /\ m.subs \in [Ids -> SubType] /\ \A i \in Ids : m.subs[i].corre \in Nat
    BY <1>3 DEF ObjType, SubType
  <2> QED
    BY <1>3, <1>6, <1>9, <1>10, <2>1, <2>2 DEF Object
<1>15. Distinct'
  <2>1. \A h \in Objs, i \in Ids : Corre(h, i)' = Corre(h, i)
    BY <1>6, <1>9 DEF Corre
  <2>2. \A h \in Objs, i \in Ids : Corre(h, i) \in 0..numCorreID
    BY <1>3 DEF NefInv, Object, Corre, NoSub
  <2>3. \A u \in Threads : Pending(u) => th[u].sub.corre \in 0..numCorreID
    BY <1>3 DEF NefInv, Handler, Pending
  <2>4. th'[t].sub.corre = numCorreID + 1
    BY <1>4, <1>5, <1>8
  <2>5. \A u \in Threads : u # t => (Pending(u)' <=> Pending(u)) /\ th'[u].sub.corre = th[u].sub.corre
    BY <1>8 DEF Pending
  <2>6. /\ \A g, h \in Objs, i, j \in Ids : Corre(g, i) # 0 /\ Corre(g, i) = Corre(h, j) => g = h /\ i = j
        /\ \A v \in Threads : Pending(v) => \A h \in Objs, i \in Ids : Corre(h, i) # th[v].sub.corre
        /\ \A v, u \in Threads : Pending(v) /\ Pending(u) /\ v # u => th[v].sub.corre # th[u].sub.corre
    BY DEF NefInv, Distinct
  <2>7. \A g, h \in Objs, i, j \in Ids :
           Corre(g, i)' # 0 /\ Corre(g, i)' = Corre(h, j)' => g = h /\ i = j
    BY <2>1, <2>6
  <2>8. \A v \in Threads : Pending(v)' => \A h \in Objs, i \in Ids : Corre(h, i)' # th'[v].sub.corre
    BY <1>3, <2>1, <2>2, <2>4, <2>5, <2>6
  <2>9. \A v, u \in Threads : Pending(v)' /\ Pending(u)' /\ v # u => th'[v].sub.corre # th'[u].sub.corre
    BY <1>3, <2>3, <2>4, <2>5, <2>6
  <2> QED
    BY <2>7, <2>8, <2>9 DEF Distinct
<1>16. Counts'
  <2>1. /\ MakesAf' \subseteq MakesAf /\ t \in MakesSub /\ MakesSub' \subseteq MakesSub \ {t}
        /\ MakesSess' \subseteq MakesSess /\ MakesTrans' \subseteq MakesTrans
    BY <1>1, <1>3, <1>5, <1>8 DEF MakesAf, MakesSub, MakesSess, MakesTrans
  <2>2. \A h \in Objs : /\ obj[h].numTrans \in Nat /\ obj'[h].numTrans \in Nat
                        /\ obj'[h].numTrans <= obj[h].numTrans
    BY <1>3, <1>6, <1>9 DEF ObjType
  <2> QED
    BY <1>1, <1>10, <2>1, <2>2, CountsMoved
<1>17. afs' \in [Afs -> 0..nobj']
  BY <1>1, <1>10 DEF Types
<1> QED
  BY <1>5, <1>7, <1>9, <1>11, <1>12, <1>13, <1>14, <1>15, <1>16, <1>17, CountingKeeps

(* NewPfdTrans counts a transaction in the AfData of the request.            *)
LEMMA NewPfdTransKeeps ==
    ASSUME NefInv, NEW t \in Threads, th[t].pc = "lockaf", Mine(t).w = NoThread, th[t].op = "pfdPost",
           Hold(t, [Mine(t) EXCEPT !.numTrans = @ + 1],
                [th[t] EXCEPT !.pc = "pfd", !.id = Mine(t).numTrans + 1, !.put = th[t].apps]),
           UNCHANGED <<ctx, peers>>
    PROVE  NefInv'
<1>1. Types /\ Counts /\ Handler(t)
  BY DEF NefInv
<1>2. PICK H \in Objs : H = th[t].h
  BY <1>1, MineTyped DEF Located
<1> DEFINE m == obj[H]
           next == m.numTrans + 1
           r == [th[t] EXCEPT !.pc = "pfd", !.id = next, !.put = th[t].apps]
           n == [[m EXCEPT !.numTrans = next] EXCEPT !.w = t]
<1>3. /\ m \in ObjType /\ th[t] \in ThType /\ obj \in [Objs -> ObjType] /\ th \in [Threads -> ThType]
      /\ m.w = NoThread /\ H \in 1..nobj /\ nobj \in Nat /\ numCorreID \in Nat
      /\ th[t].a \in Afs /\ th[t].op \in AllOps
  BY <1>1, <1>2, MineTyped DEF Types, PeerTypes, Handler, Located, Mine
<1>4. m.numTrans \in Nat
  BY <1>3 DEF ObjType
<1>17. next \in Nat /\ next = m.numTrans + 1
  BY <1>4
<1>5. /\ r \in ThType /\ r.pc = "pfd" /\ r.h = H /\ r.op = th[t].op /\ r.a = th[t].a
      /\ r.id = m.numTrans + 1
  <2> HIDE DEF next, m
  <2> QED
    BY <1>2, <1>3, <1>17 DEF ThType, Pcs, Located, Holding
<1>6. /\ n \in ObjType /\ n.numSub = m.numSub /\ n.subs = m.subs /\ n.open = m.open
      /\ n.numTrans = m.numTrans + 1 /\ n.w = t
  <2> HIDE DEF next, m
  <2> QED
    BY <1>3, <1>17 DEF ObjType
<1>7. th' = [th EXCEPT ![t] = r] /\ obj' = [obj EXCEPT ![H] = n]
  BY <1>2 DEF Hold, Mine
<1> HIDE DEF r, n
<1>8. /\ th'[t] = r /\ \A u \in Threads : u # t => th'[u] = th[u]
  BY <1>3, <1>7
<1>9. /\ obj'[H] = n /\ obj' \in [Objs -> ObjType] /\ \A h \in Objs : h # H => obj'[h] = obj[h]
  BY <1>3, <1>6, <1>7
<1>10. /\ numCorreID' = numCorreID /\ nobj' = nobj /\ afs' = afs /\ posts' = posts
       /\ UNCHANGED peers /\ nsess' = nsess /\ waiting' = waiting /\ UNCHANGED readers
  BY DEF ctx, peers
<1>11. Frame(t)
  BY <1>3, <1>8, <1>9, <1>10 DEF Frame
<1>12. Handler(t)'
  BY <1>3, <1>4, <1>5, <1>6, <1>8, <1>9, <1>10 DEF Handler, Located, Holding
<1>13. PeerTypes' /\ afs' \in [Afs -> 0..nobj']
  BY <1>1, <1>10 DEF Types, PeerTypes, peers
<1>14. Object(H)'
  <2>1. Object(H)
    BY DEF NefInv
  <2> QED
    BY <1>4, <1>6, <1>9, <1>10, <2>1 DEF Object
<1>15. Distinct'
  <2>1. \A h \in Objs, i \in Ids : Corre(h, i)' = Corre(h, i)
    BY <1>6, <1>9 DEF Corre
  <2>2. \A u \in Threads : Pending(u)' => Pending(u) /\ th'[u].sub.corre = th[u].sub.corre
    BY <1>5, <1>8 DEF Pending
  <2>3. \A u \in Threads : Pending(u) => th[u].sub.corre # 0
    BY DEF Pending, NefInv, Handler
  <2> QED
    BY <2>1, <2>2, <2>3, DistinctKept DEF NefInv
<1>16. Counts'
  <2>1. /\ MakesAf' \subseteq MakesAf /\ MakesSub' \subseteq MakesSub
        /\ MakesSess' \subseteq MakesSess /\ t \in MakesTrans /\ MakesTrans' \subseteq MakesTrans \ {t}
    BY <1>3, <1>5, <1>8 DEF MakesAf, MakesSub, MakesSess, MakesTrans
  <2>2. \A h \in Objs : obj[h].numTrans \in Nat /\ obj'[h].numTrans \in Nat
    BY <1>3, <1>9 DEF ObjType
  <2>3. \A h \in Objs : obj'[h].numTrans <= obj[h].numTrans + 1
    BY <1>6, <1>9, <2>2
  <2> QED
    BY <1>1, <1>10, <2>1, <2>2, <2>3, CountsMoved
<1> QED
  BY <1>5, <1>7, <1>9, <1>11, <1>12, <1>13, <1>14, <1>15, <1>16, CountingKeeps

LEMMA LockAfKeeps ==
    ASSUME NefInv, NEW t \in Threads, LockAf(t)
    PROVE  NefInv'
<1> DEFINE m == Mine(t)
           q == th[t]
<1>1. q.pc = "lockaf" /\ Types /\ Counts /\ m.w = NoThread /\ UNCHANGED <<ctx, peers>>
  BY DEF LockAf, NefInv, Mine
<1>2. /\ m.w \in {NoThread, t} /\ Lessens(t, m) /\ q.pc \in Located
      /\ q \in ThType /\ m \in ObjType /\ Object(q.h) /\ Handler(t) /\ q.h \in Objs
  BY <1>1, MineLessens, MineTyped DEF Located
<1>3. PeerTypes' /\ afs' \in [Afs -> 0..nobj] /\ pfds' \subseteq Apps
      /\ posts' = posts /\ nobj' = nobj /\ nsess' = nsess /\ numCorreID' = numCorreID
  BY <1>1 DEF ctx, peers, Types, PeerTypes
<1>4. CASE Done(t, m)
  BY <1>2, <1>3, <1>4, DoneKeeps
<1>5. ASSUME NEW r \in ThType, Hold(t, m, r), r.h = q.h, r.a = q.a, r.op = q.op,
             \/ r.pc = "correid" /\ r.op \in Posting
             \/ /\ r.pc = "call" /\ r.op \notin Posting /\ r.id \in Ids
                /\ m.subs[r.id] = r.sub /\ r.sub.corre \in 1..numCorreID
             \/ r.pc = "pfd" /\ r.op # "pfdPost"
      PROVE NefInv'
  BY <1>1, <1>2, <1>3, <1>5, HoldKeeps DEF Holding
<1>6. m.open \subseteq Ids /\ m.open \subseteq Nat
  BY <1>1, <1>2, OpenIds DEF Mine, ObjType
<1>7. \A i \in Ids : m.trans[i] \in SUBSET Apps /\ m.subs[i] \in SubType
  BY <1>2 DEF ObjType
<1>8. CASE LockSub(t, m, q)
  <2>1. CASE q.op \in Posting /\ Hold(t, m, [q EXCEPT !.pc = "correid"])
    <3> DEFINE r == [q EXCEPT !.pc = "correid"]
    <3>1. r \in ThType /\ r.h = q.h /\ r.a = q.a /\ r.op = q.op /\ r.pc = "correid"
      BY <1>2 DEF ThType, Pcs, Located, Holding
    <3> HIDE DEF r
    <3> QED
      BY <1>5, <2>1, <3>1 DEF r
  <2>2. CASE /\ q.op \notin Posting /\ q.id \in Ids /\ m.subs[q.id] # NoSub
             /\ Hold(t, m, [q EXCEPT !.pc = "call", !.sub = m.subs[q.id]])
    <3> DEFINE s == m.subs[q.id]
               r == [q EXCEPT !.pc = "call", !.sub = s]
    <3>1. s \in SubType /\ s.corre \in 1..numCorreID
      BY <1>2, <1>7, <2>2 DEF Object, Mine
    <3> HIDE DEF s
    <3>2. /\ r \in ThType /\ r.h = q.h /\ r.a = q.a /\ r.op = q.op /\ r.pc = "call"
          /\ r.id = q.id /\ r.sub = s
      BY <1>2, <3>1 DEF ThType, Pcs, Located, Holding
    <3>3. Hold(t, m, r)
      BY <2>2 DEF s
    <3> HIDE DEF r
    <3>4. m.subs[r.id] = r.sub
      BY <3>2 DEF s
    <3> HIDE DEF m
    <3> QED
      BY <1>5, <2>2, <3>1, <3>2, <3>3, <3>4
  <2> QED
    BY <1>4, <1>8, <2>1, <2>2 DEF LockSub, Posting
<1>9. CASE LockTrans(t, m, q)
  <2>1. CASE q.op = "pfdPost" /\ Hold(t, [m EXCEPT !.numTrans = @ + 1],
               [q EXCEPT !.pc = "pfd", !.id = m.numTrans + 1, !.put = q.apps])
    BY <1>1, <2>1, NewPfdTransKeeps
  <2>2. ASSUME NEW i \in Nat, NEW D \in SUBSET Apps, NEW P \in SUBSET Apps, q.op # "pfdPost",
               Hold(t, m, [q EXCEPT !.pc = "pfd", !.id = i, !.del = D, !.put = P])
        PROVE NefInv'
    <3> DEFINE r == [q EXCEPT !.pc = "pfd", !.id = i, !.del = D, !.put = P]
    <3>1. r \in ThType /\ r.h = q.h /\ r.a = q.a /\ r.op = q.op /\ r.pc = "pfd"
      BY <1>2 DEF ThType, Pcs, Located, Holding
    <3> HIDE DEF r
    <3> QED
      BY <1>5, <2>2, <3>1 DEF r
  <2>3. q.id \in Nat /\ q.apps \in SUBSET Apps /\ q.put \in SUBSET Apps
    BY <1>2 DEF ThType
  <2>4. /\ \A D : [q EXCEPT !.pc = "pfd", !.id = q.id, !.del = D, !.put = q.apps]
                  = [q EXCEPT !.pc = "pfd", !.del = D, !.put = q.apps]
        /\ \A D, P : [q EXCEPT !.pc = "pfd", !.id = q.id, !.del = D, !.put = P]
                  = [q EXCEPT !.pc = "pfd", !.del = D, !.put = P]
        /\ \A i, D : [q EXCEPT !.pc = "pfd", !.id = i, !.del = D, !.put = q.put]
                  = [q EXCEPT !.pc = "pfd", !.id = i, !.del = D]
    BY <1>2 DEF ThType
  <2>5. CASE q.op = "pfdDeleteAll" /\ \E i \in m.open : Hold(t, m, [q EXCEPT !.pc = "pfd", !.id = i, !.del = m.trans[i]])
    <3>1. PICK i \in m.open : Hold(t, m, [q EXCEPT !.pc = "pfd", !.id = i, !.del = m.trans[i]])
      BY <2>5
    <3>2. i \in Nat /\ m.trans[i] \in SUBSET Apps
      BY <1>6, <1>7
    <3>3. Hold(t, m, [q EXCEPT !.pc = "pfd", !.id = i, !.del = m.trans[i], !.put = q.put])
      BY <2>4, <3>1
    <3> QED
      BY <2>2, <2>3, <2>5, <3>2, <3>3
  <2>6. CASE /\ q.op \in {"pfdPut", "pfdDelete"} /\ q.id \in m.open
             /\ Hold(t, m, [q EXCEPT !.pc = "pfd", !.del = m.trans[q.id] \ q.apps, !.put = q.apps])
    <3>1. m.trans[q.id] \ q.apps \in SUBSET Apps
      BY <1>6, <1>7, <2>6
    <3>2. Hold(t, m, [q EXCEPT !.pc = "pfd", !.id = q.id, !.del = m.trans[q.id] \ q.apps, !.put = q.apps])
      BY <2>4, <2>6
    <3> QED
      BY <2>2, <2>3, <2>6, <3>1, <3>2
  <2>7. ASSUME q.op \in {"pfdPutApp", "pfdPatchApp", "pfdDeleteApp"}, NEW D \in SUBSET Apps,
               NEW P \in SUBSET Apps, Hold(t, m, [q EXCEPT !.pc = "pfd", !.del = D, !.put = P])
        PROVE  NefInv'
    <3>1. Hold(t, m, [q EXCEPT !.pc = "pfd", !.id = q.id, !.del = D, !.put = P])
      BY <2>4, <2>7
    <3> QED
      BY <2>2, <2>3, <2>7, <3>1
  <2>8. \/ Done(t, m)
        \/ q.op = "pfdPost" /\ Hold(t, [m EXCEPT !.numTrans = @ + 1],
               [q EXCEPT !.pc = "pfd", !.id = m.numTrans + 1, !.put = q.apps])
        \/ q.op = "pfdDeleteAll" /\ \E i \in m.open : Hold(t, m, [q EXCEPT !.pc = "pfd", !.id = i, !.del = m.trans[i]])
        \/ /\ q.op \in {"pfdPut", "pfdDelete"} /\ q.id \in m.open
           /\ Hold(t, m, [q EXCEPT !.pc = "pfd", !.del = m.trans[q.id] \ q.apps, !.put = q.apps])
        \/ /\ q.op \in {"pfdPutApp", "pfdPatchApp", "pfdDeleteApp"}
           /\ Hold(t, m, [q EXCEPT !.pc = "pfd", !.del = IF q.op = "pfdDeleteApp" THEN q.apps ELSE {},
                                   !.put = IF q.op = "pfdDeleteApp" THEN {} ELSE q.apps])
    BY <1>9 DEF LockTrans
  <2>9. /\ (IF q.op = "pfdDeleteApp" THEN q.apps ELSE {}) \in SUBSET Apps
        /\ (IF q.op = "pfdDeleteApp" THEN {} ELSE q.apps) \in SUBSET Apps
    BY <2>3
  <2> HIDE DEF m, q
  <2> QED
    BY <1>4, <2>1, <2>5, <2>6, <2>7, <2>8, <2>9
<1> QED
  BY <1>8, <1>9 DEF LockAf, Mine

(* A POST stores its subscription: the NotifCorreID it reserved is used once. *)
LEMMA StoreKeeps ==
    ASSUME NefInv, NEW t \in Threads, Pending(t), NEW sub \in SubType,
           sub.corre = th[t].sub.corre,
           Hold(t, [Mine(t) EXCEPT !.subs[th[t].id] = sub], [th[t] EXCEPT !.pc = "addaf"]),
           PeerTypes', nsess' = nsess \/ (nsess' = nsess + 1 /\ t \in MakesSess), UNCHANGED ctx
    PROVE  NefInv'
<1>1. th[t].pc = "call" /\ th[t].op \in Posting /\ Types /\ Counts /\ Handler(t)
  BY DEF Pending, NefInv
<1>2. PICK H \in Objs : H = th[t].h
  BY <1>1, MineTyped DEF Located, Holding
<1> DEFINE m == obj[H]
           id == th[t].id
           subs == [m.subs EXCEPT ![id] = sub]
           r == [th[t] EXCEPT !.pc = "addaf"]
           n == [[m EXCEPT !.subs = subs] EXCEPT !.w = t]
<1>3. /\ m \in ObjType /\ th[t] \in ThType /\ obj \in [Objs -> ObjType] /\ th \in [Threads -> ThType]
      /\ m.w = t /\ H \in 1..nobj /\ nobj \in Nat /\ numCorreID \in Nat
      /\ th[t].a \in Afs /\ th[t].op \in AllOps /\ sub.corre \in 1..numCorreID
  BY <1>1, <1>2, MineTyped DEF Types, PeerTypes, Handler, Located, Holding
<1>4. /\ subs \in [Ids -> SubType] /\ \A i \in Ids : i # id => subs[i] = m.subs[i]
      /\ id \in Ids => subs[id] = sub
  BY <1>3 DEF ObjType
<1>5. /\ r \in ThType /\ r.pc = "addaf" /\ r.h = H /\ r.op = th[t].op /\ r.a = th[t].a
  BY <1>2, <1>3 DEF ThType, Pcs, Located, Holding
<1>7. th' = [th EXCEPT ![t] = r] /\ obj' = [obj EXCEPT ![H] = n]
  BY <1>2 DEF Hold, Mine
<1> HIDE DEF subs
<1>6. /\ n \in ObjType /\ n.numSub = m.numSub /\ n.subs = subs /\ n.open = m.open
      /\ n.numTrans = m.numTrans /\ n.w = t
  <2> HIDE DEF m
  <2> QED
    BY <1>3, <1>4 DEF ObjType
<1> HIDE DEF r, n
<1>8. /\ th'[t] = r /\ \A u \in Threads : u # t => th'[u] = th[u]
  BY <1>3, <1>7
<1>9. /\ obj'[H] = n /\ obj' \in [Objs -> ObjType] /\ \A h \in Objs : h # H => obj'[h] = obj[h]
  BY <1>3, <1>6, <1>7
<1>10. numCorreID' = numCorreID /\ nobj' = nobj /\ afs' = afs /\ posts' = posts
  BY DEF ctx
<1>11. Frame(t)
  BY <1>3, <1>8, <1>9, <1>10 DEF Frame
<1>12. Handler(t)'
  BY <1>3, <1>5, <1>6, <1>8, <1>9, <1>10 DEF Handler, Located, Holding
<1>13. afs' \in [Afs -> 0..nobj']
  BY <1>1, <1>10 DEF Types
<1>14. Object(H)'
  <2>1. Object(H)
    BY DEF NefInv
  <2>2. \A i \in Ids : subs[i] # NoSub => subs[i].corre \in 1..numCorreID
    BY <1>3, <1>4, <2>1 DEF Object
  <2>3. ~(H > nobj')
    BY <1>3, <1>10
  <2> QED
    BY <1>6, <1>9, <1>10, <2>1, <2>2, <2>3 DEF Object
<1>15. Distinct'
  <2> DEFINE new == th[t].sub.corre
  <2>1. \A h \in Objs, i \in Ids : IF h = H /\ i = id THEN Corre(h, i)' = new
                                   ELSE Corre(h, i)' = Corre(h, i)
    BY <1>4, <1>6, <1>9 DEF Corre
  <2>2. /\ \A g, h \in Objs, i, j \in Ids : Corre(g, i) # 0 /\ Corre(g, i) = Corre(h, j) => g = h /\ i = j
        /\ \A v \in Threads : Pending(v) => \A h \in Objs, i \in Ids : Corre(h, i) # th[v].sub.corre
        /\ \A v, u \in Threads : Pending(v) /\ Pending(u) /\ v # u => th[v].sub.corre # th[u].sub.corre
    BY DEF NefInv, Distinct
  <2>3. \A u \in Threads : Pending(u)' => u # t /\ Pending(u) /\ th'[u].sub.corre = th[u].sub.corre
    BY <1>5, <1>8 DEF Pending
  <2> HIDE DEF new, id
  <2>4. \A h \in Objs, i \in Ids : Corre(h, i) # new
    BY <2>2 DEF new
  <2>5. \A g, h \in Objs, i, j \in Ids :
           Corre(g, i)' # 0 /\ Corre(g, i)' = Corre(h, j)' => g = h /\ i = j
    BY <2>1, <2>2, <2>4
  <2>6. \A v \in Threads : Pending(v)' => \A h \in Objs, i \in Ids : Corre(h, i)' # th'[v].sub.corre
    BY <2>1, <2>2, <2>3 DEF new
  <2>7. \A v, u \in Threads : Pending(v)' /\ Pending(u)' /\ v # u => th'[v].sub.corre # th'[u].sub.corre
    BY <2>2, <2>3
  <2> QED
    BY <2>5, <2>6, <2>7 DEF Distinct
<1>16. Counts'
  <2>1. /\ MakesAf' \subseteq MakesAf /\ MakesSub' \subseteq MakesSub
        /\ MakesSess' \subseteq MakesSess \ {t} /\ MakesTrans' \subseteq MakesTrans
    BY <1>1, <1>5, <1>8 DEF MakesAf, MakesSub, MakesSess, MakesTrans
  <2>2. \A h \in Objs : obj[h].numTrans \in Nat /\ obj'[h].numTrans \in Nat
    BY <1>3, <1>9 DEF ObjType
  <2>3. \A h \in Objs : obj'[h].numTrans <= obj[h].numTrans
    BY <1>6, <1>9, <2>2
  <2> QED
    BY <1>1, <1>10, <2>1, <2>2, <2>3, CountsMoved
<1> QED
  BY <1>5, <1>7, <1>9, <1>11, <1>12, <1>13, <1>14, <1>15, <1>16, CountingKeeps

LEMMA PostAppSessionsKeeps ==
    ASSUME NefInv, NEW t \in Threads, NEW out, PostAppSessions(t, out)
    PROVE  NefInv'
<1> DEFINE m == Mine(t)
           q == th[t]
           sub == [q.sub EXCEPT !.sess = nsess + 1]
           o == [m EXCEPT !.subs[q.id] = sub]
<1>1. /\ q.pc = "call" /\ Types /\ UNCHANGED ctx /\ UNCHANGED <<influ, pfds>>
      /\ nsess' = nsess \/ nsess' = nsess + 1
      /\ q.op \in {"qosPost", "tiPost", "tiPut"}
  BY DEF PostAppSessions, MayCall, NefInv
<1>2. /\ m.w \in {NoThread, t} /\ Lessens(t, m) /\ q.pc \in Located /\ nsess \in Nat
      /\ q \in ThType /\ m \in ObjType /\ Object(q.h) /\ Handler(t) /\ q.h \in Objs
  BY <1>1, MineLessens, HeldByMe, MineTyped DEF Holding, Types, PeerTypes
<1>3. nsess' = nsess \/ (nsess' = nsess + 1 /\ t \in MakesSess)
  BY <1>1 DEF MakesSess
<1>4. PeerTypes'
  <2>1. sessions' \subseteq 1..nsess' /\ nsess' \in Nat
    BY <1>1, <1>2 DEF PostAppSessions, Types, PeerTypes
  <2> QED
    BY <1>1, <2>1 DEF Types, PeerTypes, ctx
<1>5. afs' \in [Afs -> 0..nobj] /\ posts' = posts /\ nobj' = nobj /\ numCorreID' = numCorreID
  BY <1>1 DEF ctx, Types
<1>6. sub \in SubType /\ sub.corre = q.sub.corre
  BY <1>2 DEF ThType, SubType
<1> HIDE DEF sub
<1>7. CASE Done(t, m)
  BY <1>2, <1>3, <1>4, <1>5, <1>7, DoneKeeps
<1>8. CASE q.op = "tiPut" /\ Done(t, o)
  <2>1. q.id \in Ids /\ m.subs[q.id] = q.sub /\ q.sub.corre \in 1..numCorreID
    BY <1>1, <1>2, <1>8 DEF Handler, Mine, Posting
  <2> DEFINE subs == [m.subs EXCEPT ![q.id] = sub]
  <2>2. /\ subs \in [Ids -> SubType] /\ \A i \in Ids : i # q.id => subs[i] = m.subs[i]
        /\ subs[q.id] = sub
    BY <1>2, <1>6, <2>1 DEF ObjType
  <2>3. o = [m EXCEPT !.subs = subs]
    BY <1>2 DEF ObjType
  <2> HIDE DEF subs
  <2>4. /\ o \in ObjType /\ o.subs = subs /\ o.open = m.open /\ o.numSub = m.numSub
        /\ o.numTrans = m.numTrans
    BY <1>2, <2>2, <2>3 DEF ObjType
  <2> HIDE DEF o
  <2>5. m.subs[q.id] # NoSub
    BY <1>1, <2>1 DEF NoSub, Types, PeerTypes
  <2>6. Lessens(t, o)
    BY <1>2, <1>6, <2>1, <2>2, <2>4, <2>5 DEF Lessens, Object, Mine
  <2> QED
    BY <1>2, <1>3, <1>4, <1>5, <1>8, <2>6, DoneKeeps
<1>9. CASE q.op # "tiPut" /\ Hold(t, o, [q EXCEPT !.pc = "addaf"])
  <2>1. Pending(t)
    BY <1>1, <1>9 DEF Pending, Posting
  <2> QED
    BY <1>1, <1>3, <1>4, <1>6, <1>9, <2>1, StoreKeeps
<1> QED
  BY <1>7, <1>8, <1>9 DEF PostAppSessions, Mine, sub

LEMMA AppDataInfluenceDataPutKeeps ==
    ASSUME NefInv, NEW t \in Threads, NEW out, AppDataInfluenceDataPut(t, out)
    PROVE  NefInv'
<1> DEFINE m == Mine(t)
           q == th[t]
<1>1. q.pc = "call" /\ Types /\ UNCHANGED ctx /\ UNCHANGED <<sessions, nsess, pfds>>
      /\ q.op \in {"tiPostGroup", "tiPut"}
  BY DEF AppDataInfluenceDataPut, MayCall, NefInv
<1>2. /\ m.w \in {NoThread, t} /\ Lessens(t, m) /\ q.pc \in Located
      /\ q \in ThType /\ Handler(t) /\ q.sub \in SubType
  BY <1>1, MineLessens, HeldByMe, MineTyped DEF Holding, ThType
<1>3. PeerTypes'
  <2>1. influ' \subseteq 1..numCorreID
    BY <1>1, <1>2 DEF AppDataInfluenceDataPut, Types, PeerTypes, Handler
  <2> QED
    BY <1>1, <2>1 DEF Types, PeerTypes, ctx
<1>4. afs' \in [Afs -> 0..nobj] /\ posts' = posts /\ nobj' = nobj /\ numCorreID' = numCorreID
  BY <1>1 DEF ctx, Types
<1>5. CASE Done(t, m)
  BY <1>1, <1>2, <1>3, <1>4, <1>5, DoneKeeps
<1>6. CASE q.op # "tiPut" /\ Hold(t, [m EXCEPT !.subs[q.id] = q.sub], [q EXCEPT !.pc = "addaf"])
  <2>1. Pending(t)
    BY <1>1, <1>6 DEF Pending, Posting
  <2> QED
    BY <1>1, <1>2, <1>3, <1>6, <2>1, StoreKeeps
<1> QED
  BY <1>5, <1>6 DEF AppDataInfluenceDataPut, Mine

-----------------------------------------------------------------------------
(* The invariant holds at the start.                                         *)
LEMMA InitHolds == Init => NefInv
<1> SUFFICES ASSUME Init PROVE NefInv
  OBVIOUS
<1>1. /\ Cardinality(KnownAfs) \in Nat /\ Cardinality(Afs) \in Nat /\ MaxPosts \in Nat
      /\ nobj = Cardinality(KnownAfs)
  BY NefAssumption, FS_Subset, FS_CardinalityType DEF Init
<1>2. PeerTypes
  BY <1>1 DEF Init, PeerTypes
<1>3. Idle \in ThType /\ NoSub \in SubType
  BY DEF Idle, ThType, Pcs, NoSub, SubType
<1>4. th \in [Threads -> ThType] /\ \A t \in Threads : th[t] = Idle
  BY <1>3 DEF Init
<1>5. /\ \A a \in Afs : NewAf(a) \in ObjType /\ NewAf(a).numTrans = 0 /\ NewAf(a).numSub = 0
                        /\ NewAf(a).open = {} /\ \A i \in Ids : NewAf(a).subs[i] = NoSub
  BY <1>3 DEF NewAf, ObjType
<1>6. \A h \in Objs : \E a \in Afs : obj[h] = NewAf(a)
  <2> DEFINE name(h) == IF \E a \in Afs : afs[a] = h THEN CHOOSE a \in Afs : afs[a] = h
                        ELSE CHOOSE a \in Afs : TRUE
  <2>1. \A h : name(h) \in Afs
    BY NefAssumption
  <2>2. obj = [h \in Objs |-> NewAf(name(h))]
    BY DEF Init
  <2> HIDE DEF name
  <2> QED
    BY <2>1, <2>2
<1>7. obj \in [Objs -> ObjType]
  <2>1. obj = [h \in Objs |-> obj[h]]
    BY DEF Init
  <2> QED
    BY <1>5, <1>6, <2>1
<1>8. Types
  BY <1>1, <1>2, <1>4, <1>7 DEF Init, Types
<1>9. \A t \in Threads : Handler(t)
  BY <1>4 DEF Handler, Idle, Located, Holding
<1>10. \A h \in Objs : Object(h)
  BY <1>1, <1>5, <1>6, <1>8 DEF Object, Types, PeerTypes
<1>11. Distinct
  BY <1>4, <1>5, <1>6 DEF Distinct, Corre, Pending, Idle, NoSub
<1>12. Counts
  <2>1. MakesAf = {} /\ MakesSub = {} /\ MakesSess = {} /\ MakesTrans = {}
    BY <1>4 DEF MakesAf, MakesSub, MakesSess, MakesTrans, Idle
  <2>2. Cardinality({}) = 0
    BY FS_EmptySet
  <2>3. \A h \in Objs : obj[h].numTrans = 0
    BY <1>5, <1>6
  <2>4. nobj = Cardinality(KnownAfs) /\ numCorreID = 0 /\ nsess = 0 /\ posts = 0
    BY DEF Init
  <2> QED
    BY <1>1, <2>1, <2>2, <2>3, <2>4 DEF Counts
<1> QED
  BY <1>8, <1>9, <1>10, <1>11, <1>12 DEF NefInv

LEMMA ServeKeeps ==
    ASSUME NefInv, NEW t \in Threads, Serve(t)
    PROVE  NefInv'
<1>1. CASE \E out \in Outcomes :
             \/ PostAppSessions(t, out) \/ AppDataInfluenceDataPut(t, out)
             \/ DeleteSubscription(t, out)
             \/ \E x \in Apps : DeletePfd(t, x, out) \/ StorePfd(t, x, out)
  BY <1>1, PostAppSessionsKeeps, AppDataInfluenceDataPutKeeps, DeleteSubscriptionKeeps,
     DeletePfdKeeps, StorePfdKeeps
<1>2. CASE GetAf(t) \/ CtxWait(t) \/ LockAf(t) \/ NewSub(t) \/ AddAf(t)
  BY <1>2, GetAfKeeps, CtxWaitKeeps, LockAfKeeps, NewSubKeeps, AddAfKeeps
<1>3. CASE ScanBegin(t) \/ ScanNext(t) \/ ScanEnd(t) \/ SmfNotification(t)
  BY <1>3, ScanBeginKeeps, ScanNextKeeps, ScanEndKeeps, SmfNotificationKeeps
<1>4. CASE PatchSubscription(t) \/ PfdEnd(t)
  BY <1>4, PatchSubscriptionKeeps, PfdEndKeeps
<1> QED
  BY <1>1, <1>2, <1>3, <1>4 DEF Serve

(* Every request names an AF, and applications of the instance.              *)
LEMMA ArriveIsRequest ==
    ASSUME NEW t, Arrive(t)
    PROVE  \E op \in AllOps, a \in Afs, id \in Nat, apps \in SUBSET Apps : Request(t, op, a, id, apps)
<1>1. PICK op \in AllOps, a \in Afs : \E id \in {0} \cup Ids, apps \in SUBSET Apps : Request(t, op, a, id, apps)
  <2>1. Ops \subseteq AllOps
    BY NefAssumption
  <2>2. \A x \in Apps : {x} \in SUBSET Apps
    OBVIOUS
  <2> QED
    BY <2>1, <2>2 DEF Arrive
<1>2. {0} \cup Ids \subseteq Nat
  BY NefAssumption DEF Ids
<1> QED
  BY <1>1, <1>2

LEMMA NextKeeps == NefInv /\ [Next]_vars => NefInv'
<1> SUFFICES ASSUME NefInv, [Next]_vars PROVE NefInv'
  OBVIOUS
<1>1. ASSUME NEW t \in Threads, Arrive(t) PROVE NefInv'
  BY <1>1, ArriveIsRequest, RequestKeeps
<1>2. ASSUME NEW t \in Threads, Serve(t) PROVE NefInv'
  BY <1>2, ServeKeeps
<1>3. CASE UNCHANGED vars
  BY <1>3 DEF vars, NefInv, Types, PeerTypes, Handler, Object, Distinct, Corre, Pending, Counts,
     MakesAf, MakesSub, MakesSess, MakesTrans
<1> QED
  BY <1>1, <1>2, <1>3 DEF Next

(* The invariant is inductive.                                               *)
LEMMA NefInvHolds == Spec => []NefInv
BY InitHolds, NextKeeps, PTL DEF Spec

(* The state of the NEF keeps its shape, and its counters stay within the    *)
(* number of creating requests, whatever the goroutines do beside each other. *)
THEOREM TypeCorrect == Spec => []TypeOK
<1>1. NefInv => TypeOK
  <2> SUFFICES ASSUME NefInv PROVE TypeOK
    OBVIOUS
  <2>1. Types /\ Counts /\ \A h \in Objs : Object(h)
    BY DEF NefInv
  <2>2. nobj \in 0..(MaxPosts + Cardinality(Afs)) /\ Cardinality(Afs) \in Nat /\ MaxPosts \in Nat
    BY <2>1, NobjBound, NefAssumption
  <2>3. /\ MakesSub \in SUBSET Threads /\ MakesSess \in SUBSET Threads
    BY DEF MakesSub, MakesSess
  <2>4. Cardinality(MakesSub) \in Nat /\ Cardinality(MakesSess) \in Nat
    BY <2>3, Counting
  <2>5. numCorreID \in 0..MaxPosts /\ nsess \in 0..MaxPosts /\ posts \in 0..MaxPosts
    BY <2>1, <2>2, <2>4 DEF Counts, Types, PeerTypes
  <2>6. nobj \in {0} \cup Objs /\ afs \in [Afs -> {0} \cup Objs]
    BY <2>1, <2>2 DEF Types, Objs
  <2>7. ASSUME NEW h \in Objs
        PROVE  /\ obj[h].numSub \in 0..MaxPosts /\ obj[h].numTrans \in 0..MaxPosts
               /\ obj[h].open \subseteq 1..obj[h].numTrans
               /\ obj[h].w \in Threads \cup {NoThread}
    <3>1. obj[h].numSub \in Nat /\ obj[h].w \in Threads \cup {NoThread}
      BY <2>1 DEF Types, ObjType
    <3>2. obj[h].numTrans \in 0..MaxPosts
      BY <2>1, OpenIds
    <3>3. obj[h].numSub <= numCorreID /\ obj[h].open \subseteq 1..obj[h].numTrans
      BY <2>1 DEF Object
    <3> QED
      BY <2>5, <3>1, <3>2, <3>3, <2>2
  <2> QED
    BY <2>1, <2>5, <2>6, <2>7 DEF TypeOK, Types, PeerTypes
<1> QED
  BY <1>1, NefInvHolds, PTL

-----------------------------------------------------------------------------
(* What a step of goroutine t does to the subscriptions and to the record of *)
(* AFs: it stores only where it holds, deletes only with the app session,    *)
(* and works on what GetAf returned.                                         *)
Effect(t) ==
    /\ \A h \in 1..nobj : obj'[h].id = obj[h].id
    /\ \A h \in Objs, i \in Ids :
          /\ obj'[h].subs[i] # NoSub => \/ obj[h].subs[i] # NoSub
                                        \/ th[t].pc = "call" /\ h = th[t].h
          /\ obj[h].subs[i] # NoSub /\ obj'[h].subs[i] = NoSub => obj[h].subs[i].sess \notin sessions'
    /\ \A u \in Threads : u # t => th'[u] = th[u]
    /\ th'[t].pc \in Working =>
          /\ th'[t].a = th[t].a
          /\ \/ th[t].pc = "getaf" /\ afs[th[t].a] # 0 /\ th'[t].h = afs[th[t].a]
             \/ th[t].pc = "getaf" /\ afs[th[t].a] = 0 /\ obj'[th'[t].h].id = th[t].a
             \/ th[t].pc \in Working /\ th'[t].h = th[t].h
    /\ \/ afs' = afs
       \/ th[t].pc = "addaf" /\ afs' = [afs EXCEPT ![th[t].a] = th[t].h]

(* A step that writes back its AfData o and goes on as r.                    *)
Writes(t, o, r) == \E w : /\ obj' = [obj EXCEPT ![th[t].h] = [o EXCEPT !.w = w]]
                          /\ th' = [th EXCEPT ![t] = r]

(* Both ways to end a step under AfData.Mu store the AfData.                 *)
LEMMA DoneWrites ==
    ASSUME NEW t, NEW o, NEW r
    PROVE  /\ Done(t, o) => Writes(t, o, Idle)
           /\ Hold(t, o, r) => Writes(t, o, r)
BY DEF Done, Hold, Writes

(* What a step that stores the AfData has to show.                           *)
LEMMA WritesEffect ==
    ASSUME NefInv, NEW t \in Threads, th[t].pc \in Working, NEW o \in ObjType, NEW r, Writes(t, o, r),
           r = Idle \/ (r.a = th[t].a /\ r.h = th[t].h),
           o.id = Mine(t).id,
           \A i \in Ids :
             /\ o.subs[i] # NoSub => Mine(t).subs[i] # NoSub \/ th[t].pc = "call"
             /\ Mine(t).subs[i] # NoSub /\ o.subs[i] = NoSub => Mine(t).subs[i].sess \notin sessions',
           afs' = afs \/ (th[t].pc = "addaf" /\ afs' = [afs EXCEPT ![th[t].a] = th[t].h])
    PROVE  Effect(t)
<1>1. PICK H \in Objs : H = th[t].h
  BY MineTyped DEF Working
<1>2. /\ Mine(t) = obj[H] /\ obj \in [Objs -> ObjType] /\ th \in [Threads -> ThType]
      /\ nobj \in 0..(MaxPosts + Cardinality(Afs)) /\ MaxPosts \in Nat /\ Cardinality(Afs) \in Nat
  BY <1>1, MineTyped, NobjBound, NefAssumption DEF Working, Mine, NefInv
<1>3. PICK w : /\ obj' = [obj EXCEPT ![H] = [o EXCEPT !.w = w]]
               /\ th' = [th EXCEPT ![t] = r]
  BY <1>1 DEF Writes
<1>4. [o EXCEPT !.w = w].subs = o.subs /\ [o EXCEPT !.w = w].id = o.id
  BY DEF ObjType
<1>5. /\ obj'[H].subs = o.subs /\ obj'[H].id = o.id
      /\ \A h \in Objs : h # H => obj'[h] = obj[h]
  BY <1>2, <1>3, <1>4
<1>6. th'[t] = r /\ \A u \in Threads : u # t => th'[u] = th[u]
  BY <1>2, <1>3
<1>7. \A h \in 1..nobj : obj'[h].id = obj[h].id
  BY <1>2, <1>5 DEF Objs
<1>8. \A h \in Objs, i \in Ids :
        /\ obj'[h].subs[i] # NoSub => obj[h].subs[i] # NoSub \/ (th[t].pc = "call" /\ h = th[t].h)
        /\ obj[h].subs[i] # NoSub /\ obj'[h].subs[i] = NoSub => obj[h].subs[i].sess \notin sessions'
  BY <1>1, <1>2, <1>5
<1>9. th'[t].pc \in Working => th'[t].a = th[t].a /\ th'[t].h = th[t].h
  BY <1>6 DEF Idle, Working, Located, Holding
<1> QED
  BY <1>6, <1>7, <1>8, <1>9 DEF Effect

(* Most handlers write back every subscription they found.                   *)
LEMMA SameSubsEffect ==
    ASSUME NefInv, NEW t \in Threads, th[t].pc \in Working, NEW o \in ObjType, NEW r, Writes(t, o, r),
           r = Idle \/ (r.a = th[t].a /\ r.h = th[t].h),
           o.id = Mine(t).id, o.subs = Mine(t).subs,
           afs' = afs \/ (th[t].pc = "addaf" /\ afs' = [afs EXCEPT ![th[t].a] = th[t].h])
    PROVE  Effect(t)
BY WritesEffect

(* A goroutine that leaves the AfData alone.                                 *)
LEMMA NoObjEffect ==
    ASSUME NEW t \in Threads, obj' = obj, afs' = afs, \A u \in Threads : u # t => th'[u] = th[u],
           th'[t].pc \in Working => /\ th'[t].a = th[t].a
                                    /\ \/ th[t].pc = "getaf" /\ afs[th[t].a] # 0 /\ th'[t].h = afs[th[t].a]
                                       \/ th[t].pc \in Working /\ th'[t].h = th[t].h
    PROVE  Effect(t)
BY DEF Effect

(* The steps that store no AfData.                                           *)
LEMMA ReadersEffect ==
    ASSUME NefInv, NEW t \in Threads,
           CtxWait(t) \/ ScanBegin(t) \/ ScanNext(t) \/ ScanEnd(t) \/ SmfNotification(t)
    PROVE  Effect(t)
<1>1. th \in [Threads -> ThType] /\ th[t] \in ThType
  BY DEF NefInv, Types
<1>2. obj' = obj /\ afs' = afs
  BY DEF CtxWait, ScanBegin, ScanNext, ScanEnd, SmfNotification, ctx
<1>6. Idle.pc \notin Working
  BY DEF Idle, Working, Located, Holding
<1>3. th' = th \/ \E r : th' = [th EXCEPT ![t] = r] /\ r.pc \notin Working
  <2>1. CASE CtxWait(t)
    BY <2>1 DEF CtxWait
  <2>2. CASE ScanBegin(t)
    <3>1. PICK x : th' = [th EXCEPT ![t].pc = "scan", ![t].seen = {}, ![t].cur = x]
      BY <2>2 DEF ScanBegin
    <3>2. th' = [th EXCEPT ![t] = [th[t] EXCEPT !.pc = "scan", !.seen = {}, !.cur = x]]
      BY <1>1, <3>1
    <3>3. [th[t] EXCEPT !.pc = "scan", !.seen = {}, !.cur = x].pc = "scan"
      BY <1>1 DEF ThType
    <3> QED
      BY <3>2, <3>3 DEF Working, Located, Holding
  <2>3. CASE ScanNext(t)
    <3>1. PICK h : th' = [th EXCEPT ![t].seen = @ \cup {h}] /\ th[t].pc = "scan"
      BY <2>3 DEF ScanNext
    <3>2. th' = [th EXCEPT ![t] = [th[t] EXCEPT !.seen = @ \cup {h}]]
      BY <1>1, <3>1
    <3>3. [th[t] EXCEPT !.seen = @ \cup {h}].pc = "scan"
      BY <1>1, <3>1 DEF ThType
    <3> QED
      BY <3>2, <3>3 DEF Working, Located, Holding
  <2>4. CASE ScanEnd(t)
    <3>1. \/ th' = [th EXCEPT ![t] = Idle]
          \/ \E h : th' = [th EXCEPT ![t].pc = "rlock", ![t].h = h]
          \/ \E apps, pc : /\ pc \in {"getaf", "check"}
                           /\ th' = [th EXCEPT ![t].apps = apps, ![t].ask = @ \ {th[t].cur}, ![t].pc = pc]
      <4> DEFINE pc == IF th[t].ask = {th[t].cur} THEN "getaf" ELSE "check"
                 go(apps) == [th EXCEPT ![t].apps = apps, ![t].ask = @ \ {th[t].cur}, ![t].pc = pc]
      <4>1. \/ th' = [th EXCEPT ![t] = Idle]
            \/ \E h : th' = [th EXCEPT ![t].pc = "rlock", ![t].h = h]
            \/ \E apps : th' = go(apps)
        BY <2>4 DEF ScanEnd
      <4>2. pc \in {"getaf", "check"}
        OBVIOUS
      <4> HIDE DEF pc
      <4> QED
        BY <4>1, <4>2
    <3>2. ASSUME NEW h, th' = [th EXCEPT ![t].pc = "rlock", ![t].h = h]
          PROVE  \E r : th' = [th EXCEPT ![t] = r] /\ r.pc \notin Working
      <4>1. th' = [th EXCEPT ![t] = [th[t] EXCEPT !.pc = "rlock", !.h = h]]
        BY <1>1, <3>2
      <4>2. [th[t] EXCEPT !.pc = "rlock", !.h = h].pc = "rlock"
        BY <1>1 DEF ThType
      <4> QED
        BY <4>1, <4>2 DEF Working, Located, Holding
    <3>3. ASSUME NEW apps, NEW pc \in {"getaf", "check"},
                 th' = [th EXCEPT ![t].apps = apps, ![t].ask = @ \ {th[t].cur}, ![t].pc = pc]
          PROVE  \E r : th' = [th EXCEPT ![t] = r] /\ r.pc \notin Working
      <4> DEFINE r == [th[t] EXCEPT !.apps = apps, !.ask = @ \ {th[t].cur}, !.pc = pc]
      <4>1. th' = [th EXCEPT ![t] = r]
        BY <1>1, <3>3
      <4>2. r.pc = pc
        BY <1>1 DEF ThType
      <4> QED
        BY <4>1, <4>2 DEF Working, Located, Holding
    <3> QED
      BY <1>6, <3>1, <3>2, <3>3
  <2>5. CASE SmfNotification(t)
    BY <1>6, <2>5 DEF SmfNotification
  <2> QED
    BY <2>1, <2>2, <2>3, <2>4, <2>5
<1>4. CASE th' = th
  <2>1. CASE CtxWait(t)
    BY <1>2, <1>4, NoObjEffect
  <2>2. CASE ~CtxWait(t)
    <3>1. th[t].pc \notin Working \ {"rlock"}
      BY <2>2 DEF ScanBegin, ScanNext, ScanEnd, SmfNotification, Working, Located, Holding
    <3> QED
      BY <1>2, <1>4, <3>1, NoObjEffect
  <2> QED
    BY <2>1, <2>2
<1>5. ASSUME NEW r, th' = [th EXCEPT ![t] = r], r.pc \notin Working PROVE Effect(t)
  <2>1. th'[t] = r /\ \A u \in Threads : u # t => th'[u] = th[u]
    BY <1>1, <1>5
  <2> QED
    BY <1>2, <1>5, <2>1, NoObjEffect
<1> QED
  BY <1>3, <1>4, <1>5

LEMMA GetAfEffect ==
    ASSUME NefInv, NEW t \in Threads, GetAf(t)
    PROVE  Effect(t)
<1>1. /\ th \in [Threads -> ThType] /\ th[t] \in ThType /\ obj \in [Objs -> ObjType] /\ nobj \in Nat
      /\ th[t].pc = "getaf" /\ afs' = afs
  BY DEF NefInv, Types, GetAf, CtxLocked
<1>2. ASSUME NEW h, th' = [th EXCEPT ![t].pc = "lockaf", ![t].h = h]
      PROVE  th'[t].h = h /\ th'[t].a = th[t].a /\ \A u \in Threads : u # t => th'[u] = th[u]
  <2>1. th' = [th EXCEPT ![t] = [th[t] EXCEPT !.pc = "lockaf", !.h = h]]
    BY <1>1, <1>2
  <2>2. th'[t] = [th[t] EXCEPT !.pc = "lockaf", !.h = h] /\ \A u \in Threads : u # t => th'[u] = th[u]
    BY <1>1, <2>1
  <2> QED
    BY <1>1, <2>2 DEF ThType
<1>3. CASE /\ th' = [th EXCEPT ![t].pc = "lockaf", ![t].h = afs[th[t].a]] /\ obj' = obj
           /\ afs[th[t].a] # 0
  BY <1>1, <1>2, <1>3, NoObjEffect
<1>4. CASE th' = [th EXCEPT ![t] = Idle] /\ obj' = obj
  <2>1. th'[t] = Idle /\ \A u \in Threads : u # t => th'[u] = th[u]
    BY <1>1, <1>4
  <2> QED
    BY <1>1, <1>4, <2>1, NoObjEffect DEF Idle, Working, Located, Holding
<1>5. CASE /\ afs[th[t].a] = 0 /\ obj' = [obj EXCEPT ![nobj + 1] = NewAf(th[t].a)]
           /\ th[t].op \in Posting
           /\ th' = [th EXCEPT ![t].pc = "lockaf", ![t].h = nobj + 1]
  <2>1. \A h \in Objs : h # nobj + 1 => obj'[h] = obj[h]
    BY <1>1, <1>5
  <2>2. ASSUME nobj + 1 \in Objs, NEW i \in Ids
        PROVE  obj[nobj + 1].subs[i] = NoSub /\ obj'[nobj + 1].subs[i] = NoSub
    BY <1>1, <1>5, <2>2 DEF NefInv, Object, NewAf
  <2>3. \A h \in Objs, i \in Ids :
        /\ obj'[h].subs[i] # NoSub => obj[h].subs[i] # NoSub
        /\ obj[h].subs[i] # NoSub => obj'[h].subs[i] # NoSub
    BY <2>1, <2>2
  <2>4. nobj \in 0..(MaxPosts + Cardinality(Afs)) /\ MaxPosts + Cardinality(Afs) \in Nat
    BY NobjBound, NefAssumption DEF NefInv
  <2>5. \A h \in 1..nobj : obj'[h].id = obj[h].id
    BY <1>1, <2>1, <2>4 DEF Objs
  <2>6. th'[t].a = th[t].a /\ th'[t].h = nobj + 1 /\ \A u \in Threads : u # t => th'[u] = th[u]
    BY <1>2, <1>5
  <2>7. nobj + 1 \in Objs
    BY <1>1, <1>5, NobjBound DEF NefInv, MakesAf
  <2>8. obj'[nobj + 1].id = th[t].a
    BY <1>1, <1>5, <2>7 DEF NewAf
  <2> QED
    BY <1>1, <1>5, <2>3, <2>5, <2>6, <2>8 DEF Effect
<1> QED
  BY <1>3, <1>4, <1>5 DEF GetAf

LEMMA LockAfEffect ==
    ASSUME NefInv, NEW t \in Threads, LockAf(t)
    PROVE  Effect(t)
<1> DEFINE m == Mine(t)
           q == th[t]
<1>1. q.pc = "lockaf" /\ afs' = afs /\ q.pc \in Working /\ q.pc \in Located
  BY DEF LockAf, ctx, Working, Located
<1>2. q \in ThType /\ m \in ObjType
  BY <1>1, MineTyped
<1>3. CASE Done(t, m)
  BY <1>1, <1>2, <1>3, DoneWrites, SameSubsEffect
<1>4. ASSUME NEW r, Hold(t, m, r), r.h = q.h, r.a = q.a PROVE Effect(t)
  BY <1>1, <1>2, <1>4, DoneWrites, SameSubsEffect
<1>5. CASE LockSub(t, m, q)
  <2>1. /\ [q EXCEPT !.pc = "correid"].h = q.h /\ [q EXCEPT !.pc = "correid"].a = q.a
        /\ \A s : /\ [q EXCEPT !.pc = "call", !.sub = s].h = q.h
                  /\ [q EXCEPT !.pc = "call", !.sub = s].a = q.a
    BY <1>2 DEF ThType
  <2> HIDE DEF m, q
  <2> QED
    BY <1>3, <1>4, <1>5, <2>1 DEF LockSub
<1>6. CASE LockTrans(t, m, q)
  <2>1. /\ \A i, D : /\ [q EXCEPT !.pc = "pfd", !.id = i, !.del = D].h = q.h
                     /\ [q EXCEPT !.pc = "pfd", !.id = i, !.del = D].a = q.a
        /\ \A i, P : /\ [q EXCEPT !.pc = "pfd", !.id = i, !.put = P].h = q.h
                     /\ [q EXCEPT !.pc = "pfd", !.id = i, !.put = P].a = q.a
        /\ \A D, P : /\ [q EXCEPT !.pc = "pfd", !.del = D, !.put = P].h = q.h
                     /\ [q EXCEPT !.pc = "pfd", !.del = D, !.put = P].a = q.a
    BY <1>2 DEF ThType
  <2>2. CASE Hold(t, [m EXCEPT !.numTrans = @ + 1],
                  [q EXCEPT !.pc = "pfd", !.id = m.numTrans + 1, !.put = q.apps])
    <3> DEFINE o == [m EXCEPT !.numTrans = @ + 1]
               r == [q EXCEPT !.pc = "pfd", !.id = m.numTrans + 1, !.put = q.apps]
    <3>1. r.h = q.h /\ r.a = q.a
      BY <2>1
    <3>2. o \in ObjType /\ o.id = m.id /\ o.subs = m.subs
      BY <1>2 DEF ObjType
    <3> HIDE DEF o, r
    <3>3. Writes(t, o, r)
      BY <2>2, DoneWrites DEF o, r
    <3> HIDE DEF m
    <3> QED
      BY <1>1, <3>1, <3>2, <3>3, SameSubsEffect DEF m
  <2> HIDE DEF m, q
  <2>3. \/ Done(t, m)
        \/ Hold(t, [m EXCEPT !.numTrans = @ + 1], [q EXCEPT !.pc = "pfd", !.id = m.numTrans + 1, !.put = q.apps])
        \/ \E i, D : Hold(t, m, [q EXCEPT !.pc = "pfd", !.id = i, !.del = D])
        \/ \E D, P : Hold(t, m, [q EXCEPT !.pc = "pfd", !.del = D, !.put = P])
    BY <1>6 DEF LockTrans
  <2>4. ASSUME NEW i, NEW D, Hold(t, m, [q EXCEPT !.pc = "pfd", !.id = i, !.del = D]) PROVE Effect(t)
    BY <1>4, <2>1, <2>4
  <2>5. ASSUME NEW D, NEW P, Hold(t, m, [q EXCEPT !.pc = "pfd", !.del = D, !.put = P]) PROVE Effect(t)
    BY <1>4, <2>1, <2>5
  <2> QED
    BY <1>3, <2>2, <2>3, <2>4, <2>5
<1> QED
  BY <1>5, <1>6 DEF LockAf, Mine

LEMMA NewSubEffect ==
    ASSUME NefInv, NEW t \in Threads, NewSub(t)
    PROVE  Effect(t)
<1> DEFINE m == Mine(t)
           o == [m EXCEPT !.numSub = @ + 1]
           sub == [NoSub EXCEPT !.corre = numCorreID + 1, !.influ = th[t].op = "tiPostGroup"]
           r == [th[t] EXCEPT !.pc = "call", !.id = m.numSub + 1, !.sub = sub]
<1>1. th[t].pc = "correid" /\ afs' = afs /\ th[t].pc \in Working /\ th[t].pc \in Located
  BY DEF NewSub, CtxLocked, Working, Located, Holding
<1>2. th[t] \in ThType /\ m \in ObjType
  BY <1>1, MineTyped
<1>3. Writes(t, o, r)
  BY DoneWrites DEF NewSub, Mine
<1> HIDE DEF sub
<1>4. r.h = th[t].h /\ r.a = th[t].a
  BY <1>2 DEF ThType
<1>5. o \in ObjType /\ o.id = m.id /\ o.subs = m.subs
  BY <1>2 DEF ObjType
<1> HIDE DEF o, r
<1> QED
  BY <1>1, <1>3, <1>4, <1>5, SameSubsEffect

LEMMA AddAfEffect ==
    ASSUME NefInv, NEW t \in Threads, AddAf(t)
    PROVE  Effect(t)
<1>1. th[t].pc = "addaf" /\ th[t].pc \in Working /\ th[t].pc \in Located
  BY DEF AddAf, CtxLocked, Working, Located, Holding
<1>2. Mine(t) \in ObjType /\ Writes(t, Mine(t), Idle)
  BY <1>1, MineTyped, DoneWrites DEF AddAf, Mine
<1> QED
  BY <1>1, <1>2, SameSubsEffect DEF AddAf

LEMMA PatchSubscriptionEffect ==
    ASSUME NefInv, NEW t \in Threads, PatchSubscription(t)
    PROVE  Effect(t)
<1>1. th[t].pc = "call" /\ th[t].pc \in Working /\ th[t].pc \in Located
  BY DEF PatchSubscription, MayCall, Working, Located, Holding
<1>2. Mine(t) \in ObjType /\ Writes(t, Mine(t), Idle)
  BY <1>1, MineTyped, DoneWrites DEF PatchSubscription, Mine
<1> QED
  BY <1>1, <1>2, SameSubsEffect DEF PatchSubscription, ctx

LEMMA DeleteSubscriptionEffect ==
    ASSUME NefInv, NEW t \in Threads, NEW out, DeleteSubscription(t, out)
    PROVE  Effect(t)
<1> DEFINE m == Mine(t)
           q == th[t]
           o == [m EXCEPT !.subs[q.id] = NoSub]
<1>1. q.pc = "call" /\ q.op \in {"qosDelete", "tiDelete"} /\ afs' = afs
      /\ q.pc \in Working /\ q.pc \in Located /\ Handler(t)
  BY DEF DeleteSubscription, MayCall, ctx, Working, Located, Holding, NefInv
<1>2. m \in ObjType /\ NoSub \in SubType
  BY <1>1, MineTyped
<1>3. q.id \in Ids /\ m.subs[q.id] = q.sub
  BY <1>1 DEF Handler, Mine, Posting
<1>4. CASE out # "ok"
  <2>1. Writes(t, m, Idle)
    BY <1>4, DoneWrites DEF DeleteSubscription, Mine
  <2> QED
    BY <1>1, <1>2, <2>1, SameSubsEffect
<1>5. CASE out = "ok"
  <2>1. q.sub.sess \notin sessions' /\ Writes(t, o, Idle)
    BY <1>5, DoneWrites DEF DeleteSubscription, Mine
  <2> DEFINE subs == [m.subs EXCEPT ![q.id] = NoSub]
  <2>2. o = [m EXCEPT !.subs = subs]
    BY <1>2 DEF ObjType
  <2>3. /\ subs \in [Ids -> SubType] /\ subs[q.id] = NoSub
        /\ \A i \in Ids : i # q.id => subs[i] = m.subs[i]
    BY <1>2, <1>3 DEF ObjType
  <2> HIDE DEF subs
  <2>4. o \in ObjType /\ o.subs = subs /\ o.id = m.id
    BY <1>2, <2>2, <2>3 DEF ObjType
  <2> HIDE DEF o, m
  <2>5. \A i \in Ids : /\ o.subs[i] # NoSub => m.subs[i] # NoSub
                       /\ m.subs[i] # NoSub /\ o.subs[i] = NoSub => m.subs[i].sess \notin sessions'
    BY <1>3, <2>1, <2>3, <2>4
  <2> QED
    BY <1>1, <2>1, <2>4, <2>5, WritesEffect DEF m
<1> QED
  BY <1>4, <1>5

(* A subscription that is stored is one: it carries a NotifCorreID.          *)
LEMMA StoreEffect ==
    ASSUME NefInv, NEW t \in Threads, th[t].pc = "call", NEW sub \in SubType, sub.corre # 0,
           NEW r, Writes(t, [Mine(t) EXCEPT !.subs[th[t].id] = sub], r),
           r = Idle \/ (r.a = th[t].a /\ r.h = th[t].h), afs' = afs
    PROVE  Effect(t)
<1> DEFINE m == Mine(t)
           q == th[t]
           o == [m EXCEPT !.subs[q.id] = sub]
           subs == [m.subs EXCEPT ![q.id] = sub]
<1>1. q.pc \in Working /\ q.pc \in Located
  BY DEF Working, Located, Holding
<1>2. m \in ObjType /\ sub # NoSub
  BY <1>1, MineTyped DEF NoSub
<1>3. o = [m EXCEPT !.subs = subs]
  BY <1>2 DEF ObjType
<1>4. /\ subs \in [Ids -> SubType] /\ (q.id \in Ids => subs[q.id] = sub)
      /\ \A i \in Ids : i # q.id => subs[i] = m.subs[i]
  BY <1>2 DEF ObjType
<1> HIDE DEF subs
<1>5. o \in ObjType /\ o.subs = subs /\ o.id = m.id
  BY <1>2, <1>3, <1>4 DEF ObjType
<1> HIDE DEF o, m
<1>6. \A i \in Ids : m.subs[i] # NoSub => o.subs[i] # NoSub
  BY <1>2, <1>4, <1>5
<1>7. Writes(t, o, r)
  BY DEF o, m
<1> QED
  BY <1>1, <1>5, <1>6, <1>7, WritesEffect DEF m

LEMMA PostAppSessionsEffect ==
    ASSUME NefInv, NEW t \in Threads, NEW out, PostAppSessions(t, out)
    PROVE  Effect(t)
<1> DEFINE m == Mine(t)
           q == th[t]
           sub == [q.sub EXCEPT !.sess = nsess + 1]
           r == [q EXCEPT !.pc = "addaf"]
<1>1. q.pc = "call" /\ afs' = afs /\ q.pc \in Working /\ q.pc \in Located /\ Handler(t)
      /\ Types
  BY DEF PostAppSessions, MayCall, ctx, Working, Located, Holding, NefInv
<1>2. m \in ObjType /\ q \in ThType /\ nsess \in Nat /\ numCorreID \in Nat
  BY <1>1, MineTyped DEF Types, PeerTypes
<1>3. sub \in SubType /\ sub.corre = q.sub.corre /\ sub.corre # 0
  BY <1>1, <1>2 DEF ThType, SubType, Handler
<1>4. r.a = q.a /\ r.h = q.h
  BY <1>2 DEF ThType
<1> HIDE DEF sub, r
<1>5. CASE Done(t, m)
  BY <1>1, <1>2, <1>5, DoneWrites, SameSubsEffect
<1>6. CASE \/ Writes(t, [m EXCEPT !.subs[q.id] = sub], Idle)
           \/ Writes(t, [m EXCEPT !.subs[q.id] = sub], r)
  BY <1>1, <1>3, <1>4, <1>6, StoreEffect
<1> QED
  BY <1>5, <1>6, DoneWrites DEF PostAppSessions, Mine, sub, r

LEMMA AppDataInfluenceDataPutEffect ==
    ASSUME NefInv, NEW t \in Threads, NEW out, AppDataInfluenceDataPut(t, out)
    PROVE  Effect(t)
<1> DEFINE m == Mine(t)
           q == th[t]
           r == [q EXCEPT !.pc = "addaf"]
<1>1. q.pc = "call" /\ afs' = afs /\ q.pc \in Working /\ q.pc \in Located /\ Handler(t)
      /\ Types
  BY DEF AppDataInfluenceDataPut, MayCall, ctx, Working, Located, Holding, NefInv
<1>2. m \in ObjType /\ q \in ThType /\ numCorreID \in Nat
  BY <1>1, MineTyped DEF Types, PeerTypes
<1>3. q.sub \in SubType /\ q.sub.corre # 0
  BY <1>1, <1>2 DEF ThType, Handler
<1>4. r.a = q.a /\ r.h = q.h
  BY <1>2 DEF ThType
<1> HIDE DEF r
<1>5. CASE Done(t, m)
  BY <1>1, <1>2, <1>5, DoneWrites, SameSubsEffect
<1>6. CASE Writes(t, [m EXCEPT !.subs[q.id] = q.sub], r)
  BY <1>1, <1>3, <1>4, <1>6, StoreEffect
<1> QED
  BY <1>5, <1>6, DoneWrites DEF AppDataInfluenceDataPut, Mine, r

(* PFD handlers change no subscription.                                      *)
LEMMA DeletePfdEffect ==
    ASSUME NefInv, NEW t \in Threads, NEW out, NEW x, DeletePfd(t, x, out)
    PROVE  Effect(t)
<1> DEFINE m == Mine(t)
           r == [th[t] EXCEPT !.del = @ \ {x}, !.ok = @ \cup {x}]
<1>1. th[t].pc = "pfd" /\ afs' = afs /\ th[t].pc \in Working /\ th[t].pc \in Located
  BY DEF DeletePfd, MayCall, ctx, Working, Located, Holding
<1>2. m \in ObjType /\ th[t] \in ThType
  BY <1>1, MineTyped
<1>3. r.a = th[t].a /\ r.h = th[t].h
  BY <1>2 DEF ThType
<1>4. Writes(t, m, Idle) \/ Writes(t, m, r)
  BY DoneWrites DEF DeletePfd, Mine
<1> HIDE DEF r
<1> QED
  BY <1>1, <1>2, <1>3, <1>4, SameSubsEffect

LEMMA StorePfdEffect ==
    ASSUME NefInv, NEW t \in Threads, NEW out, NEW x \in Apps, StorePfd(t, x, out)
    PROVE  Effect(t)
<1> DEFINE m == Mine(t)
           q == th[t]
           r == [q EXCEPT !.put = @ \ {x}, !.ok = IF out = "ok" THEN @ \cup {x} ELSE @]
           fresh == q.op = "pfdPut" /\ q.put = q.apps
           T == (IF fresh THEN {} ELSE m.trans[q.id]) \cup {x}
           n == [m EXCEPT !.trans[q.id] = T]
           o == IF q.op \in Validated THEN n ELSE m
<1>1. q.pc = "pfd" /\ afs' = afs /\ q.pc \in Working /\ q.pc \in Located
  BY DEF StorePfd, MayCall, ctx, Working, Located, Holding
<1>2. m \in ObjType /\ q \in ThType
  BY <1>1, MineTyped
<1>3. r.a = q.a /\ r.h = q.h
  BY <1>2 DEF ThType
<1>4. Writes(t, o, r)
  BY DoneWrites DEF StorePfd, Mine
<1>5. n \in ObjType /\ n.subs = m.subs /\ n.id = m.id
  <2> DEFINE trans == [m.trans EXCEPT ![q.id] = T]
  <2>1. n = [m EXCEPT !.trans = trans]
    BY <1>2 DEF ObjType
  <2>2. trans \in [Ids -> SUBSET Apps]
    <3>1. q.id \in Ids => T \in SUBSET Apps
      BY <1>2 DEF ObjType
    <3> HIDE DEF T
    <3> QED
      BY <1>2, <3>1 DEF ObjType
  <2> HIDE DEF trans, n
  <2> QED
    BY <1>2, <2>1, <2>2 DEF ObjType
<1> HIDE DEF r, n
<1>6. o \in ObjType /\ o.subs = m.subs /\ o.id = m.id
  BY <1>2, <1>5
<1> HIDE DEF o
<1> QED
  BY <1>1, <1>3, <1>4, <1>6, SameSubsEffect

LEMMA PfdEndEffect ==
    ASSUME NefInv, NEW t \in Threads, PfdEnd(t)
    PROVE  Effect(t)
<1> DEFINE m == Mine(t)
           id == th[t].id
           shut == [m EXCEPT !.open = @ \ {id}, !.trans[id] = {}]
           post == [th[t] EXCEPT !.pc = "addaf"]
           next(i) == [th[t] EXCEPT !.id = i, !.del = m.trans[i]]
<1>1. th[t].pc = "pfd" /\ afs' = afs /\ th[t].pc \in Working /\ th[t].pc \in Located
  BY DEF PfdEnd, ctx, Working, Located, Holding
<1>2. m \in ObjType /\ th[t] \in ThType
  BY <1>1, MineTyped
<1>3. /\ post.a = th[t].a /\ post.h = th[t].h
      /\ \A i : next(i).a = th[t].a /\ next(i).h = th[t].h
  BY <1>2 DEF ThType
<1>4. ASSUME NEW o, Lessens(t, o), o.subs = m.subs, o.id = m.id,
             Writes(t, o, Idle) \/ Writes(t, o, post) \/ \E i : Writes(t, o, next(i))
      PROVE  Effect(t)
  <2> HIDE DEF m, post, next
  <2> QED
    BY <1>1, <1>3, <1>4, SameSubsEffect DEF Lessens, m
<1>5. CASE Writes(t, m, Idle)
  BY <1>1, <1>4, <1>5, MineLessens
<1>6. CASE th[t].op = "pfdPost" /\ Writes(t, [m EXCEPT !.open = @ \cup {id}], post)
  <2>1. Lessens(t, [m EXCEPT !.open = @ \cup {id}])
    <3>1. id \in 1..m.numTrans /\ m.open \subseteq 1..m.numTrans
      BY <1>1, <1>6, MineTyped DEF Handler, Object, Mine
    <3> QED
      BY <1>1, <3>1, TransLessens
  <2>2. /\ [m EXCEPT !.open = @ \cup {id}].subs = m.subs
        /\ [m EXCEPT !.open = @ \cup {id}].id = m.id
    BY <1>2 DEF ObjType
  <2> HIDE DEF m, post
  <2> QED
    BY <1>4, <1>6, <2>1, <2>2
<1>7. CASE Writes(t, [m EXCEPT !.trans[id] = {}], Idle)
  <2>1. Lessens(t, [m EXCEPT !.trans[id] = {}])
    BY <1>1, TransLessens
  <2>2. /\ [m EXCEPT !.trans[id] = {}].subs = m.subs /\ [m EXCEPT !.trans[id] = {}].id = m.id
    BY <1>2 DEF ObjType
  <2> HIDE DEF m
  <2> QED
    BY <1>4, <1>7, <2>1, <2>2
<1>8. CASE Writes(t, shut, Idle) \/ \E i : Writes(t, shut, next(i))
  <2>1. Lessens(t, shut)
    <3>1. m.open \ {id} \subseteq 1..m.numTrans
      BY <1>1, MineTyped DEF Object, Mine
    <3> QED
      BY <1>1, <3>1, TransLessens
  <2>2. shut.subs = m.subs /\ shut.id = m.id
    BY <1>2 DEF ObjType
  <2> HIDE DEF m, shut, next
  <2> QED
    BY <1>4, <1>8, <2>1, <2>2
<1>9. CASE Writes(t, [m EXCEPT !.trans[id] = @ \ th[t].apps], Idle)
  <2> DEFINE T == m.trans[id] \ th[t].apps
             o == [m EXCEPT !.trans[id] = T]
  <2>1. CASE id \in Ids
    <3>1. T \in SUBSET Apps
      BY <1>2, <2>1 DEF ObjType
    <3> HIDE DEF T
    <3>2. Lessens(t, o)
      BY <1>1, <3>1, TransLessens
    <3>3. o.subs = m.subs /\ o.id = m.id
      BY <1>2 DEF ObjType
    <3>4. Writes(t, o, Idle)
      BY <1>9 DEF T
    <3> HIDE DEF m, o
    <3> QED
      BY <1>4, <3>2, <3>3, <3>4
  <2>2. CASE id \notin Ids
    <3>1. o = m
      BY <1>2, <2>2 DEF ObjType
    <3> QED
      BY <1>5, <1>9, <3>1
  <2> QED
    BY <2>1, <2>2
<1>10. \/ Writes(t, m, Idle)
       \/ th[t].op = "pfdPost" /\ Writes(t, [m EXCEPT !.open = @ \cup {id}], post)
       \/ Writes(t, [m EXCEPT !.trans[id] = {}], Idle)
       \/ Writes(t, shut, Idle) \/ \E i : Writes(t, shut, next(i))
       \/ Writes(t, [m EXCEPT !.trans[id] = @ \ th[t].apps], Idle)
  <2>1. \/ Done(t, m)
        \/ th[t].op = "pfdPost" /\ Hold(t, [m EXCEPT !.open = @ \cup {id}], post)
        \/ Done(t, [m EXCEPT !.trans[id] = {}])
        \/ Done(t, shut) \/ \E i : Hold(t, shut, next(i))
        \/ Done(t, [m EXCEPT !.trans[id] = @ \ th[t].apps])
    BY DEF PfdEnd, Mine
  <2> HIDE DEF m, id, shut, post, next
  <2> QED
    BY <2>1, DoneWrites
<1> HIDE DEF m, id, shut, post, next
<1> QED
  BY <1>5, <1>6, <1>7, <1>8, <1>9, <1>10

(* A new request has looked nothing up yet.                                  *)
LEMMA RequestEffect ==
    ASSUME NefInv, NEW t \in Threads, NEW op, NEW a, NEW id, NEW apps, Request(t, op, a, id, apps)
    PROVE  Effect(t)
<1> DEFINE pc == IF op \in Validated \cup {"smfNotify"} THEN "check" ELSE "getaf"
           r == [Idle EXCEPT !.pc = pc, !.op = op, !.a = a, !.id = id, !.apps = apps, !.ask = apps]
<1>1. th \in [Threads -> ThType] /\ th' = [th EXCEPT ![t] = r] /\ obj' = obj /\ afs' = afs
  BY DEF Request, NefInv, Types
<1>2. r.pc = pc /\ pc \notin Working
  BY DEF Idle, Working, Located, Holding
<1> HIDE DEF r
<1>3. th'[t] = r /\ \A u \in Threads : u # t => th'[u] = th[u]
  BY <1>1
<1> QED
  BY <1>1, <1>2, <1>3, NoObjEffect

(* Every step of a goroutine has an effect of the allowed kind.              *)
LEMMA StepEffect ==
    ASSUME NefInv, NEW t \in Threads, Arrive(t) \/ Serve(t)
    PROVE  Effect(t)
<1>1. CASE Arrive(t)
  BY <1>1, ArriveIsRequest, RequestEffect
<1>2. CASE \E out \in Outcomes :
             \/ PostAppSessions(t, out) \/ AppDataInfluenceDataPut(t, out)
             \/ DeleteSubscription(t, out)
             \/ \E x \in Apps : DeletePfd(t, x, out) \/ StorePfd(t, x, out)
  BY <1>2, PostAppSessionsEffect, AppDataInfluenceDataPutEffect, DeleteSubscriptionEffect,
     DeletePfdEffect, StorePfdEffect
<1>3. CASE GetAf(t) \/ LockAf(t) \/ NewSub(t) \/ AddAf(t)
  BY <1>3, GetAfEffect, LockAfEffect, NewSubEffect, AddAfEffect
<1>4. CASE CtxWait(t) \/ ScanBegin(t) \/ ScanNext(t) \/ ScanEnd(t) \/ SmfNotification(t)
  BY <1>4, ReadersEffect
<1>5. CASE PatchSubscription(t) \/ PfdEnd(t)
  BY <1>5, PatchSubscriptionEffect, PfdEndEffect
<1> QED
  BY <1>1, <1>2, <1>3, <1>4, <1>5 DEF Serve

(* A subscription disappears only when the PCF no longer holds its app       *)
(* session, whatever answers are refused or lost and whatever runs beside.   *)
THEOREM DeletedOnlyWithSessionHolds == Spec => DeletedOnlyWithSession
<1>1. NefInv /\ [Next]_vars => [\A h \in Objs, i \in Ids :
          obj[h].subs[i] # NoSub /\ obj'[h].subs[i] = NoSub
              => obj[h].subs[i].sess \notin sessions']_vars
  <2> SUFFICES ASSUME NefInv, Next, NEW h \in Objs, NEW i \in Ids,
                      obj[h].subs[i] # NoSub, obj'[h].subs[i] = NoSub
               PROVE  obj[h].subs[i].sess \notin sessions'
    OBVIOUS
  <2> QED
    BY StepEffect DEF Next, Effect
<1> QED
  BY <1>1, NefInvHolds, PTL DEF Spec, DeletedOnlyWithSession

(* No two subscriptions the NEF stores carry the same NotifCorreID, whether  *)
(* their AF was registered before or made by a POST: the SMF's callback      *)
(* cannot be taken for another AF's.                                         *)
THEOREM NotifCorreIDsDiffer ==
    Spec => [](\A g, h \in Objs : \A i, j \in Ids :
                 obj[g].subs[i].corre = obj[h].subs[j].corre /\ obj[g].subs[i] # NoSub => g = h /\ i = j)
<1>1. ASSUME NefInv, NEW g \in Objs, NEW h \in Objs, NEW i \in Ids, NEW j \in Ids,
             obj[g].subs[i].corre = obj[h].subs[j].corre, obj[g].subs[i] # NoSub
      PROVE  g = h /\ i = j
  <2>1. obj[g].subs[i].corre # 0
    BY <1>1 DEF NefInv, Types, PeerTypes, Object
  <2> QED
    BY <1>1, <2>1 DEF NefInv, Distinct, Corre
<1>2. NefInv => \A g, h \in Objs : \A i, j \in Ids :
                 obj[g].subs[i].corre = obj[h].subs[j].corre /\ obj[g].subs[i] # NoSub => g = h /\ i = j
  BY <1>1
<1> QED
  BY <1>2, NefInvHolds, PTL

-----------------------------------------------------------------------------
(* GetAf finds the one AfData of an AF that was registered from the start,   *)
(* and every handler of its requests works on it.                            *)
LEMMA SettledInit == Init => Settled
<1> SUFFICES ASSUME Init PROVE Settled
  OBVIOUS
<1>1. /\ afs \in [Afs -> 0..Cardinality(KnownAfs)] /\ \A a \in Afs : afs[a] = 0 <=> a \notin KnownAfs
      /\ \A a, b \in KnownAfs : afs[a] = afs[b] => a = b
  BY DEF Init
<1>2. /\ Cardinality(Afs) \in Nat /\ MaxPosts \in Nat /\ Cardinality(KnownAfs) \in Nat
      /\ Cardinality(KnownAfs) <= Cardinality(Afs) /\ KnownAfs \subseteq Afs
  BY NefAssumption, FS_CardinalityType, FS_Subset
<1>3. \A a \in KnownAfs : afs[a] \in Objs
  BY <1>1, <1>2 DEF Objs
<1>4. ASSUME NEW a \in KnownAfs PROVE obj[afs[a]].id = a
  <2> DEFINE name(h) == IF \E b \in Afs : afs[b] = h THEN CHOOSE b \in Afs : afs[b] = h
                        ELSE CHOOSE b \in Afs : TRUE
  <2>1. name(afs[a]) = a
    <3>1. \A b \in Afs : afs[b] = afs[a] => b = a
      BY <1>1, <1>2
    <3> QED
      BY <1>2, <3>1
  <2>2. obj = [h \in Objs |-> NewAf(name(h))]
    BY DEF Init
  <2> HIDE DEF name
  <2>3. obj[afs[a]] = NewAf(a)
    BY <1>3, <2>1, <2>2
  <2> QED
    BY <2>3 DEF NewAf
<1>5. ASSUME NEW h \in Objs, NEW i \in Ids PROVE obj[h].subs[i] = NoSub
  <2>1. \E a : obj[h] = NewAf(a)
    BY DEF Init
  <2> QED
    BY <2>1 DEF NewAf
<1>6. \A t \in Threads : th[t].pc \notin Working
  BY DEF Init, Idle, Working, Located, Holding
<1> QED
  BY <1>1, <1>2, <1>4, <1>5, <1>6 DEF Settled

(* No step of any goroutine replaces the AfData of a settled AF.             *)
LEMMA SettledNext == NefInv /\ Settled /\ [Next]_vars => Settled'
<1> SUFFICES ASSUME NefInv, Settled, [Next]_vars PROVE Settled'
  OBVIOUS
<1>1. ASSUME NEW t \in Threads, Effect(t) PROVE Settled'
  <2>1. /\ Types /\ Handler(t) /\ afs \in [Afs -> 0..nobj] /\ nobj \in Nat
        /\ \A u \in Threads : Handler(u)
    BY DEF NefInv, Types
  <2>2. /\ \A h \in 1..nobj : obj'[h].id = obj[h].id
        /\ \A u \in Threads : u # t => th'[u] = th[u]
    BY <1>1 DEF Effect
  <2>3. \A u \in Threads : th[u].pc \in Working =>
           /\ th[u].a \in Afs /\ th[u].h \in 1..nobj /\ obj[th[u].h].id = th[u].a
           /\ th[u].a \in KnownAfs => afs[th[u].a] = th[u].h
    BY <2>1 DEF Handler, Settled, Working, Located, Holding
  <2>4. th[t].pc \in {"addaf", "call"} => th[t].pc \in Working
    BY DEF Working, Located, Holding
  <2>5. \A a \in KnownAfs : afs'[a] = afs[a] /\ afs[a] # 0
    <3>1. KnownAfs \subseteq Afs /\ \A a \in KnownAfs : afs[a] # 0
      BY NefAssumption DEF Settled
    <3> QED
      BY <1>1, <2>1, <2>3, <2>4, <3>1 DEF Effect
  <2>6. \A a \in Afs : afs'[a] # 0 => obj'[afs'[a]].id = a
    <3>1. \A a \in Afs : afs[a] # 0 => afs[a] \in 1..nobj /\ obj'[afs[a]].id = a
      BY <2>1, <2>2 DEF Settled
    <3>2. CASE afs' = afs
      BY <3>1, <3>2
    <3>3. CASE th[t].pc = "addaf" /\ afs' = [afs EXCEPT ![th[t].a] = th[t].h]
      <4>1. th[t].a \in Afs /\ obj'[th[t].h].id = th[t].a
        BY <2>2, <2>3, <2>4, <3>3
      <4> QED
        BY <2>1, <3>1, <3>3, <4>1
    <3> QED
      BY <1>1, <3>2, <3>3 DEF Effect
  <2>7. ASSUME NEW h \in Objs, NEW i \in Ids, obj'[h].subs[i] # NoSub, obj'[h].id \in KnownAfs
        PROVE  afs'[obj'[h].id] = h
    <3>1. obj[h].subs[i] # NoSub \/ (th[t].pc = "call" /\ h = th[t].h)
      BY <1>1, <2>7 DEF Effect
    <3>2. h \in 1..nobj /\ obj'[h].id = obj[h].id
      <4>1. ~(h > nobj)
        BY <2>1, <2>3, <2>4, <3>1 DEF NefInv, Object
      <4>2. h \in Nat /\ h >= 1
        BY DEF Objs
      <4> QED
        BY <2>1, <2>2, <4>1, <4>2
    <3>3. afs[obj[h].id] = h
      BY <2>3, <2>4, <2>7, <3>1, <3>2 DEF Settled
    <3> QED
      BY <2>5, <2>7, <3>2, <3>3
  <2>8. ASSUME NEW u \in Threads, th'[u].pc \in Working
        PROVE  /\ obj'[th'[u].h].id = th'[u].a
               /\ th'[u].a \in KnownAfs => afs'[th'[u].a] = th'[u].h
    <3>1. CASE u # t
      BY <2>2, <2>3, <2>5, <2>8, <3>1
    <3>2. CASE u = t /\ th[t].pc = "getaf"
      <4>1. th[t].a \in Afs /\ th[t].pc \notin Working
        BY <2>1, <3>2 DEF Handler, Working, Located, Holding
      <4>2. /\ th'[t].a = th[t].a
            /\ \/ afs[th[t].a] # 0 /\ th'[t].h = afs[th[t].a]
               \/ afs[th[t].a] = 0 /\ obj'[th'[t].h].id = th[t].a
        BY <1>1, <2>8, <3>2, <4>1 DEF Effect
      <4>3. afs[th[t].a] # 0 => afs[th[t].a] \in 1..nobj /\ obj[afs[th[t].a]].id = th[t].a
        BY <2>1, <4>1 DEF Settled
      <4> QED
        BY <2>2, <2>5, <3>2, <4>2, <4>3
    <3>3. CASE u = t /\ th[t].pc # "getaf"
      <4>1. th[t].pc \in Working /\ th'[t].h = th[t].h /\ th'[t].a = th[t].a
        BY <1>1, <2>8, <3>3 DEF Effect
      <4> QED
        BY <2>2, <2>3, <2>5, <3>3, <4>1
    <3> QED
      BY <3>1, <3>2, <3>3
  <2> QED
    BY <2>5, <2>6, <2>7, <2>8 DEF Settled
<1>2. CASE UNCHANGED vars
  BY <1>2 DEF vars, Settled
<1>3. CASE Next
  BY <1>1, <1>3, StepEffect DEF Next
<1> QED
  BY <1>2, <1>3

(* An AF registered from the start keeps its AfData.                         *)
LEMMA SettledHolds == Spec => []Settled
BY SettledInit, SettledNext, NefInvHolds, PTL DEF Spec

(* A subscription of an AF that was registered when the POST came is in the  *)
(* AfData GetAf returns, whatever other AFs register beside it.               *)
THEOREM KnownAfsReachable ==
    Spec => [](\A h \in Objs, i \in Ids :
                  obj[h].subs[i] # NoSub /\ obj[h].id \in KnownAfs => afs[obj[h].id] = h)
<1>1. Settled => \A h \in Objs, i \in Ids :
                    obj[h].subs[i] # NoSub /\ obj[h].id \in KnownAfs => afs[obj[h].id] = h
  BY DEF Settled
<1> QED
  BY <1>1, SettledHolds, PTL

(* With every AF registered from the start, a subscription is in the AfData  *)
(* that GetAf returns for its AF, and no other carries its NotifCorreID.      *)
THEOREM SubscriptionsReachableHolds ==
    ASSUME KnownAfs = Afs
    PROVE  Spec => []SubscriptionsReachable
<1>1. NefInv /\ Settled => SubscriptionsReachable
  <2> SUFFICES ASSUME NefInv, Settled PROVE SubscriptionsReachable
    OBVIOUS
  <2>1. ASSUME NEW h \in Objs, NEW i \in Ids, obj[h].subs[i] # NoSub PROVE afs[obj[h].id] = h
    <3>1. obj[h].id \in Afs
      BY DEF NefInv, Types, ObjType
    <3> QED
      BY <2>1, <3>1 DEF Settled
  <2>2. ASSUME NEW g \in Objs, NEW h \in Objs, NEW i \in Ids, NEW j \in Ids,
               obj[g].subs[i].corre = obj[h].subs[j].corre, obj[g].subs[i] # NoSub
        PROVE  g = h /\ i = j
    <3>1. obj[g].subs[i].corre # 0
      BY <2>2 DEF NefInv, Types, PeerTypes, Object
    <3> QED
      BY <2>2, <3>1 DEF NefInv, Distinct, Corre
  <2> QED
    BY <2>1, <2>2 DEF SubscriptionsReachable
<1> QED
  BY <1>1, SettledHolds, NefInvHolds, PTL

-----------------------------------------------------------------------------
(* The PFD handlers.  What a handler q on AfData o is about to take out of    *)
(* its transaction: it asks the UDR to delete the PFDs first.                 *)
Removing == {"pfdDelete", "pfdDeleteAll", "pfdDeleteApp"}
GivesUp(q, o, x) ==
    /\ q.pc = "pfd"
    /\ \/ q.op \in {"pfdDelete", "pfdDeleteAll"} /\ x \in o.trans[q.id] /\ x \notin q.del
       \/ q.op = "pfdDeleteApp" /\ x \in q.apps /\ x \notin q.del
       \/ q.op = "pfdPut" /\ q.put = q.apps /\ x \in o.trans[q.id] /\ x \notin q.apps \cup q.del
       \/ q.op = "pfdPost" /\ q.ok = {} /\ x \in o.trans[q.id]

(* A PUT that has emptied the transaction names its applications again.       *)
Brings(q, x) == q.pc = "pfd" /\ q.op = "pfdPut" /\ q.put # q.apps /\ x \in q.put

(* A transaction names x and its handler, if one works on it, does not give   *)
(* x up.                                                                      *)
Stays(h, j, x) ==
    /\ x \in obj[h].trans[j]
    /\ \A t \in Threads : ~(th[t].h = h /\ th[t].id = j /\ GivesUp(th[t], obj[h], x))
Held(x) == \/ \E h \in Objs, j \in Ids : Stays(h, j, x)
           \/ \E t \in Threads : Brings(th[t], x)

(* What a PFD handler has gathered before it locks the AfData, and after.     *)
Early(q) ==
    /\ q.pc \in {"check", "scan", "getaf", "lockaf"} => q.put = {} /\ q.ok = {} /\ q.del = {}
    /\ q.op \in {"pfdDelete", "pfdDeleteAll"} => q.apps = {}
Works(q, o) ==
    /\ q.id \in 1..o.numTrans /\ q.put \subseteq q.apps
    /\ q.op \in Removing \cup Validated \cup {"pfdPutApp", "pfdPatchApp"}
    /\ q.op \in Removing => q.put = {}
    /\ q.op \in {"pfdPutApp", "pfdPatchApp"} => q.apps \subseteq o.trans[q.id]
    /\ \/ q.op \in {"pfdPost", "pfdPutApp", "pfdPatchApp"}
       \/ q.op = "pfdPut" /\ q.put # q.apps
       => q.del = {}
    /\ q.op = "pfdPost" => q.id \notin o.open

(* Without lost answers the NEF names every application the UDR holds PFDs    *)
(* for.  With one AF, even a lost answer leaves no PFDs of an application its *)
(* handler gives up, for nobody else works on that AF.                        *)
OneAf == KnownAfs = Afs /\ Cardinality(Afs) = 1
PfdInv ==
    /\ \A h \in Objs, j \in Ids : j > obj[h].numTrans \/ h > nobj => obj[h].trans[j] = {}
    /\ \A t \in Threads : Early(th[t]) /\ (th[t].pc = "pfd" => Works(th[t], obj[th[t].h]))
    /\ ~Lossy => \A x \in pfds : Held(x)
    /\ OneAf => \A t \in Threads, x \in Apps :
          th[t].op # "pfdPost" /\ GivesUp(th[t], obj[th[t].h], x) => x \notin pfds

(* What a step of goroutine t may do to the transactions: the AfData that     *)
(* other PFD handlers hold stay, names go only when t gave them up or will    *)
(* bring them back, and t gives up only what the UDR no longer holds.         *)
Blank == \A h \in Objs, j \in Ids : j > obj[h].numTrans \/ h > nobj => obj[h].trans[j] = {}
Ready(t) == Early(th[t]) /\ (th[t].pc = "pfd" => Works(th[t], obj[th[t].h]))
LetsGo(t, x) == GivesUp(th[t], obj[th[t].h], x)
Beside(t) == \A u \in Threads : u # t =>
    /\ th'[u] = th[u]
    /\ th[u].pc = "pfd" => /\ obj'[th[u].h].trans = obj[th[u].h].trans
                           /\ obj'[th[u].h].open = obj[th[u].h].open
                           /\ obj'[th[u].h].numTrans = obj[th[u].h].numTrans
Names(t, x) == /\ th[t].pc = "pfd" /\ th[t].h \in Objs /\ th[t].id \in Ids
               /\ x \in obj'[th[t].h].trans[th[t].id] /\ ~LetsGo(t, x)'
NamesKept(t) ==
    /\ \A h \in Objs, j \in Ids, x \in Apps :
          x \in obj[h].trans[j] /\ x \notin obj'[h].trans[j]
             => Brings(th'[t], x) \/ (th[t].h = h /\ th[t].id = j /\ LetsGo(t, x))
    /\ \A x \in Apps : Brings(th[t], x) => Brings(th'[t], x) \/ Names(t, x)
    /\ \A x \in Apps : x \in pfds' /\ x \notin pfds => Lossy \/ Names(t, x)
    /\ OneAf => pfds' \subseteq pfds \/ \A u \in Threads : u # t => th[u].pc # "pfd"
GivesUpLate(t) == \A x \in Apps : LetsGo(t, x)' =>
    \/ x \notin pfds'
    \/ /\ LetsGo(t, x) /\ th'[t].h = th[t].h /\ th'[t].id = th[t].id /\ th'[t].op = th[t].op
       /\ th[t].op # "pfdPost" /\ x \in pfds' => x \in pfds
    \/ th'[t].op = "pfdPost" /\ x \notin obj[th'[t].h].trans[th'[t].id]
Forgets(t) == \A h \in Objs, i \in Ids, x \in Apps :
    x \in NamedPfds(h, i) /\ x \notin NamedPfds(h, i)' =>
        \/ x \in th'[t].put
        \/ LetsGo(t, x) /\ th[t].op # "pfdPost" /\ (x \in pfds' => x \in pfds)
PfdTurn(t) == Beside(t) /\ Blank' /\ Ready(t)' /\ NamesKept(t) /\ GivesUpLate(t) /\ Forgets(t)

(* Two PFD handlers hold two AfData, ...                                      *)
LEMMA PfdApart ==
    ASSUME NefInv, NEW t \in Threads, Mine(t).w \in {NoThread, t}, NEW u \in Threads, u # t,
           th[u].pc = "pfd"
    PROVE  th[u].h # th[t].h /\ th[u].h \in Objs /\ th[u].h \in 1..nobj
<1>1. Handler(u) /\ th[u].pc \in Holding /\ th[u].pc \in Located
  BY DEF NefInv, Holding, Located
<1>2. obj[th[u].h].w = u /\ u # NoThread
  BY <1>1, NefAssumption DEF Handler
<1> QED
  BY <1>1, <1>2, MineTyped DEF Mine, Handler

(* ... and with one AF there is one AfData to hold.                           *)
LEMMA PfdAlone ==
    ASSUME NefInv, Settled, OneAf, NEW t \in Threads, th[t].pc = "pfd"
    PROVE  \A u \in Threads : u # t => th[u].pc # "pfd"
<1> SUFFICES ASSUME NEW u \in Threads, u # t, th[u].pc = "pfd" PROVE FALSE
  OBVIOUS
<1>1. th[t].a \in Afs /\ th[u].a \in Afs
  BY DEF NefInv, Handler
<1>2. PICK a : Afs = {a}
  BY NefAssumption, FS_Singleton DEF OneAf
<1>3. th[t].pc \in Working /\ th[u].pc \in Working /\ th[t].pc \in Holding
  BY DEF Working, Located, Holding
<1>4. afs[th[t].a] = th[t].h /\ afs[th[u].a] = th[u].h
  BY <1>1, <1>3 DEF Settled, OneAf
<1>5. th[u].h = th[t].h
  BY <1>1, <1>2, <1>4
<1> QED
  BY <1>3, <1>5, HeldByMe, PfdApart

(* What a handler gives up depends on the transactions of its AfData alone.   *)
LEMMA GivesUpSame ==
    ASSUME NEW q, NEW o, NEW p, NEW x, p.trans = o.trans
    PROVE  GivesUp(q, p, x) <=> GivesUp(q, o, x)
BY DEF GivesUp

(* Such a step keeps every application the UDR holds PFDs for named.          *)
LEMMA TurnHeld ==
    ASSUME NefInv, PfdInv, NEW t \in Threads, PfdTurn(t), ~Lossy, NEW x \in pfds', x \in Apps
    PROVE  Held(x)'
<1>1. Beside(t) /\ NamesKept(t) /\ GivesUpLate(t)
  BY DEF PfdTurn
<1>2. ASSUME Names(t, x) PROVE Held(x)'
  <2>1. PICK H \in Objs, J \in Ids : H = th[t].h /\ J = th[t].id
    BY <1>2 DEF Names
  <2>2. th[t].pc = "pfd" /\ ~LetsGo(t, x)' /\ x \in obj'[H].trans[J]
    BY <1>2, <2>1 DEF Names
  <2>3. ASSUME NEW u \in Threads, th'[u].h = H, GivesUp(th'[u], obj'[H], x) PROVE FALSE
    <3>1. CASE u = t
      BY <2>2, <2>3, <3>1 DEF LetsGo
    <3>2. CASE u # t
      <4>1. th[u].pc = "pfd" /\ th[u].h = th[t].h
        BY <1>1, <2>1, <2>3, <3>2 DEF Beside, GivesUp
      <4>2. th[t].pc \in Holding
        BY <2>2 DEF Holding
      <4> QED
        BY <3>2, <4>1, <4>2, HeldByMe, PfdApart
    <3> QED
      BY <3>1, <3>2
  <2>4. Stays(H, J, x)'
    BY <2>2, <2>3 DEF Stays
  <2> QED
    BY <2>4 DEF Held
<1>3. CASE x \notin pfds
  BY <1>1, <1>2, <1>3 DEF NamesKept
<1>4. CASE x \in pfds
  <2>1. Held(x)
    BY <1>4 DEF PfdInv
  <2>2. CASE \E u \in Threads : Brings(th[u], x)
    <3>1. PICK u \in Threads : Brings(th[u], x)
      BY <2>2
    <3>2. CASE u = t
      BY <1>1, <1>2, <3>1, <3>2 DEF NamesKept, Held
    <3>3. CASE u # t
      BY <1>1, <3>1, <3>3 DEF Beside, Held
    <3> QED
      BY <3>2, <3>3
  <2>3. ASSUME NEW h \in Objs, NEW j \in Ids, Stays(h, j, x) PROVE Held(x)'
    <3>1. /\ x \in obj[h].trans[j]
          /\ \A u \in Threads : ~(th[u].h = h /\ th[u].id = j /\ GivesUp(th[u], obj[h], x))
      BY <2>3 DEF Stays
    <3>2. CASE x \notin obj'[h].trans[j]
      <4>1. Brings(th'[t], x)
        BY <1>1, <3>1, <3>2 DEF NamesKept, LetsGo
      <4> QED
        BY <4>1 DEF Held
    <3>3. CASE x \in obj'[h].trans[j]
      <4>1. ASSUME NEW u \in Threads, th'[u].h = h, th'[u].id = j, GivesUp(th'[u], obj'[h], x)
            PROVE  FALSE
        <5>1. CASE u # t
          <6>1. th'[u] = th[u] /\ th[u].pc = "pfd" /\ obj'[h].trans = obj[h].trans
            BY <1>1, <4>1, <5>1 DEF Beside, GivesUp
          <6> QED
            BY <3>1, <4>1, <6>1, GivesUpSame
        <5>2. CASE u = t
          <6>1. LetsGo(t, x)'
            BY <4>1, <5>2 DEF LetsGo
          <6> QED
            BY <1>1, <3>1, <4>1, <5>2, <6>1 DEF GivesUpLate, LetsGo
        <5> QED
          BY <5>1, <5>2
      <4>2. Stays(h, j, x)'
        BY <3>3, <4>1 DEF Stays
      <4> QED
        BY <4>2 DEF Held
    <3> QED
      BY <3>2, <3>3
  <2> QED
    BY <2>1, <2>2, <2>3 DEF Held
<1> QED
  BY <1>3, <1>4

(* Such a step preserves the invariant.                                       *)
LEMMA TurnKeeps ==
    ASSUME NefInv, NefInv', PfdInv, NEW t \in Threads, PfdTurn(t)
    PROVE  PfdInv'
<1>1. Beside(t) /\ Blank' /\ Ready(t)' /\ NamesKept(t) /\ GivesUpLate(t)
  BY DEF PfdTurn
<1>2. \A u \in Threads : Ready(u)'
  <2> SUFFICES ASSUME NEW u \in Threads, u # t PROVE Ready(u)'
    BY <1>1
  <2>1. th'[u] = th[u] /\ Ready(u)
    BY <1>1 DEF Beside, PfdInv, Ready
  <2>2. CASE th[u].pc = "pfd"
    <3>1. /\ obj'[th[u].h].trans = obj[th[u].h].trans /\ obj'[th[u].h].open = obj[th[u].h].open
          /\ obj'[th[u].h].numTrans = obj[th[u].h].numTrans
      BY <1>1, <2>2 DEF Beside
    <3> QED
      BY <2>1, <2>2, <3>1 DEF Ready, Works
  <2> QED
    BY <2>1, <2>2 DEF Ready
<1>3. ~Lossy => \A x \in pfds' : Held(x)'
  <2>1. pfds' \subseteq Apps
    BY DEF NefInv, Types, PeerTypes
  <2> QED
    BY <2>1, TurnHeld
<1>4. ASSUME OneAf, NEW u \in Threads, NEW x \in Apps, th'[u].op # "pfdPost", LetsGo(u, x)'
      PROVE  x \notin pfds'
  <2>0. th[u].op # "pfdPost" /\ LetsGo(u, x) => x \notin pfds
    BY <1>4 DEF PfdInv, LetsGo
  <2>1. CASE u = t
    BY <1>1, <1>4, <2>0, <2>1 DEF GivesUpLate
  <2>2. CASE u # t
    <3>1. th'[u] = th[u] /\ th[u].pc = "pfd" /\ obj'[th[u].h].trans = obj[th[u].h].trans
      BY <1>1, <1>4, <2>2 DEF Beside, LetsGo, GivesUp
    <3>2. LetsGo(u, x)
      BY <1>4, <3>1, GivesUpSame DEF LetsGo
    <3>3. pfds' \subseteq pfds
      BY <1>1, <1>4, <2>2, <3>1 DEF NamesKept
    <3> QED
      BY <1>4, <2>0, <3>1, <3>2, <3>3
  <2> QED
    BY <2>1, <2>2
<1> QED
  BY <1>1, <1>2, <1>3, <1>4 DEF PfdInv, Blank, Ready, LetsGo, OneAf

-----------------------------------------------------------------------------
(* The steps that leave every transaction and the UDR alone, outside the PFD  *)
(* handlers' critical section.                                                *)
PfdQuiet(t) ==
    /\ th[t].pc # "pfd" /\ th'[t].pc # "pfd" /\ Early(th'[t]) /\ pfds' = pfds
    /\ \A u \in Threads : u # t => th'[u] = th[u]
    /\ nobj' \in Nat /\ nobj' >= nobj
    /\ \A h \in Objs : /\ obj'[h].trans = obj[h].trans
                       /\ h <= nobj => /\ obj'[h].open = obj[h].open
                                       /\ obj'[h].numTrans = obj[h].numTrans

(* Such a step is a turn that names and gives up what the one before did.    *)
LEMMA QuietTurn ==
    ASSUME NefInv, PfdInv, NEW t \in Threads, PfdQuiet(t)
    PROVE  PfdTurn(t)
<1>1. Blank /\ nobj \in Nat
  BY DEF PfdInv, Blank, NefInv, Types
<1>2. Blank'
  BY <1>1 DEF Blank, PfdQuiet, Objs
<1>3. Ready(t)' /\ \A x : ~LetsGo(t, x)'
  BY DEF Ready, PfdQuiet, LetsGo, GivesUp
<1>4. ASSUME NEW u \in Threads, th[u].pc = "pfd" PROVE th[u].h \in Objs /\ th[u].h <= nobj
  BY <1>4, MineTyped DEF Located, Holding
<1>5. Beside(t)
  BY <1>4 DEF Beside, PfdQuiet
<1>6. NamesKept(t)
  BY DEF NamesKept, PfdQuiet, Brings
<1>7. Forgets(t)
  <2> SUFFICES ASSUME NEW h \in Objs, NEW i \in Ids, NEW x \in Apps,
                      x \in NamedPfds(h, i), x \notin NamedPfds(h, i)'
               PROVE  FALSE
    BY DEF Forgets
  <2>1. x \in obj[h].trans[i] /\ i \in obj[h].open
    BY DEF NamedPfds
  <2>2. h <= nobj
    BY <1>1, <2>1 DEF Blank, Objs
  <2> QED
    BY <2>1, <2>2 DEF NamedPfds, PfdQuiet
<1> QED
  BY <1>2, <1>3, <1>5, <1>6, <1>7 DEF PfdTurn, GivesUpLate

(* What is read after a step that writes back its AfData as o.               *)
LEMMA Written ==
    ASSUME NefInv, NEW t \in Threads, th[t].pc \in Located, NEW o \in ObjType, NEW r, Writes(t, o, r)
    PROVE  /\ th'[t] = r /\ \A u \in Threads : u # t => th'[u] = th[u]
           /\ obj'[th[t].h].trans = o.trans /\ obj'[th[t].h].open = o.open
           /\ obj'[th[t].h].numTrans = o.numTrans
           /\ \A h \in Objs : h # th[t].h => obj'[h] = obj[h]
<1>1. PICK H \in Objs : H = th[t].h
  BY MineTyped
<1>2. obj \in [Objs -> ObjType] /\ th \in [Threads -> ThType]
  BY DEF NefInv, Types
<1>3. PICK w : obj' = [obj EXCEPT ![H] = [o EXCEPT !.w = w]] /\ th' = [th EXCEPT ![t] = r]
  BY <1>1 DEF Writes
<1> DEFINE n == [o EXCEPT !.w = w]
<1>4. n.trans = o.trans /\ n.open = o.open /\ n.numTrans = o.numTrans
  BY DEF ObjType
<1>5. obj'[H] = n /\ \A h \in Objs : h # H => obj'[h] = obj[h]
  BY <1>2, <1>3
<1>6. th'[t] = r /\ \A u \in Threads : u # t => th'[u] = th[u]
  BY <1>2, <1>3
<1> HIDE DEF n
<1> QED
  BY <1>1, <1>4, <1>5, <1>6

(* A step that writes back its AfData with the transactions it found.        *)
LEMMA WriteQuiet ==
    ASSUME NefInv, NEW t \in Threads, th[t].pc \in Located, th[t].pc # "pfd", NEW o \in ObjType, NEW r,
           Writes(t, o, r), o.trans = Mine(t).trans, o.open = Mine(t).open,
           o.numTrans = Mine(t).numTrans, r.pc # "pfd", Early(r), nobj' = nobj, pfds' = pfds
    PROVE  PfdQuiet(t)
<1>1. th[t].h \in Objs /\ nobj \in Nat
  BY MineTyped DEF NefInv, Types
<1> QED
  BY <1>1, Written DEF PfdQuiet, Mine

(* A step that stores no AfData.                                              *)
LEMMA ReadQuiet ==
    ASSUME NefInv, NEW t \in Threads, th[t].pc # "pfd", NEW r, th' = [th EXCEPT ![t] = r],
           r.pc # "pfd", Early(r), obj' = obj, nobj' = nobj, pfds' = pfds
    PROVE  PfdQuiet(t)
<1>1. th'[t] = r /\ (\A u \in Threads : u # t => th'[u] = th[u]) /\ nobj \in Nat
  BY DEF NefInv, Types
<1> QED
  BY <1>1 DEF PfdQuiet

(* Early holds of a goroutine that goes on without new PFD work.              *)
LEMMA EarlyKept ==
    ASSUME NEW q, Early(q), NEW r, r.op = q.op, r.apps = q.apps,
           \/ r.put = q.put /\ r.ok = q.ok /\ r.del = q.del /\ q.pc \in {"check", "scan", "getaf"}
           \/ r.pc \notin {"check", "scan", "getaf", "lockaf"}
    PROVE  Early(r)
BY DEF Early

(* A goroutine without a request has gathered nothing.                       *)
LEMMA IdleEarly == Early(Idle) /\ Idle.pc # "pfd"
BY DEF Early, Idle

(* The scans, a wait for NefContext.mu and the SMF's callback store nothing. *)
LEMMA ReadersTurn ==
    ASSUME NefInv, PfdInv, NEW t \in Threads,
           CtxWait(t) \/ ScanBegin(t) \/ ScanNext(t) \/ ScanEnd(t) \/ SmfNotification(t)
    PROVE  PfdTurn(t)
<1>1. th \in [Threads -> ThType] /\ th[t] \in ThType /\ Early(th[t]) /\ Handler(t)
  BY DEF NefInv, Types, PfdInv
<1>2. obj' = obj /\ nobj' = nobj /\ pfds' = pfds
  BY DEF CtxWait, ScanBegin, ScanNext, ScanEnd, SmfNotification, ctx, peers
<1>3. th[t].pc # "pfd"
  BY DEF CtxWait, ScanBegin, ScanNext, ScanEnd, SmfNotification
<1>4. ASSUME NEW r, th' = [th EXCEPT ![t] = r], r.pc # "pfd", Early(r) PROVE PfdTurn(t)
  BY <1>2, <1>3, <1>4, ReadQuiet, QuietTurn
<1>5. CASE CtxWait(t)
  <2>1. th' = [th EXCEPT ![t] = th[t]]
    BY <1>1, <1>5 DEF CtxWait
  <2> QED
    BY <1>1, <1>3, <1>4, <2>1
<1>6. CASE ScanBegin(t)
  <2>1. PICK x : th' = [th EXCEPT ![t].pc = "scan", ![t].seen = {}, ![t].cur = x]
    BY <1>6 DEF ScanBegin
  <2> DEFINE r == [th[t] EXCEPT !.pc = "scan", !.seen = {}, !.cur = x]
  <2>2. th' = [th EXCEPT ![t] = r]
    BY <1>1, <2>1
  <2>3. r.pc = "scan" /\ r.op = th[t].op /\ r.apps = th[t].apps /\ r.put = th[t].put
        /\ r.ok = th[t].ok /\ r.del = th[t].del
    BY <1>1 DEF ThType
  <2>4. th[t].pc = "check"
    BY <1>6 DEF ScanBegin
  <2> HIDE DEF r
  <2> QED
    BY <1>1, <1>4, <2>2, <2>3, <2>4, EarlyKept
<1>7. CASE ScanNext(t)
  <2>1. PICK h : th' = [th EXCEPT ![t].seen = @ \cup {h}] /\ th[t].pc = "scan"
    BY <1>7 DEF ScanNext
  <2> DEFINE r == [th[t] EXCEPT !.seen = @ \cup {h}]
  <2>2. th' = [th EXCEPT ![t] = r]
    BY <1>1, <2>1
  <2>3. r.pc = "scan" /\ r.op = th[t].op /\ r.apps = th[t].apps /\ r.put = th[t].put
        /\ r.ok = th[t].ok /\ r.del = th[t].del
    BY <1>1, <2>1 DEF ThType
  <2> HIDE DEF r
  <2> QED
    BY <1>1, <1>4, <2>1, <2>2, <2>3, EarlyKept
<1>8. CASE ScanEnd(t)
  <2>1. th[t].pc = "scan" /\ th[t].op \in Validated \cup {"smfNotify"}
    BY <1>1, <1>8 DEF ScanEnd, Handler
  <2> DEFINE pc == IF th[t].ask = {th[t].cur} THEN "getaf" ELSE "check"
             go(apps) == [th EXCEPT ![t].apps = apps, ![t].ask = @ \ {th[t].cur}, ![t].pc = pc]
  <2>2. \/ th' = [th EXCEPT ![t] = Idle]
        \/ \E h : th' = [th EXCEPT ![t].pc = "rlock", ![t].h = h]
        \/ \E apps : th' = go(apps)
    BY <1>8 DEF ScanEnd
  <2>3. pc \in {"getaf", "check"}
    OBVIOUS
  <2> HIDE DEF pc
  <2>4. CASE th' = [th EXCEPT ![t] = Idle]
    BY <1>4, <2>4, IdleEarly
  <2>5. ASSUME NEW h, th' = [th EXCEPT ![t].pc = "rlock", ![t].h = h] PROVE PfdTurn(t)
    <3> DEFINE r == [th[t] EXCEPT !.pc = "rlock", !.h = h]
    <3>1. th' = [th EXCEPT ![t] = r]
      BY <1>1, <2>5
    <3>2. r.pc = "rlock" /\ r.op = th[t].op /\ r.apps = th[t].apps
      BY <1>1 DEF ThType
    <3> HIDE DEF r
    <3> QED
      BY <1>1, <1>4, <3>1, <3>2, EarlyKept
  <2>6. ASSUME NEW apps, th' = go(apps) PROVE PfdTurn(t)
    <3> DEFINE r == [th[t] EXCEPT !.apps = apps, !.ask = @ \ {th[t].cur}, !.pc = pc]
    <3>1. th' = [th EXCEPT ![t] = r]
      BY <1>1, <2>6
    <3>2. r.pc = pc /\ r.op = th[t].op /\ r.put = th[t].put /\ r.ok = th[t].ok /\ r.del = th[t].del
      BY <1>1 DEF ThType
    <3> HIDE DEF r
    <3>3. Early(r)
      BY <1>1, <2>1, <2>3, <3>2 DEF Early, Validated
    <3> QED
      BY <1>4, <2>3, <3>1, <3>2, <3>3
  <2> QED
    BY <2>2, <2>4, <2>5, <2>6
<1>9. CASE SmfNotification(t)
  BY <1>4, <1>9, IdleEarly DEF SmfNotification
<1> QED
  BY <1>5, <1>6, <1>7, <1>8, <1>9

(* A new AfData has no transaction, and none is lost by making it.           *)
LEMMA GetAfTurn ==
    ASSUME NefInv, PfdInv, NEW t \in Threads, GetAf(t)
    PROVE  PfdTurn(t)
<1>1. /\ th \in [Threads -> ThType] /\ th[t] \in ThType /\ obj \in [Objs -> ObjType] /\ nobj \in Nat
      /\ th[t].pc = "getaf" /\ pfds' = pfds /\ Early(th[t]) /\ Blank
  BY DEF NefInv, Types, GetAf, CtxLocked, peers, PfdInv, Blank
<1>2. ASSUME NEW h, th' = [th EXCEPT ![t].pc = "lockaf", ![t].h = h]
      PROVE  \E r : th' = [th EXCEPT ![t] = r] /\ r.pc = "lockaf" /\ Early(r)
  <2> DEFINE r == [th[t] EXCEPT !.pc = "lockaf", !.h = h]
  <2>1. th' = [th EXCEPT ![t] = r]
    BY <1>1, <1>2
  <2>2. r.pc = "lockaf" /\ r.op = th[t].op /\ r.apps = th[t].apps /\ r.put = th[t].put
        /\ r.ok = th[t].ok /\ r.del = th[t].del
    BY <1>1 DEF ThType
  <2> HIDE DEF r
  <2> QED
    BY <1>1, <2>1, <2>2, EarlyKept
<1>3. CASE th' = [th EXCEPT ![t].pc = "lockaf", ![t].h = afs[th[t].a]] /\ obj' = obj /\ nobj' = nobj
  BY <1>1, <1>2, <1>3, ReadQuiet, QuietTurn
<1>4. CASE th' = [th EXCEPT ![t] = Idle] /\ obj' = obj /\ nobj' = nobj
  BY <1>1, <1>4, IdleEarly, ReadQuiet, QuietTurn
<1>5. CASE /\ obj' = [obj EXCEPT ![nobj + 1] = NewAf(th[t].a)] /\ nobj' = nobj + 1
           /\ th[t].op \in Posting /\ th' = [th EXCEPT ![t].pc = "lockaf", ![t].h = nobj + 1]
  <2>1. PICK r : th' = [th EXCEPT ![t] = r] /\ r.pc = "lockaf" /\ Early(r)
    BY <1>2, <1>5
  <2>2. th'[t] = r /\ \A u \in Threads : u # t => th'[u] = th[u]
    BY <1>1, <2>1
  <2>3. nobj + 1 \in Objs
    BY <1>1, <1>5, NobjBound DEF NefInv, MakesAf
  <2>4. obj'[nobj + 1] = NewAf(th[t].a) /\ \A h \in Objs : h # nobj + 1 => obj'[h] = obj[h]
    BY <1>1, <1>5, <2>3
  <2>5. obj'[nobj + 1].trans = obj[nobj + 1].trans
    <3>1. obj'[nobj + 1].trans = [i \in Ids |-> {}]
      BY <2>4 DEF NewAf
    <3>2. obj[nobj + 1].trans \in [Ids -> SUBSET Apps]
      BY <1>1, <2>3 DEF ObjType
    <3>3. \A i \in Ids : obj[nobj + 1].trans[i] = {}
      BY <1>1, <2>3 DEF Blank
    <3> QED
      BY <3>1, <3>2, <3>3
  <2>6. PfdQuiet(t)
    BY <1>1, <1>5, <2>1, <2>2, <2>3, <2>4, <2>5 DEF PfdQuiet
  <2> QED
    BY <2>6, QuietTurn
<1> QED
  BY <1>3, <1>4, <1>5 DEF GetAf

(* The steps of the handlers of subscriptions.                                *)
LEMMA SubTurn ==
    ASSUME NefInv, PfdInv, NEW t \in Threads, th[t].pc \in Located, th[t].pc # "pfd",
           NEW o \in ObjType, NEW r, (Done(t, o) /\ r = Idle) \/ Hold(t, o, r),
           o.trans = Mine(t).trans, o.open = Mine(t).open, o.numTrans = Mine(t).numTrans,
           r = Idle \/ (r.op = th[t].op /\ r.apps = th[t].apps /\ r.pc \in {"correid", "call", "addaf"}),
           nobj' = nobj, pfds' = pfds
    PROVE  PfdTurn(t)
<1>1. Writes(t, o, r)
  BY DoneWrites
<1>2. r.pc # "pfd" /\ Early(r)
  BY IdleEarly DEF PfdInv, Early
<1> QED
  BY <1>1, <1>2, WriteQuiet, QuietTurn

(* A subscription's handler takes the AfData, or finds nothing to do.        *)
LEMMA LockSubTurn ==
    ASSUME NefInv, PfdInv, NEW t \in Threads, LockAf(t), LockSub(t, Mine(t), th[t]) \/ Done(t, Mine(t))
    PROVE  PfdTurn(t)
<1>1. /\ th[t].pc = "lockaf" /\ th[t].pc \in Located /\ nobj' = nobj /\ pfds' = pfds
  BY DEF LockAf, ctx, peers, Located
<1>2. th[t] \in ThType /\ Mine(t) \in ObjType
  BY <1>1, MineTyped
<1>3. CASE Done(t, Mine(t))
  BY <1>1, <1>2, <1>3, SubTurn
<1>4. ASSUME NEW r, Hold(t, Mine(t), r), r.op = th[t].op, r.apps = th[t].apps, r.pc \in {"correid", "call"}
      PROVE  PfdTurn(t)
  BY <1>1, <1>2, <1>4, SubTurn
<1>5. CASE LockSub(t, Mine(t), th[t])
  <2>1. /\ [th[t] EXCEPT !.pc = "correid"].op = th[t].op
        /\ [th[t] EXCEPT !.pc = "correid"].apps = th[t].apps
        /\ [th[t] EXCEPT !.pc = "correid"].pc = "correid"
        /\ \A s : /\ [th[t] EXCEPT !.pc = "call", !.sub = s].op = th[t].op
                  /\ [th[t] EXCEPT !.pc = "call", !.sub = s].apps = th[t].apps
                  /\ [th[t] EXCEPT !.pc = "call", !.sub = s].pc = "call"
    BY <1>2 DEF ThType
  <2> QED
    BY <1>3, <1>4, <1>5, <2>1 DEF LockSub
<1> QED
  BY <1>3, <1>5

(* A POST reserves its identifiers.                                          *)
LEMMA NewSubTurn ==
    ASSUME NefInv, PfdInv, NEW t \in Threads, NewSub(t)
    PROVE  PfdTurn(t)
<1>1. th[t].pc = "correid" /\ th[t].pc \in Located /\ nobj' = nobj /\ pfds' = pfds
  BY DEF NewSub, CtxLocked, peers, Located, Holding
<1>2. th[t] \in ThType /\ Mine(t) \in ObjType /\ Types
  BY <1>1, MineTyped DEF NefInv
<1> DEFINE m == Mine(t)
           o == [m EXCEPT !.numSub = @ + 1]
           s == [NoSub EXCEPT !.corre = numCorreID + 1, !.influ = th[t].op = "tiPostGroup"]
           r == [th[t] EXCEPT !.pc = "call", !.id = m.numSub + 1, !.sub = s]
<1>3. o \in ObjType /\ o.trans = m.trans /\ o.open = m.open /\ o.numTrans = m.numTrans
  BY <1>2 DEF ObjType
<1>4. r.op = th[t].op /\ r.apps = th[t].apps /\ r.pc = "call"
  BY <1>2 DEF ThType
<1>5. Hold(t, o, r)
  BY DEF NewSub, Mine
<1> HIDE DEF m, o, s, r
<1> QED
  BY <1>1, <1>3, <1>4, <1>5, SubTurn DEF m

(* A POST registers its AF, a PATCH stores nothing.                          *)
LEMMA AddAfTurn ==
    ASSUME NefInv, PfdInv, NEW t \in Threads, AddAf(t) \/ PatchSubscription(t)
    PROVE  PfdTurn(t)
<1>1. /\ th[t].pc \in {"addaf", "call"} /\ th[t].pc \in Located /\ nobj' = nobj /\ pfds' = pfds
      /\ Done(t, Mine(t))
  BY DEF AddAf, PatchSubscription, MayCall, CtxLocked, peers, ctx, Located, Holding, Mine
<1>2. Mine(t) \in ObjType
  BY <1>1, MineTyped
<1> QED
  BY <1>1, <1>2, SubTurn

(* ... which store or remove one subscription.                                *)
LEMMA StoreTurn ==
    ASSUME NefInv, PfdInv, NEW t \in Threads, th[t].pc = "call", NEW i, NEW s \in SubType, NEW r,
           (Done(t, [Mine(t) EXCEPT !.subs[i] = s]) /\ r = Idle) \/ Hold(t, [Mine(t) EXCEPT !.subs[i] = s], r),
           r = Idle \/ r = [th[t] EXCEPT !.pc = "addaf"], nobj' = nobj, pfds' = pfds
    PROVE  PfdTurn(t)
<1>1. th[t].pc \in Located /\ th[t].pc # "pfd"
  BY DEF Located, Holding
<1>2. th[t] \in ThType /\ Mine(t) \in ObjType
  BY <1>1, MineTyped
<1> DEFINE m == Mine(t)
           subs == [m.subs EXCEPT ![i] = s]
           o == [m EXCEPT !.subs = subs]
<1>3. subs \in [Ids -> SubType]
  BY <1>2 DEF ObjType
<1>4. [Mine(t) EXCEPT !.subs[i] = s] = o
  BY <1>2 DEF ObjType
<1> HIDE DEF subs
<1>5. o \in ObjType /\ o.trans = m.trans /\ o.open = m.open /\ o.numTrans = m.numTrans
  BY <1>2, <1>3 DEF ObjType
<1>6. r = Idle \/ (r.op = th[t].op /\ r.apps = th[t].apps /\ r.pc = "addaf")
  BY <1>2 DEF ThType
<1>7. (Done(t, o) /\ r = Idle) \/ Hold(t, o, r)
  BY <1>4
<1> HIDE DEF m, o
<1> QED
  BY <1>1, <1>5, <1>6, <1>7, SubTurn DEF m

(* The calls to PCF and UDR of a subscription's handler.                     *)
LEMMA CallTurn ==
    ASSUME NefInv, PfdInv, NEW t \in Threads, NEW out,
           \/ PostAppSessions(t, out) \/ AppDataInfluenceDataPut(t, out)
           \/ DeleteSubscription(t, out)
    PROVE  PfdTurn(t)
<1> DEFINE m == Mine(t)
           q == th[t]
<1>1. /\ q.pc = "call" /\ q.pc \in Located /\ nobj' = nobj /\ pfds' = pfds
  BY DEF PostAppSessions, AppDataInfluenceDataPut, DeleteSubscription, MayCall, ctx, Located, Holding
<1>2. q \in ThType /\ m \in ObjType /\ NoSub \in SubType
  BY <1>1, MineTyped
<1>3. q.sub \in SubType /\ [q.sub EXCEPT !.sess = nsess + 1] \in SubType
  BY <1>2 DEF ThType, SubType, NefInv, Types, PeerTypes
<1>4. CASE Done(t, m)
  BY <1>1, <1>2, <1>4, SubTurn
<1>5. ASSUME NEW s \in SubType, NEW i,
             \/ Done(t, [m EXCEPT !.subs[i] = s])
             \/ Hold(t, [m EXCEPT !.subs[i] = s], [q EXCEPT !.pc = "addaf"])
      PROVE PfdTurn(t)
  BY <1>1, <1>5, StoreTurn
<1>6. \/ Done(t, m)
      \/ \E s \in SubType : \/ Done(t, [m EXCEPT !.subs[q.id] = s])
                            \/ Hold(t, [m EXCEPT !.subs[q.id] = s], [q EXCEPT !.pc = "addaf"])
  <2>1. CASE PostAppSessions(t, out)
    <3> DEFINE sub == [q.sub EXCEPT !.sess = nsess + 1]
    <3>1. \/ Done(t, m) \/ Done(t, [m EXCEPT !.subs[q.id] = sub])
          \/ Hold(t, [m EXCEPT !.subs[q.id] = sub], [q EXCEPT !.pc = "addaf"])
      BY <2>1 DEF PostAppSessions, Mine
    <3> HIDE DEF m, q
    <3> QED
      BY <1>3, <3>1 DEF q
  <2>2. CASE AppDataInfluenceDataPut(t, out)
    BY <1>3, <2>2 DEF AppDataInfluenceDataPut, Mine
  <2>3. CASE DeleteSubscription(t, out)
    <3>1. Done(t, m) \/ Done(t, [m EXCEPT !.subs[q.id] = NoSub])
      BY <2>3 DEF DeleteSubscription, Mine
    <3> QED
      BY <1>2, <3>1
  <2> QED
    BY <2>1, <2>2, <2>3
<1> HIDE DEF m, q
<1> QED
  BY <1>4, <1>5, <1>6

(* A request brings what it asks for and nothing else.                        *)
LEMMA RequestTurn ==
    ASSUME NefInv, PfdInv, NEW t \in Threads, Arrive(t)
    PROVE  PfdTurn(t)
<1>1. \E op, a, i, apps : /\ Request(t, op, a, i, apps)
                          /\ op \in {"pfdDelete", "pfdDeleteAll"} => apps = {}
  BY DEF Arrive, Posting
<1>2. PICK op, a, i, apps : /\ Request(t, op, a, i, apps)
                            /\ op \in {"pfdDelete", "pfdDeleteAll"} => apps = {}
  BY <1>1
<1> DEFINE pc == IF op \in Validated \cup {"smfNotify"} THEN "check" ELSE "getaf"
           r == [Idle EXCEPT !.pc = pc, !.op = op, !.a = a, !.id = i, !.apps = apps, !.ask = apps]
<1>3. th' = [th EXCEPT ![t] = r] /\ obj' = obj /\ nobj' = nobj /\ pfds' = pfds /\ th[t] = Idle
  BY <1>2 DEF Request, peers
<1>4. r.pc = pc /\ r.op = op /\ r.apps = apps /\ r.put = {} /\ r.ok = {} /\ r.del = {}
  BY DEF Idle
<1>5. pc \in {"check", "getaf"}
  OBVIOUS
<1> HIDE DEF r, pc
<1>6. Early(r) /\ r.pc # "pfd"
  BY <1>2, <1>4, <1>5 DEF Early
<1>7. th[t].pc # "pfd"
  BY <1>3, IdleEarly
<1> QED
  BY <1>3, <1>6, <1>7, ReadQuiet, QuietTurn

-----------------------------------------------------------------------------
(* The PFD handlers.  What one step of handler q, which becomes r, does to its *)
(* AfData m, which becomes o.                                                  *)
LocalTurn(q, m, o, r) ==
    /\ \A j \in Ids, x \in Apps : x \in m.trans[j] /\ x \notin o.trans[j]
          => Brings(r, x) \/ (q.id = j /\ GivesUp(q, m, x))
    /\ \A x \in Apps : Brings(q, x) => Brings(r, x) \/ (x \in o.trans[q.id] /\ ~GivesUp(r, o, x))
    /\ \A x \in Apps : x \in pfds' /\ x \notin pfds => Lossy \/ (x \in o.trans[q.id] /\ ~GivesUp(r, o, x))
    /\ \A x \in Apps : GivesUp(r, o, x) =>
          \/ x \notin pfds'
          \/ /\ GivesUp(q, m, x) /\ r.id = q.id /\ r.op = q.op
             /\ q.op # "pfdPost" /\ x \in pfds' => x \in pfds
          \/ r.op = "pfdPost" /\ x \notin m.trans[r.id]
    /\ \A j \in Ids, x \in Apps :
          x \in m.trans[j] /\ j \in m.open /\ ~(x \in o.trans[j] /\ j \in o.open) =>
             \/ x \in r.put
             \/ GivesUp(q, m, x) /\ q.op # "pfdPost" /\ (x \in pfds' => x \in pfds)

(* What a handler relies on depends on the transactions of its AfData alone. *)
LEMMA WorksSame ==
    ASSUME NEW q, NEW o, NEW p, p.trans = o.trans, p.open = o.open, p.numTrans = o.numTrans
    PROVE  Works(q, p) <=> Works(q, o)
BY DEF Works

(* A step of a PFD handler is a turn, for nobody else touches its AfData.    *)
LEMMA WorkTurn ==
    ASSUME NefInv, Settled, PfdInv, NEW t \in Threads, th[t].pc \in {"lockaf", "pfd"},
           Mine(t).w \in {NoThread, t}, th[t].pc = "pfd" \/ pfds' = pfds,
           NEW o \in ObjType, NEW r, Writes(t, o, r), nobj' = nobj,
           o.numTrans >= Mine(t).numTrans,
           \A j \in Ids : j > o.numTrans => o.trans[j] = {},
           Early(r), r.pc = "pfd" => r.h = th[t].h /\ Works(r, o),
           LocalTurn(th[t], Mine(t), o, r)
    PROVE  PfdTurn(t)
<1> DEFINE q == th[t]
           m == Mine(t)
<1>1. PICK H \in Objs : H = q.h
  BY MineTyped DEF Located, Holding
<1>2. /\ q.pc \in Located /\ m \in ObjType /\ m = obj[H] /\ H <= nobj /\ nobj \in Nat
      /\ Object(H) /\ Types /\ Counts
  BY <1>1, MineTyped DEF Located, Holding, Mine, NefInv, Types
<1>3. /\ th'[t] = r /\ \A u \in Threads : u # t => th'[u] = th[u]
      /\ obj'[H].trans = o.trans /\ obj'[H].open = o.open /\ obj'[H].numTrans = o.numTrans
      /\ \A h \in Objs : h # H => obj'[h] = obj[h]
  BY <1>1, <1>2, Written
<1>4. Beside(t)
  <2>1. \A u \in Threads : u # t /\ th[u].pc = "pfd" => th[u].h # H /\ th[u].h \in Objs
    BY <1>1, PfdApart
  <2> QED
    BY <1>3, <2>1 DEF Beside
<1>5. Blank'
  <2> SUFFICES ASSUME NEW h \in Objs, NEW j \in Ids, j > obj'[h].numTrans \/ h > nobj
               PROVE  obj'[h].trans[j] = {}
    BY DEF Blank
  <2>1. CASE h = H
    BY <1>2, <1>3, <2>1 DEF Objs
  <2>2. CASE h # H
    BY <1>3, <2>2 DEF PfdInv
  <2> QED
    BY <2>1, <2>2
<1>6. \A x : GivesUp(r, obj'[H], x) <=> GivesUp(r, o, x)
  BY <1>3, GivesUpSame
<1>7. r.pc = "pfd" => r.h = H
  BY <1>1
<1>8. \A x : LetsGo(t, x)' <=> GivesUp(r, o, x)
  <2>1. CASE r.pc = "pfd"
    BY <1>3, <1>6, <1>7, <2>1 DEF LetsGo
  <2>2. CASE r.pc # "pfd"
    BY <1>3, <2>2 DEF LetsGo, GivesUp
  <2> QED
    BY <2>1, <2>2
<1>9. \A x : LetsGo(t, x) <=> GivesUp(q, m, x)
  BY <1>1, <1>2 DEF LetsGo
<1>10. Ready(t)'
  <2>1. r.pc = "pfd" => Works(r, obj'[H])
    BY <1>3, WorksSame
  <2> QED
    BY <1>3, <1>7, <2>1 DEF Ready
<1>11. q.pc = "pfd" => q.id \in Ids
  <2>1. q.pc = "pfd" => q.id \in 1..obj[H].numTrans
    BY <1>1 DEF PfdInv, Works
  <2> QED
    BY <1>2, <2>1, OpenIds, NefAssumption DEF Ids
<1>12. \A x \in Apps : q.pc = "pfd" /\ x \in o.trans[q.id] /\ ~GivesUp(r, o, x) => Names(t, x)
  BY <1>1, <1>3, <1>8, <1>11 DEF Names
<1>13. NamesKept(t)
  <2>1. ASSUME NEW h \in Objs, NEW j \in Ids, NEW x \in Apps,
               x \in obj[h].trans[j], x \notin obj'[h].trans[j]
        PROVE  Brings(th'[t], x) \/ (th[t].h = h /\ th[t].id = j /\ LetsGo(t, x))
    <3>1. h = H
      BY <1>3, <2>1
    <3> QED
      BY <1>1, <1>2, <1>3, <1>9, <2>1, <3>1 DEF LocalTurn
  <2>2. ASSUME NEW x \in Apps, Brings(th[t], x) PROVE Brings(th'[t], x) \/ Names(t, x)
    <3>1. q.pc = "pfd"
      BY <2>2 DEF Brings
    <3> QED
      BY <1>3, <1>12, <2>2, <3>1 DEF LocalTurn
  <2>3. ASSUME NEW x \in Apps, x \in pfds', x \notin pfds PROVE Lossy \/ Names(t, x)
    BY <1>12, <2>3 DEF LocalTurn
  <2>4. ASSUME OneAf PROVE pfds' \subseteq pfds \/ \A u \in Threads : u # t => th[u].pc # "pfd"
    BY <2>4, PfdAlone
  <2> QED
    BY <2>1, <2>2, <2>3, <2>4 DEF NamesKept
<1>14. GivesUpLate(t)
  <2> SUFFICES ASSUME NEW x \in Apps, GivesUp(r, o, x), x \in pfds'
               PROVE  \/ /\ LetsGo(t, x) /\ r.h = q.h /\ r.id = q.id /\ r.op = q.op
                         /\ q.op # "pfdPost" /\ x \in pfds' => x \in pfds
                      \/ r.op = "pfdPost" /\ x \notin obj[r.h].trans[r.id]
    BY <1>3, <1>8 DEF GivesUpLate
  <2>1. r.h = H
    BY <1>7 DEF GivesUp
  <2> QED
    BY <1>1, <1>2, <1>9, <2>1 DEF LocalTurn
<1>15. Forgets(t)
  <2> SUFFICES ASSUME NEW h \in Objs, NEW i \in Ids, NEW x \in Apps,
                      x \in NamedPfds(h, i), x \notin NamedPfds(h, i)'
               PROVE  \/ x \in th'[t].put
                      \/ LetsGo(t, x) /\ th[t].op # "pfdPost" /\ (x \in pfds' => x \in pfds)
    BY DEF Forgets
  <2>1. x \in obj[h].trans[i] /\ i \in obj[h].open
        /\ ~(x \in obj'[h].trans[i] /\ i \in obj'[h].open)
    BY DEF NamedPfds
  <2>2. h = H
    BY <1>3, <2>1
  <2> QED
    BY <1>2, <1>3, <1>9, <2>1, <2>2 DEF LocalTurn
<1> QED
  BY <1>4, <1>5, <1>10, <1>13, <1>14, <1>15 DEF PfdTurn

(* A PFD handler begins: it gives nothing up yet.                             *)
LEMMA BeginTurn ==
    ASSUME NefInv, Settled, PfdInv, NEW t \in Threads, LockAf(t), th[t].pc = "lockaf",
           NEW o \in ObjType, NEW r, Hold(t, o, r),
           o.numTrans >= Mine(t).numTrans, o.trans = Mine(t).trans, o.open = Mine(t).open,
           r.pc = "pfd", r.h = th[t].h, r.op = th[t].op, r.apps = th[t].apps,
           Works(r, o), \A x \in Apps : ~GivesUp(r, o, x)
    PROVE  PfdTurn(t)
<1>1. /\ Mine(t).w = NoThread /\ nobj' = nobj /\ pfds' = pfds /\ Early(th[t])
  BY DEF LockAf, ctx, peers, Mine, PfdInv
<1>2. /\ th[t].h \in Objs /\ Mine(t).numTrans \in Nat /\ o.numTrans \in Nat
  BY MineTyped DEF Located, ObjType
<1>3. \A j \in Ids : j > o.numTrans => o.trans[j] = {}
  <2>1. \A j \in Ids : j > Mine(t).numTrans => Mine(t).trans[j] = {}
    BY <1>2 DEF PfdInv, Mine
  <2> QED
    BY <1>2, <2>1 DEF Ids
<1>4. Early(r)
  BY <1>1 DEF Early
<1>5. LocalTurn(th[t], Mine(t), o, r)
  BY <1>1 DEF LocalTurn, Brings
<1> QED
  BY <1>1, <1>3, <1>4, <1>5, DoneWrites, WorkTurn

(* LockTrans begins the work on one transaction, or finds nothing to do.     *)
LEMMA LockTransTurn ==
    ASSUME NefInv, Settled, PfdInv, NEW t \in Threads, LockAf(t), LockTrans(t, Mine(t), th[t])
    PROVE  PfdTurn(t)
<1> DEFINE m == Mine(t)
           q == th[t]
<1>1. /\ q.pc = "lockaf" /\ q.pc \in Located /\ Early(q)
  BY DEF LockAf, Located, PfdInv
<1>2. /\ q \in ThType /\ m \in ObjType /\ Object(q.h) /\ q.h \in Objs /\ Types /\ Counts
      /\ m.numTrans \in Nat
  BY <1>1, MineTyped DEF NefInv, ObjType
<1>3. /\ q.put = {} /\ q.ok = {} /\ q.del = {} /\ (q.op \in {"pfdDelete", "pfdDeleteAll"} => q.apps = {})
  BY <1>1 DEF Early
<1>4. m.open \subseteq 1..m.numTrans
  BY <1>2 DEF Object, Mine
<1>5. CASE Done(t, m)
  BY <1>5, LockSubTurn
<1>6. ASSUME NEW r, Hold(t, m, r), r.pc = "pfd", r.h = q.h, r.op = q.op, r.apps = q.apps,
             Works(r, m), \A x \in Apps : ~GivesUp(r, m, x)
      PROVE  PfdTurn(t)
  BY <1>1, <1>2, <1>6, BeginTurn
<1>7. CASE q.op = "pfdPost" /\ Hold(t, [m EXCEPT !.numTrans = @ + 1],
               [q EXCEPT !.pc = "pfd", !.id = m.numTrans + 1, !.put = q.apps])
  <2> DEFINE o == [m EXCEPT !.numTrans = @ + 1]
             r == [q EXCEPT !.pc = "pfd", !.id = m.numTrans + 1, !.put = q.apps]
  <2>1. o \in ObjType /\ o.trans = m.trans /\ o.open = m.open /\ o.numTrans = m.numTrans + 1
    BY <1>2 DEF ObjType
  <2>2. /\ r.pc = "pfd" /\ r.h = q.h /\ r.op = q.op /\ r.apps = q.apps /\ r.put = q.apps
        /\ r.del = {} /\ r.id = m.numTrans + 1
    BY <1>2, <1>3 DEF ThType
  <2>3. Hold(t, o, r)
    BY <1>7
  <2> HIDE DEF o, r
  <2>4. m.numTrans + 1 \in Ids
    <3>1. t \in MakesTrans /\ MakesTrans \in SUBSET Threads
      BY <1>1, <1>7 DEF MakesTrans
    <3>2. Cardinality(MakesTrans) \in Nat /\ Cardinality(MakesTrans) >= 1
      <4>1. /\ Cardinality(MakesTrans) \in Nat /\ Cardinality(MakesTrans \ {t}) \in Nat
            /\ Cardinality(MakesTrans \ {t}) + 1 <= Cardinality(MakesTrans)
        BY <3>1, Counting
      <4> QED
        BY <4>1
    <3>3. m.numTrans + Cardinality(MakesTrans) <= posts /\ posts \in 0..MaxPosts
      BY <1>2 DEF Counts, Types, PeerTypes, Mine
    <3> QED
      BY <1>2, <3>2, <3>3, NefAssumption DEF Ids
  <2>5. m.trans[m.numTrans + 1] = {}
    BY <1>2, <2>4 DEF PfdInv, Mine
  <2>6. Works(r, o)
    BY <1>2, <1>4, <1>7, <2>1, <2>2 DEF Works, Removing, Validated
  <2>7. \A x \in Apps : ~GivesUp(r, o, x)
    BY <1>7, <2>1, <2>2, <2>5 DEF GivesUp
  <2> QED
    BY <1>1, <1>2, <2>1, <2>2, <2>3, <2>6, <2>7, BeginTurn
<1>8. ASSUME q.op = "pfdDeleteAll", NEW i \in m.open,
             Hold(t, m, [q EXCEPT !.pc = "pfd", !.id = i, !.del = m.trans[i]])
      PROVE  PfdTurn(t)
  <2> DEFINE r == [q EXCEPT !.pc = "pfd", !.id = i, !.del = m.trans[i]]
  <2>1. /\ r.pc = "pfd" /\ r.h = q.h /\ r.op = q.op /\ r.apps = q.apps /\ r.put = {}
        /\ r.del = m.trans[i] /\ r.id = i
    BY <1>2, <1>3 DEF ThType
  <2>2. Hold(t, m, r)
    BY <1>8
  <2> HIDE DEF r
  <2>3. Works(r, m)
    BY <1>2, <1>4, <1>8, <2>1 DEF Works, Removing, Validated
  <2>4. \A x \in Apps : ~GivesUp(r, m, x)
    BY <1>8, <2>1 DEF GivesUp
  <2> QED
    BY <1>6, <2>1, <2>2, <2>3, <2>4
<1>9. CASE /\ q.op \in {"pfdPut", "pfdDelete"} /\ q.id \in m.open
           /\ Hold(t, m, [q EXCEPT !.pc = "pfd", !.del = m.trans[q.id] \ q.apps, !.put = q.apps])
  <2> DEFINE r == [q EXCEPT !.pc = "pfd", !.del = m.trans[q.id] \ q.apps, !.put = q.apps]
  <2>1. /\ r.pc = "pfd" /\ r.h = q.h /\ r.op = q.op /\ r.apps = q.apps /\ r.put = q.apps
        /\ r.del = m.trans[q.id] \ q.apps /\ r.id = q.id
    BY <1>2 DEF ThType
  <2>2. Hold(t, m, r)
    BY <1>9
  <2> HIDE DEF r
  <2>3. Works(r, m)
    BY <1>2, <1>3, <1>4, <1>9, <2>1 DEF Works, Removing, Validated
  <2>4. \A x \in Apps : ~GivesUp(r, m, x)
    BY <1>3, <1>9, <2>1 DEF GivesUp
  <2> QED
    BY <1>6, <2>1, <2>2, <2>3, <2>4
<1>10. CASE /\ q.op \in {"pfdPutApp", "pfdPatchApp", "pfdDeleteApp"}
            /\ q.id \in m.open /\ q.apps \subseteq m.trans[q.id]
            /\ Hold(t, m, [q EXCEPT !.pc = "pfd", !.del = IF q.op = "pfdDeleteApp" THEN q.apps ELSE {},
                                    !.put = IF q.op = "pfdDeleteApp" THEN {} ELSE q.apps])
  <2> DEFINE D == IF q.op = "pfdDeleteApp" THEN q.apps ELSE {}
             P == IF q.op = "pfdDeleteApp" THEN {} ELSE q.apps
             r == [q EXCEPT !.pc = "pfd", !.del = D, !.put = P]
  <2>1. /\ r.pc = "pfd" /\ r.h = q.h /\ r.op = q.op /\ r.apps = q.apps /\ r.put = P
        /\ r.del = D /\ r.id = q.id
    BY <1>2 DEF ThType
  <2>2. Hold(t, m, r)
    BY <1>10
  <2> HIDE DEF r
  <2>3. Works(r, m)
    BY <1>2, <1>4, <1>10, <2>1 DEF Works, Removing, Validated
  <2>4. \A x \in Apps : ~GivesUp(r, m, x)
    BY <1>10, <2>1 DEF GivesUp
  <2> QED
    BY <1>6, <2>1, <2>2, <2>3, <2>4
<1>11. \/ Done(t, m)
       \/ q.op = "pfdPost" /\ Hold(t, [m EXCEPT !.numTrans = @ + 1],
               [q EXCEPT !.pc = "pfd", !.id = m.numTrans + 1, !.put = q.apps])
       \/ q.op = "pfdDeleteAll" /\ \E i \in m.open : Hold(t, m, [q EXCEPT !.pc = "pfd", !.id = i, !.del = m.trans[i]])
       \/ /\ q.op \in {"pfdPut", "pfdDelete"} /\ q.id \in m.open
          /\ Hold(t, m, [q EXCEPT !.pc = "pfd", !.del = m.trans[q.id] \ q.apps, !.put = q.apps])
       \/ /\ q.op \in {"pfdPutApp", "pfdPatchApp", "pfdDeleteApp"}
          /\ q.id \in m.open /\ q.apps \subseteq m.trans[q.id]
          /\ Hold(t, m, [q EXCEPT !.pc = "pfd", !.del = IF q.op = "pfdDeleteApp" THEN q.apps ELSE {},
                                  !.put = IF q.op = "pfdDeleteApp" THEN {} ELSE q.apps])
  BY DEF LockTrans
<1> HIDE DEF m, q
<1> QED
  BY <1>5, <1>7, <1>8, <1>9, <1>10, <1>11

(* One deletion: its application is given up once the UDR holds no PFDs.      *)
LEMMA DeletePfdTurn ==
    ASSUME NefInv, Settled, PfdInv, NEW t \in Threads, NEW x \in Apps, NEW out, DeletePfd(t, x, out)
    PROVE  PfdTurn(t)
<1> DEFINE m == Mine(t)
           q == th[t]
           r == [q EXCEPT !.del = @ \ {x}, !.ok = @ \cup {x}]
<1>1. /\ q.pc = "pfd" /\ q.pc \in Holding /\ nobj' = nobj /\ x \in q.del
      /\ pfds' \subseteq pfds /\ Early(q) /\ (out = "ok" => pfds' = pfds \ {x})
      /\ (Done(t, m) \/ (out = "ok" /\ Hold(t, m, r)))
  BY DEF DeletePfd, MayCall, ctx, Holding, PfdInv, Mine
<1>2. /\ m.w \in {NoThread, t} /\ q \in ThType /\ m \in ObjType /\ q.h \in Objs /\ m.numTrans \in Nat
  BY <1>1, HeldByMe, MineTyped DEF ObjType
<1>3. Works(q, m) /\ \A j \in Ids : j > m.numTrans => m.trans[j] = {}
  BY <1>1, <1>2 DEF PfdInv, Mine
<1>4. ASSUME NEW s, Writes(t, m, s), Early(s), s.pc = "pfd" => s.h = q.h /\ Works(s, m),
             LocalTurn(q, m, m, s)
      PROVE  PfdTurn(t)
  BY <1>1, <1>2, <1>3, <1>4, WorkTurn
<1>5. \A y : ~Brings(q, y)
  BY <1>1, <1>3 DEF Works, Brings
<1>6. CASE Done(t, m)
  <2>1. LocalTurn(q, m, m, Idle)
    BY <1>1, <1>5, IdleEarly DEF LocalTurn, GivesUp
  <2> QED
    BY <1>4, <1>6, <2>1, IdleEarly, DoneWrites
<1>7. CASE out = "ok" /\ Hold(t, m, r)
  <2>1. /\ r.pc = "pfd" /\ r.h = q.h /\ r.op = q.op /\ r.apps = q.apps /\ r.put = q.put
        /\ r.id = q.id /\ r.del = q.del \ {x} /\ r.ok = q.ok \cup {x}
    BY <1>1, <1>2 DEF ThType
  <2> HIDE DEF r
  <2>2. Early(r)
    BY <1>1, <2>1 DEF Early
  <2>3. Works(r, m)
    BY <1>1, <1>3, <2>1 DEF Works
  <2>4. ASSUME NEW y \in Apps, GivesUp(r, m, y) PROVE y \notin pfds' \/ (GivesUp(q, m, y) /\ y # x)
    BY <1>1, <1>7, <2>1, <2>4 DEF GivesUp
  <2>5. LocalTurn(q, m, m, r)
    BY <1>1, <1>5, <2>1, <2>4 DEF LocalTurn
  <2> QED
    BY <1>4, <1>7, <2>1, <2>2, <2>3, <2>5, DoneWrites
<1> QED
  BY <1>1, <1>6, <1>7

(* One application stored: a PUT names those it has left to store, in its     *)
(* transaction or among what it brings.                                       *)
LEMMA StorePfdTurn ==
    ASSUME NefInv, Settled, PfdInv, NEW t \in Threads, NEW x \in Apps, NEW out \in Outcomes,
           StorePfd(t, x, out)
    PROVE  PfdTurn(t)
<1> DEFINE m == Mine(t)
           q == th[t]
           r == [q EXCEPT !.put = @ \ {x}, !.ok = IF out = "ok" THEN @ \cup {x} ELSE @]
           fresh == q.op = "pfdPut" /\ q.put = q.apps
           T == (IF fresh THEN {} ELSE m.trans[q.id]) \cup {x}
           trans == [m.trans EXCEPT ![q.id] = T]
           n == [m EXCEPT !.trans = trans]
           o == IF q.op \in Validated THEN n ELSE m
<1>1. /\ q.pc = "pfd" /\ q.pc \in Holding /\ nobj' = nobj /\ q.del = {} /\ x \in q.put /\ Early(q)
      /\ pfds' = (IF out = "refused" THEN pfds ELSE pfds \cup {x})
  BY DEF StorePfd, MayCall, ctx, Holding, PfdInv
<1>2. /\ m.w \in {NoThread, t} /\ q \in ThType /\ m \in ObjType /\ q.h \in Objs /\ m.numTrans \in Nat
      /\ Object(q.h) /\ Types /\ Counts
  BY <1>1, HeldByMe, MineTyped DEF ObjType, NefInv
<1>3. Works(q, m) /\ \A j \in Ids : j > m.numTrans => m.trans[j] = {}
  BY <1>1, <1>2 DEF PfdInv, Mine
<1>4. q.id \in Ids /\ q.id \in 1..m.numTrans
  <2>1. m.numTrans \in 0..MaxPosts
    BY <1>2, OpenIds DEF Mine
  <2> QED
    BY <1>2, <1>3, <2>1, NefAssumption DEF Works, Ids
<1>5. trans \in [Ids -> SUBSET Apps] /\ trans[q.id] = T /\ \A j \in Ids : j # q.id => trans[j] = m.trans[j]
  <2>1. m.trans \in [Ids -> SUBSET Apps]
    BY <1>2 DEF ObjType
  <2>2. T \in SUBSET Apps
    BY <1>4, <2>1
  <2> HIDE DEF T
  <2> QED
    BY <1>4, <2>1, <2>2
<1>6. Hold(t, o, r)
  <2>1. [m EXCEPT !.trans[q.id] = T] = n
    BY <1>2 DEF ObjType
  <2>2. Hold(t, IF q.op \in Validated THEN [m EXCEPT !.trans[q.id] = T] ELSE m, r)
    BY DEF StorePfd, Mine
  <2> HIDE DEF T, n, r
  <2> QED
    BY <2>1, <2>2
<1> HIDE DEF trans
<1>7. n \in ObjType /\ n.trans = trans /\ n.open = m.open /\ n.numTrans = m.numTrans
  BY <1>2, <1>5 DEF ObjType
<1> HIDE DEF n
<1>8. /\ o \in ObjType /\ o.open = m.open /\ o.numTrans = m.numTrans
      /\ \A j \in Ids : j # q.id => o.trans[j] = m.trans[j]
      /\ o.trans[q.id] = (IF q.op \in Validated THEN T ELSE m.trans[q.id])
  BY <1>2, <1>5, <1>7
<1>9. /\ r.pc = "pfd" /\ r.h = q.h /\ r.op = q.op /\ r.apps = q.apps /\ r.put = q.put \ {x}
      /\ r.id = q.id /\ r.del = {} /\ (out = "ok" => x \in r.ok) /\ (out # "ok" => r.ok = q.ok)
      /\ (r.ok = {} => q.ok = {})
  BY <1>1, <1>2 DEF ThType
<1> HIDE DEF o, r
<1>10. Early(r)
  BY <1>1, <1>9 DEF Early
<1>11. q.op \in Validated \cup {"pfdPutApp", "pfdPatchApp"} /\ q.put \subseteq q.apps
  BY <1>1, <1>3 DEF Works
<1>12. x \in o.trans[q.id]
  BY <1>1, <1>3, <1>8, <1>11 DEF Works
<1>13. Works(r, o)
  BY <1>3, <1>8, <1>9, <1>11 DEF Works, Validated
<1>14. \A j \in Ids : j > o.numTrans => o.trans[j] = {}
  BY <1>2, <1>3, <1>4, <1>8 DEF Ids
<1>15. ASSUME NEW y \in Apps, GivesUp(r, o, y)
       PROVE  /\ r.op = "pfdPost" /\ out # "ok" /\ q.ok = {}
              /\ y \in m.trans[q.id] => GivesUp(q, m, y)
  <2>1. r.put # r.apps
    BY <1>1, <1>9, <1>11
  <2>2. r.op = "pfdPost" /\ r.ok = {}
    BY <1>9, <1>11, <1>15, <2>1 DEF GivesUp, Validated
  <2> QED
    BY <1>1, <1>9, <2>2 DEF GivesUp
<1>16. LocalTurn(q, m, o, r)
  <2>1. ASSUME NEW j \in Ids, NEW y \in Apps, y \in m.trans[j], y \notin o.trans[j]
        PROVE  /\ Brings(r, y) \/ (q.id = j /\ GivesUp(q, m, y))
               /\ y \in r.put \/ (GivesUp(q, m, y) /\ q.op # "pfdPost" /\ (y \in pfds' => y \in pfds))
    <3>1. j = q.id /\ fresh /\ y # x
      BY <1>8, <1>12, <2>1
    <3>2. CASE y \in q.apps
      <4>1. y \in r.put /\ r.put # r.apps
        BY <1>1, <1>9, <1>11, <3>1, <3>2
      <4> QED
        BY <1>9, <3>1, <4>1 DEF Brings
    <3>3. CASE y \notin q.apps
      <4>1. GivesUp(q, m, y)
        BY <1>1, <2>1, <3>1, <3>3 DEF GivesUp
      <4> QED
        BY <1>1, <3>1, <4>1
    <3> QED
      BY <3>2, <3>3
  <2>2. ASSUME NEW y \in Apps, Brings(q, y)
        PROVE  Brings(r, y) \/ (y \in o.trans[q.id] /\ ~GivesUp(r, o, y))
    <3>1. CASE y = x
      BY <1>9, <1>12, <1>15, <2>2, <3>1 DEF Brings
    <3>2. CASE y # x
      BY <1>1, <1>9, <1>11, <2>2, <3>2 DEF Brings
    <3> QED
      BY <3>1, <3>2
  <2>3. ASSUME NEW y \in Apps, y \in pfds', y \notin pfds
        PROVE  Lossy \/ (y \in o.trans[q.id] /\ ~GivesUp(r, o, y))
    <3>1. y = x /\ out # "refused"
      BY <1>1, <2>3
    <3>2. out # "ok" => Lossy
      BY <3>1 DEF Outcomes
    <3> QED
      BY <1>12, <1>15, <3>1, <3>2
  <2>4. ASSUME NEW y \in Apps, GivesUp(r, o, y)
        PROVE  \/ y \notin pfds'
               \/ /\ GivesUp(q, m, y) /\ r.id = q.id /\ r.op = q.op
                  /\ q.op # "pfdPost" /\ y \in pfds' => y \in pfds
               \/ r.op = "pfdPost" /\ y \notin m.trans[r.id]
    BY <1>9, <1>15, <2>4
  <2> QED
    BY <1>8, <2>1, <2>2, <2>3, <2>4 DEF LocalTurn
<1> QED
  BY <1>1, <1>2, <1>6, <1>8, <1>9, <1>10, <1>13, <1>14, <1>16, DoneWrites, WorkTurn

(* The end of a transaction takes out what its handler gave up.               *)
LEMMA ShutTurn ==
    ASSUME NefInv, Settled, PfdInv, NEW t \in Threads, th[t].pc = "pfd", NEW S, NEW T \in SUBSET Apps, NEW r,
           S \subseteq Mine(t).open,
           Writes(t, [Mine(t) EXCEPT !.open = S, !.trans[th[t].id] = T], r),
           Mine(t).open \ S \subseteq {th[t].id},
           T \subseteq Mine(t).trans[th[t].id],
           \A x \in Apps : x \in Mine(t).trans[th[t].id] /\ (x \notin T \/ S # Mine(t).open)
              => GivesUp(th[t], Mine(t), x),
           th[t].op = "pfdPost" => th[t].id \notin Mine(t).open,
           \A x : ~Brings(th[t], x), nobj' = nobj, pfds' = pfds, Early(r),
           \/ r.pc # "pfd"
           \/ /\ r.pc = "pfd" /\ r.op = "pfdDeleteAll" /\ r.put = {} /\ r.apps = {} /\ r.h = th[t].h
              /\ r.id \in S /\ r.id # th[t].id /\ r.del = Mine(t).trans[r.id]
    PROVE  PfdTurn(t)
<1> DEFINE m == Mine(t)
           q == th[t]
           trans == [m.trans EXCEPT ![q.id] = T]
           o == [m EXCEPT !.open = S, !.trans = trans]
<1>1. /\ q.pc \in Holding /\ m.w \in {NoThread, t} /\ q \in ThType /\ m \in ObjType /\ q.h \in Objs
      /\ m.numTrans \in Nat /\ Object(q.h) /\ Types /\ Counts
  BY HeldByMe, MineTyped DEF ObjType, NefInv, Holding
<1>2. Works(q, m) /\ \A j \in Ids : j > m.numTrans => m.trans[j] = {}
  BY <1>1 DEF PfdInv, Mine
<1>3. m.open \subseteq Ids /\ m.open \subseteq 1..m.numTrans /\ q.id \in Ids /\ q.id \in 1..m.numTrans
  <2>1. m.numTrans \in 0..MaxPosts /\ m.open \subseteq Ids
    BY <1>1, OpenIds DEF Mine
  <2>2. m.open \subseteq 1..m.numTrans /\ q.id \in 1..m.numTrans
    BY <1>1, <1>2 DEF Works, Object, Mine
  <2> QED
    BY <2>1, <2>2, NefAssumption DEF Ids
<1>4. trans \in [Ids -> SUBSET Apps] /\ trans[q.id] = T /\ \A j \in Ids : j # q.id => trans[j] = m.trans[j]
  BY <1>1, <1>3 DEF ObjType
<1>5. [m EXCEPT !.open = S, !.trans[q.id] = T] = o
  BY <1>1 DEF ObjType
<1>6. Writes(t, o, r)
  BY <1>5
<1>7. S \in SUBSET Nat
  BY <1>1 DEF ObjType
<1> HIDE DEF trans
<1>8. o \in ObjType /\ o.trans = trans /\ o.open = S /\ o.numTrans = m.numTrans
  BY <1>1, <1>4, <1>7 DEF ObjType
<1> HIDE DEF o
<1>9. r.pc = "pfd" => r.h = q.h /\ Works(r, o) /\ \A x \in Apps : ~GivesUp(r, o, x)
  <2> SUFFICES ASSUME r.pc = "pfd" PROVE r.h = q.h /\ Works(r, o) /\ \A x \in Apps : ~GivesUp(r, o, x)
    OBVIOUS
  <2>1. r.id \in Ids /\ r.id \in 1..m.numTrans /\ o.trans[r.id] = m.trans[r.id]
    BY <1>3, <1>4, <1>8
  <2>2. Works(r, o)
    BY <1>8, <2>1 DEF Works, Removing
  <2> QED
    BY <1>8, <2>1, <2>2 DEF GivesUp
<1>10. LocalTurn(q, m, o, r)
  <2>1. \A x \in Apps : ~GivesUp(r, o, x)
    BY <1>9 DEF GivesUp
  <2>2. \A j \in Ids, x \in Apps : x \in m.trans[j] /\ x \notin o.trans[j] => q.id = j /\ GivesUp(q, m, x)
    BY <1>4, <1>8
  <2>3. ASSUME NEW j \in Ids, NEW x \in Apps, x \in m.trans[j], j \in m.open,
               ~(x \in o.trans[j] /\ j \in o.open)
        PROVE  GivesUp(q, m, x) /\ q.op # "pfdPost"
    <3>1. j = q.id
      BY <1>4, <1>8, <2>3
    <3> QED
      BY <1>4, <1>8, <2>3, <3>1
  <2> QED
    BY <2>1, <2>2, <2>3 DEF LocalTurn
<1>11. \A j \in Ids : j > o.numTrans => o.trans[j] = {}
  BY <1>1, <1>2, <1>3, <1>4, <1>8 DEF Ids
<1>12. o.numTrans >= m.numTrans
  BY <1>1, <1>8
<1> HIDE DEF q, m
<1> QED
  BY <1>1, <1>6, <1>8, <1>9, <1>10, <1>11, <1>12, WorkTurn DEF q, m

(* The end of each PFD handler.                                              *)
LEMMA PfdEndTurn ==
    ASSUME NefInv, Settled, PfdInv, NEW t \in Threads, PfdEnd(t)
    PROVE  PfdTurn(t)
<1> DEFINE m == Mine(t)
           q == th[t]
           id == q.id
           shut == [m EXCEPT !.open = @ \ {id}, !.trans[id] = {}]
           post == [q EXCEPT !.pc = "addaf"]
<1>1. /\ q.pc = "pfd" /\ q.pc \in Holding /\ nobj' = nobj /\ pfds' = pfds /\ q.del = {} /\ q.put = {}
      /\ Early(q)
  BY DEF PfdEnd, Holding, PfdInv, ctx, peers
<1>2. /\ m.w \in {NoThread, t} /\ q \in ThType /\ m \in ObjType /\ q.h \in Objs
      /\ m.numTrans \in Nat /\ Object(q.h) /\ Types /\ Counts
  BY <1>1, HeldByMe, MineTyped DEF ObjType, NefInv
<1>3. Works(q, m) /\ \A j \in Ids : j > m.numTrans => m.trans[j] = {}
  BY <1>1, <1>2 DEF PfdInv, Mine
<1>4. m.open \subseteq Ids /\ id \in Ids /\ m.trans[id] \in SUBSET Apps
  <2>1. m.numTrans \in 0..MaxPosts /\ m.open \subseteq Ids
    BY <1>2, OpenIds DEF Mine
  <2>2. id \in Ids
    BY <1>2, <1>3, <2>1, NefAssumption DEF Works, Ids
  <2> QED
    BY <1>2, <2>1, <2>2 DEF ObjType
<1>5. \A x : ~Brings(q, x)
  BY <1>1 DEF Brings
<1>6. q.op = "pfdPost" => id \notin m.open
  BY <1>3 DEF Works
<1>7. \A S, T : [m EXCEPT !.trans[id] = T] = [m EXCEPT !.open = m.open, !.trans[id] = T]
  BY <1>2 DEF ObjType
<1>8. m = [m EXCEPT !.open = m.open, !.trans[id] = m.trans[id]]
  BY <1>2, <1>4 DEF ObjType
<1>9. ASSUME NEW S, NEW T \in SUBSET Apps, S \subseteq m.open, m.open \ S \subseteq {id},
             T \subseteq m.trans[id],
             \A x \in Apps : x \in m.trans[id] /\ (x \notin T \/ S # m.open) => GivesUp(q, m, x),
             Writes(t, [m EXCEPT !.open = S, !.trans[id] = T], Idle)
      PROVE  PfdTurn(t)
  BY <1>1, <1>5, <1>6, <1>9, ShutTurn, IdleEarly
<1>10. CASE Done(t, m)
  <2>1. Writes(t, [m EXCEPT !.open = m.open, !.trans[id] = m.trans[id]], Idle)
    BY <1>8, <1>10, DoneWrites
  <2> QED
    BY <1>4, <1>9, <2>1
<1>11. CASE q.op = "pfdPost" /\ q.ok # {} /\ Hold(t, [m EXCEPT !.open = @ \cup {id}], post)
  <2> DEFINE o == [m EXCEPT !.open = @ \cup {id}]
  <2>1. id \in Nat
    BY <1>4 DEF Ids
  <2>2. o \in ObjType /\ o.trans = m.trans /\ o.numTrans = m.numTrans /\ o.open = m.open \cup {id}
    BY <1>2, <2>1 DEF ObjType
  <2>3. post.pc = "addaf" /\ post.op = q.op /\ post.apps = q.apps
    BY <1>2 DEF ThType
  <2>4. Writes(t, o, post)
    BY <1>11, DoneWrites
  <2> HIDE DEF o, post
  <2>5. Early(post)
    BY <1>1, <2>3 DEF Early
  <2>6. LocalTurn(q, m, o, post)
    BY <1>1, <1>5, <2>2, <2>3 DEF LocalTurn, GivesUp
  <2>7. /\ post.pc # "pfd" /\ o.numTrans >= m.numTrans /\ \A j \in Ids : j > o.numTrans => o.trans[j] = {}
    BY <1>2, <1>3, <2>2, <2>3
  <2> HIDE DEF q, m
  <2> QED
    BY <1>1, <1>2, <2>2, <2>4, <2>5, <2>6, <2>7, WorkTurn DEF q, m
<1>12. CASE q.op = "pfdPost" /\ q.ok = {} /\ Done(t, [m EXCEPT !.trans[id] = {}])
  <2>1. Writes(t, [m EXCEPT !.open = m.open, !.trans[id] = {}], Idle)
    BY <1>7, <1>12, DoneWrites
  <2>2. \A x \in Apps : x \in m.trans[id] => GivesUp(q, m, x)
    BY <1>1, <1>12 DEF GivesUp
  <2>3. m.open \ m.open \subseteq {id} /\ {} \in SUBSET Apps
    OBVIOUS
  <2> HIDE DEF q, m, id
  <2> QED
    BY <1>9, <2>1, <2>2, <2>3
<1>13. q.op \in {"pfdDelete", "pfdDeleteAll"} => \A x \in Apps : x \in m.trans[id] => GivesUp(q, m, x)
  BY <1>1 DEF GivesUp
<1>14. CASE q.op \in {"pfdDelete", "pfdDeleteAll"} /\ Done(t, shut)
  <2>1. Writes(t, [m EXCEPT !.open = m.open \ {id}, !.trans[id] = {}], Idle)
    BY <1>14, DoneWrites
  <2>2. m.open \ (m.open \ {id}) \subseteq {id} /\ m.open \ {id} \subseteq m.open /\ {} \in SUBSET Apps
    OBVIOUS
  <2>3. \A x \in Apps : x \in m.trans[id] => GivesUp(q, m, x)
    BY <1>13, <1>14
  <2> HIDE DEF q, m, id, shut
  <2> QED
    BY <1>9, <2>1, <2>2, <2>3
<1>15. ASSUME q.op = "pfdDeleteAll", NEW i \in shut.open,
              Hold(t, shut, [q EXCEPT !.id = i, !.del = m.trans[i]])
       PROVE  PfdTurn(t)
  <2> DEFINE r == [q EXCEPT !.id = i, !.del = m.trans[i]]
  <2>1. i \in m.open \ {id}
    BY <1>2 DEF ObjType
  <2>2. /\ r.pc = "pfd" /\ r.op = "pfdDeleteAll" /\ r.put = {} /\ r.apps = {} /\ r.h = q.h
        /\ r.id = i /\ r.del = m.trans[i]
    BY <1>1, <1>2, <1>15 DEF ThType, Early
  <2>3. Writes(t, [m EXCEPT !.open = m.open \ {id}, !.trans[id] = {}], r)
    BY <1>15, DoneWrites
  <2> HIDE DEF r
  <2>4. Early(r)
    BY <2>2 DEF Early
  <2>5. \A x \in Apps : x \in m.trans[id] => GivesUp(q, m, x)
    BY <1>13, <1>15
  <2>6. /\ r.id \in m.open \ {id} /\ r.id # id /\ r.del = m.trans[r.id]
        /\ m.open \ {id} \subseteq m.open /\ m.open \ (m.open \ {id}) \subseteq {id}
        /\ {} \in SUBSET Apps /\ {} \subseteq m.trans[id]
    BY <2>1, <2>2
  <2> QED
    BY <1>1, <1>5, <1>6, <2>2, <2>3, <2>4, <2>5, <2>6, ShutTurn
<1>16. CASE q.op = "pfdDeleteApp" /\ Done(t, [m EXCEPT !.trans[id] = @ \ q.apps])
  <2> DEFINE T == m.trans[id] \ q.apps
  <2>1. Writes(t, [m EXCEPT !.open = m.open, !.trans[id] = T], Idle)
    BY <1>7, <1>16, DoneWrites
  <2>2. \A x \in Apps : x \in m.trans[id] /\ x \notin T => GivesUp(q, m, x)
    BY <1>1, <1>16 DEF GivesUp
  <2> QED
    BY <1>4, <1>9, <2>1, <2>2
<1>17. \/ q.op = "pfdPost" /\ q.ok # {} /\ Hold(t, [m EXCEPT !.open = @ \cup {id}], post)
       \/ q.op = "pfdPost" /\ q.ok = {} /\ Done(t, [m EXCEPT !.trans[id] = {}])
       \/ q.op \in {"pfdDelete", "pfdDeleteAll"} /\ Done(t, shut)
       \/ \E i \in shut.open : q.op = "pfdDeleteAll" /\ Hold(t, shut, [q EXCEPT !.id = i, !.del = m.trans[i]])
       \/ q.op = "pfdDeleteApp" /\ Done(t, [m EXCEPT !.trans[id] = @ \ q.apps])
       \/ Done(t, m)
  BY DEF PfdEnd, Mine
<1> HIDE DEF m, shut, post, id, q
<1> QED
  BY <1>10, <1>11, <1>12, <1>14, <1>15, <1>16, <1>17

(* Every step of a goroutine is such a turn.                                  *)
LEMMA StepTurn ==
    ASSUME NefInv, Settled, PfdInv, NEW t \in Threads, Arrive(t) \/ Serve(t)
    PROVE  PfdTurn(t)
<1>1. CASE Arrive(t)
  BY <1>1, RequestTurn
<1>2. CASE \E out \in Outcomes :
             \/ PostAppSessions(t, out) \/ AppDataInfluenceDataPut(t, out)
             \/ DeleteSubscription(t, out)
             \/ \E x \in Apps : DeletePfd(t, x, out) \/ StorePfd(t, x, out)
  BY <1>2, CallTurn, DeletePfdTurn, StorePfdTurn
<1>3. CASE LockAf(t)
  <2>1. LockSub(t, Mine(t), th[t]) \/ LockTrans(t, Mine(t), th[t])
    BY <1>3 DEF LockAf, Mine
  <2> QED
    BY <1>3, <2>1, LockSubTurn, LockTransTurn
<1>4. CASE GetAf(t) \/ NewSub(t) \/ AddAf(t) \/ PatchSubscription(t)
  BY <1>4, GetAfTurn, NewSubTurn, AddAfTurn
<1>5. CASE CtxWait(t) \/ ScanBegin(t) \/ ScanNext(t) \/ ScanEnd(t) \/ SmfNotification(t)
  BY <1>5, ReadersTurn
<1>6. CASE PfdEnd(t)
  BY <1>6, PfdEndTurn
<1> QED
  BY <1>1, <1>2, <1>3, <1>4, <1>5, <1>6 DEF Serve

(* At the start the UDR holds no PFDs.                                       *)
LEMMA PfdInvInit == Init => PfdInv
<1> SUFFICES ASSUME Init PROVE PfdInv
  OBVIOUS
<1>1. \A h \in Objs, j \in Ids : obj[h].trans[j] = {}
  BY DEF Init, NewAf
<1>2. \A t \in Threads : th[t] = Idle
  BY DEF Init
<1>3. pfds = {}
  BY DEF Init
<1> QED
  BY <1>1, <1>2, <1>3, IdleEarly DEF PfdInv

(* Every step preserves the invariant, ...                                   *)
LEMMA PfdInvNext == NefInv /\ NefInv' /\ Settled /\ PfdInv /\ [Next]_vars => PfdInv'
<1> SUFFICES ASSUME NefInv, NefInv', Settled, PfdInv, [Next]_vars PROVE PfdInv'
  OBVIOUS
<1>1. CASE Next
  BY <1>1, StepTurn, TurnKeeps DEF Next
<1>2. CASE UNCHANGED vars
  BY <1>2 DEF vars, PfdInv, Held, Stays, OneAf
<1> QED
  BY <1>1, <1>2

(* ... so every reachable state satisfies it.                                *)
LEMMA PfdInvHolds == Spec => []PfdInv
BY PfdInvInit, PfdInvNext, NefInvHolds, SettledHolds, PTL DEF Spec

(* Every application the UDR holds PFDs for is named by a transaction, or by a *)
(* PUT that has emptied its transaction and is about to name it again.        *)
EveryPfdNamed == \A x \in pfds : \/ \E h \in Objs, j \in Ids : x \in obj[h].trans[j]
                                 \/ \E t \in Threads : x \in th[t].put

(* When the UDR's answers arrive, the NEF names every application the UDR      *)
(* holds PFDs for, whatever handlers of the same or other AFs run beside.     *)
THEOREM PfdsNamed ==
    ASSUME ~Lossy
    PROVE  Spec => []EveryPfdNamed
<1>1. PfdInv => EveryPfdNamed
  <2> SUFFICES ASSUME PfdInv, NEW x \in pfds
               PROVE  \/ \E h \in Objs, j \in Ids : x \in obj[h].trans[j]
                      \/ \E t \in Threads : x \in th[t].put
    BY DEF EveryPfdNamed
  <2>1. Held(x)
    BY DEF PfdInv
  <2> QED
    BY <2>1 DEF Held, Stays, Brings
<1> QED
  BY <1>1, PfdInvHolds, PTL

(* An application leaves a PFD transaction only when the UDR holds no PFDs    *)
(* for it or a handler is about to name it: with any AFs and goroutines when  *)
(* the UDR's answers arrive, and with one AF registered from the start even   *)
(* when they are lost.                                                        *)
THEOREM PfdsNotForgottenHolds ==
    ASSUME Lossy => KnownAfs = Afs
    PROVE  Spec => PfdsNotForgotten
<1> DEFINE Step == \A h \in Objs, i \in Ids, x \in Apps :
          x \in NamedPfds(h, i) /\ x \notin NamedPfds(h, i)'
              => \/ x \notin pfds'
                 \/ \E g \in Objs, j \in Ids : x \in obj'[g].trans[j]
                 \/ \E t \in Threads : x \in th'[t].put
                 \/ Lossy /\ Cardinality(Afs) > 1
<1>1. NefInv /\ Settled /\ PfdInv /\ PfdInv' /\ [Next]_vars => [Step]_vars
  <2> SUFFICES ASSUME NefInv, Settled, PfdInv, PfdInv', Next PROVE Step
    OBVIOUS
  <2>1. CASE ~Lossy
    <3>1. \A x \in pfds' : Held(x)'
      BY <2>1 DEF PfdInv
    <3>2. \A x \in pfds' : \/ \E g \in Objs, j \in Ids : x \in obj'[g].trans[j]
                           \/ \E t \in Threads : x \in th'[t].put
      BY <3>1 DEF Held, Stays, Brings
    <3> QED
      BY <3>2
  <2>2. CASE Lossy
    <3>1. Cardinality(Afs) \in Nat /\ Cardinality(Afs) # 0
      BY NefAssumption, FS_CardinalityType, FS_EmptySet
    <3>2. CASE Cardinality(Afs) > 1
      BY <2>2, <3>2
    <3>3. CASE OneAf
      <4>1. PICK t \in Threads : PfdTurn(t)
        BY StepTurn DEF Next
      <4>2. \A x \in Apps : th[t].op # "pfdPost" /\ LetsGo(t, x) => x \notin pfds
        BY <3>3 DEF PfdInv, LetsGo
      <4> QED
        BY <4>1, <4>2 DEF PfdTurn, Forgets
    <3> QED
      BY <2>2, <3>1, <3>2, <3>3 DEF OneAf
  <2> QED
    BY <2>1, <2>2
<1> QED
  BY <1>1, NefInvHolds, SettledHolds, PfdInvHolds, PTL DEF Spec, PfdsNotForgotten
==============================================================================
