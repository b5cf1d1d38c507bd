------------------------------- MODULE NefAf -------------------------------
(***************************************************************************)
(* The NEF's record of application functions: AsSessionWithQoS and traffic *)
(* influence subscriptions, PFD transactions, and the SMF's callback.      *)
(*                                                                         *)
(* Every request runs in a goroutine of its own (Threads).  Two levels of  *)
(* locks guard the state: NefContext.mu the map of AFs, AfData.Mu one AF.  *)
(* A handler takes AfData.Mu and keeps it over its calls to PCF and UDR;   *)
(* inside it takes NefContext.mu for NewCorreID, AddAf and the URIs of the *)
(* peers.  FindAfSub and IsAppIDExisted take the two the other way round.  *)
(***************************************************************************)
EXTENDS Naturals, FiniteSets

CONSTANTS
    Threads,    \* goroutines that serve requests
    Afs,        \* AF identifiers
    KnownAfs,   \* the AFs that are registered at the start
    Apps,       \* external application identifiers
    Ops,        \* the requests of the instance
    Lossy,      \* TRUE: an answer of PCF or UDR may be lost after the effect
    MaxPosts    \* bound: requests that create a subscription, session or transaction

AllOps == {"qosPost", "qosPatch", "qosDelete", "tiPost", "tiPostGroup", "tiPut", "tiPatch",
           "tiDelete", "pfdPost", "pfdPut", "pfdDelete", "pfdDeleteAll", "pfdPutApp",
           "pfdPatchApp", "pfdDeleteApp", "smfNotify"}
NoThread == "none"

ASSUME NefAssumption ==
    /\ IsFiniteSet(Threads) /\ NoThread \notin Threads
    /\ IsFiniteSet(Afs) /\ Afs # {} /\ KnownAfs \subseteq Afs
    /\ Ops \subseteq AllOps /\ Lossy \in BOOLEAN /\ MaxPosts \in Nat

Ids == 1..MaxPosts                        \* SubID, TransID, NotifCorreID, app session
Objs == 1..(MaxPosts + Cardinality(Afs))  \* AfData objects

VARIABLES
    afs,      \* NefContext.afs: AF identifier -> AfData object, 0 if absent
    nobj,     \* AfData objects made so far
    numCorreID,
    obj,      \* the AfData objects, with w the goroutine that holds AfData.Mu
    readers,  \* who holds NefContext.mu for reading
    waiting,  \* who is blocked in NefContext.mu.Lock; new readers queue behind them
    th,       \* the goroutines
    sessions, \* app sessions the PCF holds
    nsess,    \* app sessions the PCF has made
    influ,    \* influence data the UDR holds, by the NotifCorreID they carry
    pfds,     \* applications the UDR holds PFDs for
    posts     \* creating requests so far

vars == <<afs, nobj, numCorreID, obj, readers, waiting, th,
          sessions, nsess, influ, pfds, posts>>
ctx == <<afs, nobj, numCorreID, readers, waiting, posts>>
peers == <<sessions, nsess, influ, pfds>>

NoSub == [corre |-> 0, sess |-> 0, influ |-> FALSE]
NewAf(a) == [id |-> a, subs |-> [i \in Ids |-> NoSub], numSub |-> 0, trans |-> [i \in Ids |-> {}],
          open |-> {}, numTrans |-> 0, w |-> NoThread]
Idle == [pc |-> "idle", op |-> "none", a |-> 0, h |-> 0, id |-> 0, apps |-> {}, ask |-> {},
         cur |-> 0, seen |-> {}, sub |-> NoSub, del |-> {}, put |-> {}, ok |-> {}]

Posting == {"qosPost", "tiPost", "tiPostGroup"}
Creating == Posting \cup {"tiPut", "pfdPost"}
Validated == {"pfdPost", "pfdPut"}

Init ==
    /\ afs \in {f \in [Afs -> 0..Cardinality(KnownAfs)] :
                  /\ \A a \in Afs : f[a] = 0 <=> a \notin KnownAfs
                  /\ \A a, b \in KnownAfs : f[a] = f[b] => a = b}
    /\ nobj = Cardinality(KnownAfs)
    /\ numCorreID = 0
    /\ obj = [h \in Objs |-> NewAf(IF \E a \in Afs : afs[a] = h THEN CHOOSE a \in Afs : afs[a] = h
                                   ELSE CHOOSE a \in Afs : TRUE)]
    /\ readers = {} /\ waiting = {}
    /\ th = [t \in Threads |-> Idle]
    /\ sessions = {} /\ nsess = 0 /\ influ = {} /\ pfds = {}
    /\ posts = 0

-----------------------------------------------------------------------------
(* A request arrives; validatePfdManagement and FindAfSub come before all else. *)
Request(t, op, a, id, apps) ==
    /\ th[t] = Idle
    /\ op \in Creating => posts < MaxPosts
    /\ posts' = IF op \in Creating THEN posts + 1 ELSE posts
    /\ th' = [th EXCEPT ![t] = [Idle EXCEPT
                 !.pc = IF op \in Validated \cup {"smfNotify"} THEN "check" ELSE "getaf",
                 !.op = op, !.a = a, !.id = id, !.apps = apps, !.ask = apps]]
    /\ UNCHANGED <<afs, nobj, numCorreID, obj, readers, waiting, peers>>

(* A critical section under NefContext.mu.Lock neither blocks nor calls out,  *)
(* so it is one step, for a goroutine t at pc; one that finds readers waits.  *)
CtxLocked(t, pc) == /\ th[t].pc = pc
                    /\ readers = {}
                    /\ waiting' = waiting \ {t}
                    /\ UNCHANGED readers
CtxWait(t) ==
    /\ th[t].pc \in {"getaf", "correid", "addaf"}
    /\ readers # {} /\ t \notin waiting
    /\ waiting' = waiting \cup {t}
    /\ UNCHANGED <<afs, nobj, numCorreID, obj, readers, th, peers, posts>>

(* Faulty variant: a POST makes a new AfData without looking for one.        *)
GetAf_AlwaysNew(t) ==
    LET r == th[t]
    IN  /\ CtxLocked(t, "getaf")
        /\ \/ /\ r.op \in Posting
              /\ nobj' = nobj + 1
              /\ obj' = [obj EXCEPT ![nobj + 1] = NewAf(r.a)]
              /\ th' = [th EXCEPT ![t].pc = "lockaf", ![t].h = nobj + 1]
           \/ /\ r.op \notin Posting
              /\ th' = [th EXCEPT ![t] = IF afs[r.a] = 0 THEN Idle
                                         ELSE [r EXCEPT !.pc = "lockaf", !.h = afs[r.a]]]
              /\ UNCHANGED <<nobj, obj>>
        /\ UNCHANGED <<afs, numCorreID, peers, posts>>

(* GetAf; a POST of a subscription makes the AfData it does not find, and     *)
(* registers it only at its end.                                              *)
GetAf(t) ==
    LET r == th[t]
    IN  /\ CtxLocked(t, "getaf")
        /\ \/ /\ afs[r.a] # 0
              /\ th' = [th EXCEPT ![t].pc = "lockaf", ![t].h = afs[r.a]]
              /\ UNCHANGED <<nobj, obj>>
           \/ /\ afs[r.a] = 0 /\ r.op \in Posting
              /\ nobj' = nobj + 1
              /\ obj' = [obj EXCEPT ![nobj + 1] = NewAf(r.a)]
              /\ th' = [th EXCEPT ![t].pc = "lockaf", ![t].h = nobj + 1]
           \/ /\ afs[r.a] = 0 /\ r.op \notin Posting
              /\ th' = [th EXCEPT ![t] = Idle]
              /\ UNCHANGED <<nobj, obj>>
        /\ UNCHANGED <<afs, numCorreID, peers, posts>>

-----------------------------------------------------------------------------
(* FindAfSub and IsAppIDExisted: NefContext.mu for reading, and under it     *)
(* AfData.Mu of one AF after the other, in the order of a Go map.            *)
Registered == {afs[a] : a \in {b \in Afs : afs[b] # 0}}
ScanBegin(t) ==
    /\ th[t].pc = "check"
    /\ waiting = {}
    /\ readers' = readers \cup {t}
    /\ \E x \in IF th[t].op = "smfNotify" THEN {th[t].cur} ELSE th[t].ask :
          th' = [th EXCEPT ![t].pc = "scan", ![t].seen = {}, ![t].cur = x]
    /\ UNCHANGED <<afs, nobj, numCorreID, obj, waiting, peers, posts>>

(* What the scan of AF h finds: TRUE, or the transactions that hold the app. *)
HasSub(t, h) == \E i \in Ids : obj[h].subs[i].corre = th[t].id /\ th[t].id # 0
HasApp(t, h) == {i \in obj[h].open : th[t].cur \in obj[h].trans[i]}
Finds(t, h) == IF th[t].op = "smfNotify" THEN HasSub(t, h) ELSE HasApp(t, h) # {}

(* One AF of the scan: locked, read and unlocked.  The scan goes on ...      *)
ScanNext(t) ==
    /\ th[t].pc = "scan"
    /\ \E h \in Registered \ th[t].seen :
          /\ obj[h].w = NoThread
          /\ ~Finds(t, h)
          /\ th' = [th EXCEPT ![t].seen = @ \cup {h}]
    /\ UNCHANGED <<ctx, obj, peers>>

(* ... or ends.  SmfNotification locks the AF again; an app of another       *)
(* transaction is taken out of the request, and a request without apps ends. *)
ScanEnd(t) ==
    LET r == th[t]
        end(apps) == IF apps = {} THEN [th EXCEPT ![t] = Idle]
                     ELSE [th EXCEPT ![t].apps = apps, ![t].ask = @ \ {r.cur},
                                     ![t].pc = IF r.ask = {r.cur} THEN "getaf" ELSE "check"]
    IN  /\ r.pc = "scan"
        /\ readers' = readers \ {t}
        /\ \/ \E h \in Registered \ r.seen :
                /\ obj[h].w = NoThread
                /\ Finds(t, h)
                /\ \/ r.op = "smfNotify" /\ th' = [th EXCEPT ![t].pc = "rlock", ![t].h = h]
                   \/ /\ r.op # "smfNotify"
                      /\ \E i \in HasApp(t, h) :
                           th' = end(IF afs[r.a] = h /\ r.op = "pfdPut" /\ i = r.id
                                     THEN r.apps ELSE r.apps \ {r.cur})
           \/ /\ Registered \subseteq r.seen
              /\ th' = IF r.op = "smfNotify" THEN [th EXCEPT ![t] = Idle] ELSE end(r.apps)
        /\ UNCHANGED <<afs, nobj, numCorreID, obj, waiting, peers, posts>>

SmfNotification(t) ==
    /\ th[t].pc = "rlock"
    /\ obj[th[t].h].w = NoThread
    /\ th' = [th EXCEPT ![t] = Idle]
    /\ UNCHANGED <<ctx, obj, peers>>

-----------------------------------------------------------------------------
(* Faulty variant: a return without the Unlock.                              *)
Done_NoUnlock(t, o) == /\ obj' = [obj EXCEPT ![th[t].h] = [o EXCEPT !.w = t]]
                       /\ th' = [th EXCEPT ![t] = Idle]

(* AfData.Mu.Lock, and what the handler does before it calls out.  Done is   *)
(* the deferred Unlock.                                                      *)
Done(t, o) == /\ obj' = [obj EXCEPT ![th[t].h] = [o EXCEPT !.w = NoThread]]
              /\ th' = [th EXCEPT ![t] = Idle]
Hold(t, o, r) == /\ obj' = [obj EXCEPT ![th[t].h] = [o EXCEPT !.w = t]]
                 /\ th' = [th EXCEPT ![t] = r]

LockSub(t, o, r) ==
    \/ r.op \in Posting /\ Hold(t, o, [r EXCEPT !.pc = "correid"])
    \/ /\ r.op \in {"qosPatch", "qosDelete", "tiPut", "tiPatch", "tiDelete"}
       /\ IF r.id \in Ids /\ o.subs[r.id] # NoSub
          THEN Hold(t, o, [r EXCEPT !.pc = "call", !.sub = o.subs[r.id]])
          ELSE Done(t, o)

(* Faulty variant: NewPfdTrans does not count.                               *)
LockTrans_NoCount(t, o, r) ==
    /\ r.op = "pfdPost"
    /\ Hold(t, o, [r EXCEPT !.pc = "pfd", !.id = o.numTrans + 1, !.put = r.apps])

LockTrans(t, o, r) ==
    \/ /\ r.op = "pfdPost"       \* NewPfdTrans
       /\ Hold(t, [o EXCEPT !.numTrans = @ + 1],
               [r EXCEPT !.pc = "pfd", !.id = o.numTrans + 1, !.put = r.apps])
    \/ /\ r.op = "pfdDeleteAll"
       /\ IF o.open = {} THEN Done(t, o)
          ELSE \E i \in o.open : Hold(t, o, [r EXCEPT !.pc = "pfd", !.id = i, !.del = o.trans[i]])
    \/ /\ r.op \in {"pfdPut", "pfdDelete"}
       /\ IF r.id \in o.open
          THEN Hold(t, o, [r EXCEPT !.pc = "pfd", !.del = o.trans[r.id] \ r.apps,
                                    !.put = r.apps])
          ELSE Done(t, o)
    \/ /\ r.op \in {"pfdPutApp", "pfdPatchApp", "pfdDeleteApp"}
       /\ IF r.id \in o.open /\ r.apps \subseteq o.trans[r.id]
          THEN Hold(t, o, [r EXCEPT !.pc = "pfd", !.del = IF r.op = "pfdDeleteApp" THEN r.apps ELSE {},
                                    !.put = IF r.op = "pfdDeleteApp" THEN {} ELSE r.apps])
          ELSE Done(t, o)

LockAf(t) ==
    /\ th[t].pc = "lockaf"
    /\ obj[th[t].h].w = NoThread
    /\ LockSub(t, obj[th[t].h], th[t]) \/ LockTrans(t, obj[th[t].h], th[t])
    /\ UNCHANGED <<ctx, peers>>

(* NewCorreID, then NewSub or NewSubQOS: the subscription is not yet in Subs. *)
NewSub(t) ==
    /\ CtxLocked(t, "correid")
    /\ numCorreID' = numCorreID + 1
    /\ Hold(t, [obj[th[t].h] EXCEPT !.numSub = @ + 1],
            [th[t] EXCEPT !.pc = "call", !.id = obj[th[t].h].numSub + 1,
                          !.sub = [NoSub EXCEPT !.corre = numCorreID + 1,
                                                !.influ = th[t].op = "tiPostGroup"]])
    /\ UNCHANGED <<afs, nobj, peers, posts>>

(* AddAf: the object is registered, whatever is registered under its AF.     *)
AddAf(t) ==
    /\ CtxLocked(t, "addaf")
    /\ afs' = [afs EXCEPT ![th[t].a] = th[t].h]
    /\ Done(t, obj[th[t].h])
    /\ UNCHANGED <<nobj, numCorreID, peers, posts>>

-----------------------------------------------------------------------------
(* Calls.  PcfPaUri and UdrDrUri read-lock NefContext.mu for a moment, so a  *)
(* call waits behind writers that wait.  Outcome: "ok"; "refused", without   *)
(* effect; "lost", with effect and an error for the caller.                  *)
Outcomes == {"ok", "refused"} \cup (IF Lossy THEN {"lost"} ELSE {})
MayCall(t, pc) == th[t].pc = pc /\ waiting = {}

(* PostAppSessions of a POST, and of the PUT of a traffic influence          *)
(* subscription, which replaces the app session identifier.                  *)
PostAppSessions(t, out) ==
    LET r == th[t]
        o == obj[r.h]
        sub == [r.sub EXCEPT !.sess = nsess + 1]
    IN  /\ MayCall(t, "call")
        /\ r.op \in {"qosPost", "tiPost"} \/ (r.op = "tiPut" /\ r.sub.sess # 0)
        /\ IF out = "refused" THEN UNCHANGED <<sessions, nsess>>
           ELSE sessions' = sessions \cup {nsess + 1} /\ nsess' = nsess + 1
        /\ \/ out # "ok" /\ Done(t, o)
           \/ out = "ok" /\ r.op = "tiPut" /\ Done(t, [o EXCEPT !.subs[r.id] = sub])
           \/ /\ out = "ok" /\ r.op # "tiPut"
              /\ Hold(t, [o EXCEPT !.subs[r.id] = sub], [r EXCEPT !.pc = "addaf"])
        /\ UNCHANGED <<ctx, influ, pfds>>

(* AppDataInfluenceDataPut of a POST or PUT for a group.                     *)
AppDataInfluenceDataPut(t, out) ==
    LET r == th[t]
        o == obj[r.h]
    IN  /\ MayCall(t, "call")
        /\ r.op = "tiPostGroup" \/ (r.op = "tiPut" /\ r.sub.sess = 0)
        /\ influ' = IF out = "refused" THEN influ ELSE influ \cup {r.sub.corre}
        /\ \/ out # "ok" /\ Done(t, o)
           \/ out = "ok" /\ r.op = "tiPut" /\ Done(t, o)
           \/ /\ out = "ok" /\ r.op # "tiPut"
              /\ Hold(t, [o EXCEPT !.subs[r.id] = r.sub], [r EXCEPT !.pc = "addaf"])
        /\ UNCHANGED <<ctx, sessions, nsess, pfds>>

(* PATCH of a subscription: the peer's session or data change in place.      *)
PatchSubscription(t) ==
    /\ MayCall(t, "call")
    /\ th[t].op \in {"qosPatch", "tiPatch"}
    /\ Done(t, obj[th[t].h])
    /\ UNCHANGED <<ctx, peers>>

(* Faulty variant: the subscription goes whatever the peer answers.          *)
DeleteSubscription_AnyStatus(t, out) ==
    LET r == th[t]
    IN  /\ MayCall(t, "call")
        /\ r.op \in {"qosDelete", "tiDelete"}
        /\ sessions' = IF out = "refused" THEN sessions ELSE sessions \ {r.sub.sess}
        /\ influ' = IF out = "refused" \/ r.sub.sess # 0 \/ r.op = "qosDelete" THEN influ
                    ELSE influ \ {r.sub.corre}
        /\ Done(t, [obj[r.h] EXCEPT !.subs[r.id] = NoSub])
        /\ UNCHANGED <<ctx, nsess, pfds>>

(* DELETE of a subscription.  The PCF refuses to delete a session it does    *)
(* not hold.  The QoS handler calls nobody for a subscription of a group.    *)
DeleteSubscription(t, out) ==
    LET r == th[t]
        quiet == r.sub.sess = 0 /\ r.op = "qosDelete"
    IN  /\ MayCall(t, "call")
        /\ r.op \in {"qosDelete", "tiDelete"}
        /\ r.sub.sess # 0 /\ r.sub.sess \notin sessions => out = "refused"
        /\ quiet => out = "ok"
        /\ sessions' = IF out = "refused" THEN sessions ELSE sessions \ {r.sub.sess}
        /\ influ' = IF out = "refused" \/ r.sub.sess # 0 \/ quiet THEN influ
                    ELSE influ \ {r.sub.corre}
        /\ Done(t, IF out = "ok" THEN [obj[r.h] EXCEPT !.subs[r.id] = NoSub] ELSE obj[r.h])
        /\ UNCHANGED <<ctx, nsess, pfds>>

(* Faulty variant: an error of the UDR is ignored.                           *)
DeletePfd_IgnoresError(t, x, out) ==
    LET r == th[t]
    IN  /\ MayCall(t, "pfd")
        /\ x \in r.del
        /\ pfds' = IF out = "refused" THEN pfds ELSE pfds \ {x}
        /\ Hold(t, obj[r.h], [r EXCEPT !.del = @ \ {x}])
        /\ UNCHANGED <<ctx, sessions, nsess, influ>>

(* deletePfdDataFromUDR of one application; an error ends the handler.       *)
DeletePfd(t, x, out) ==
    LET r == th[t]
    IN  /\ MayCall(t, "pfd")
        /\ x \in r.del
        /\ pfds' = IF out = "refused" THEN pfds ELSE pfds \ {x}
        /\ \/ out # "ok" /\ Done(t, obj[r.h])
           \/ out = "ok" /\ Hold(t, obj[r.h], [r EXCEPT !.del = @ \ {x}, !.ok = @ \cup {x}])
        /\ UNCHANGED <<ctx, sessions, nsess, influ>>

(* AddExtAppID and storePfdDataToUDR of one application, once the deletions  *)
(* are done; a PUT first empties the transaction (DeleteAllExtAppIDs).       *)
StorePfd(t, x, out) ==
    LET r == th[t]
        o == obj[r.h]
        fresh == r.op = "pfdPut" /\ r.put = r.apps
        named == IF r.op \in Validated
                 THEN [o EXCEPT !.trans[r.id] = (IF fresh THEN {} ELSE @) \cup {x}] ELSE o
    IN  /\ MayCall(t, "pfd")
        /\ r.del = {} /\ x \in r.put
        /\ r.op = "pfdPatchApp" /\ x \notin pfds => out = "refused"
        /\ pfds' = IF out = "refused" THEN pfds ELSE pfds \cup {x}
        /\ Hold(t, named, [r EXCEPT !.put = @ \ {x}, !.ok = IF out = "ok" THEN @ \cup {x} ELSE @])
        /\ UNCHANGED <<ctx, sessions, nsess, influ>>

(* The end of a PFD handler; DeleteAll goes on with the next transaction.    *)
PfdEnd(t) ==
    LET r == th[t]
        o == obj[r.h]
        shut == [o EXCEPT !.open = @ \ {r.id}, !.trans[r.id] = {}]
    IN  /\ r.pc = "pfd" /\ r.del = {} /\ r.put = {}
        /\ \/ /\ r.op = "pfdPost" /\ r.ok # {}
              /\ Hold(t, [o EXCEPT !.open = @ \cup {r.id}], [r EXCEPT !.pc = "addaf"])
           \/ r.op = "pfdPost" /\ r.ok = {} /\ Done(t, [o EXCEPT !.trans[r.id] = {}])
           \/ r.op = "pfdDelete" /\ Done(t, shut)
           \/ /\ r.op = "pfdDeleteAll"
              /\ IF shut.open = {} THEN Done(t, shut)
                 ELSE \E i \in shut.open : Hold(t, shut, [r EXCEPT !.id = i, !.del = o.trans[i]])
           \/ r.op = "pfdDeleteApp" /\ Done(t, [o EXCEPT !.trans[r.id] = @ \ r.apps])
           \/ r.op \in {"pfdPut", "pfdPutApp", "pfdPatchApp"} /\ Done(t, o)
        /\ UNCHANGED <<ctx, peers>>

-----------------------------------------------------------------------------
Serve(t) ==
    \/ GetAf(t) \/ CtxWait(t) \/ LockAf(t) \/ NewSub(t) \/ AddAf(t)
    \/ ScanBegin(t) \/ ScanNext(t) \/ ScanEnd(t) \/ SmfNotification(t)
    \/ PatchSubscription(t) \/ PfdEnd(t)
    \/ \E out \in Outcomes :
         \/ PostAppSessions(t, out) \/ AppDataInfluenceDataPut(t, out)
         \/ DeleteSubscription(t, out)
         \/ \E x \in Apps : DeletePfd(t, x, out) \/ StorePfd(t, x, out)

Arrive(t) ==
    \E op \in Ops, a \in Afs :
        \/ op \in Posting \cup {"pfdDeleteAll"} /\ Request(t, op, a, 0, {})
        \/ /\ op \in {"qosPatch", "qosDelete", "tiPut", "tiPatch", "tiDelete", "pfdDelete", "smfNotify"}
           /\ \E i \in Ids : Request(t, op, a, i, {})
        \/ op = "pfdPost" /\ \E S \in SUBSET Apps \ {{}} : Request(t, op, a, 0, S)
        \/ op = "pfdPut" /\ \E i \in Ids, S \in SUBSET Apps \ {{}} : Request(t, op, a, i, S)
        \/ /\ op \in {"pfdPutApp", "pfdPatchApp", "pfdDeleteApp"}
           /\ \E i \in Ids, x \in Apps : Request(t, op, a, i, {x})

Next == \E t \in Threads : Arrive(t) \/ Serve(t)
Spec == Init /\ [][Next]_vars

-----------------------------------------------------------------------------
(* The shape of the state.                                                   *)
TypeOK ==
    /\ afs \in [Afs -> {0} \cup Objs] /\ nobj \in {0} \cup Objs
    /\ numCorreID \in 0..MaxPosts /\ nsess \in 0..MaxPosts /\ posts \in 0..MaxPosts
    /\ \A h \in Objs : /\ obj[h].numSub \in 0..MaxPosts /\ obj[h].numTrans \in 0..MaxPosts
                       /\ obj[h].open \subseteq 1..obj[h].numTrans
                       /\ obj[h].w \in Threads \cup {NoThread}
    /\ readers \subseteq Threads /\ waiting \subseteq Threads
    /\ sessions \subseteq 1..nsess /\ influ \subseteq 1..numCorreID /\ pfds \subseteq Apps

(* When no goroutine can go on although one has work, the order of the two   *)
(* locks is the reason: a scan holds NefContext.mu, and a handler that holds *)
(* the AfData.Mu it waits for waits for NefContext.mu.  Handlers without a   *)
(* scan beside them never block each other for good.                         *)
Stuck == (\E t \in Threads : th[t].pc # "idle") /\ ~ENABLED (\E t \in Threads : Serve(t))
OnlyLockOrderBlocks ==
    Stuck => \E s \in readers, t \in Threads :
                /\ th[s].pc = "scan"
                /\ th[t].h \in Registered \ th[s].seen /\ obj[th[t].h].w = t
                /\ t \in waiting \/ th[t].pc \in {"call", "pfd"}

(* Once its POST is over, a subscription is in the AfData that GetAf returns *)
(* for its AF, so PATCH and DELETE reach it, and no other has its            *)
(* NotifCorreID, so the SMF's callback finds it (FindAfSub), whatever POSTs  *)
(* run beside it.                                                            *)
SubscriptionsReachable ==
    /\ \A h \in Objs : obj[h].w = NoThread /\ (\E i \in Ids : obj[h].subs[i] # NoSub)
                         => afs[obj[h].id] = h
    /\ \A g, h \in Objs : \A i, j \in Ids :
           obj[g].subs[i].corre = obj[h].subs[j].corre /\ obj[g].subs[i] # NoSub => g = h /\ i = j

(* A subscription disappears only when the PCF no longer holds its app       *)
(* session, even if answers were refused or lost.                            *)
DeletedOnlyWithSession ==
    [][\A h \in Objs, i \in Ids :
          obj[h].subs[i] # NoSub /\ obj'[h].subs[i] = NoSub
              => obj[h].subs[i].sess \notin sessions']_vars

(* An application leaves a PFD transaction only when the UDR holds no PFDs   *)
(* for it, or another handler is about to name it.  Two AFs that name the     *)
(* same application beside each other can leave its PFDs behind when an       *)
(* answer is lost.                                                            *)
NamedPfds(h, i) == IF i \in obj[h].open THEN obj[h].trans[i] ELSE {}
PfdsNotForgotten ==
    [][\A h \in Objs, i \in Ids, x \in Apps :
          x \in NamedPfds(h, i) /\ x \notin NamedPfds(h, i)'
              => \/ x \notin pfds'
                 \/ \E g \in Objs, j \in Ids : x \in obj'[g].trans[j]
                 \/ \E t \in Threads : x \in th'[t].put
                 \/ Lossy /\ Cardinality(Afs) > 1]_vars
=============================================================================
