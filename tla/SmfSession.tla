----------------------------- MODULE SmfSession -----------------------------
(***************************************************************************)
(* The life cycle of the SM contexts of one UE: the SMF's Create, Update,  *)
(* Release and policy notification handlers, the goroutines they leave     *)
(* behind (establishment, removal, T3592), the AMF's routing entries, and  *)
(* the UPF, PCF and UDM as far as the SMF can tell.                        *)
(*                                                                         *)
(* SMLock makes a handler one step for the others of its context.  A       *)
(* goroutine that calls the AMF takes SMLock in a step of its own, because *)
(* its call waits for the AMF's lock of the UE, and the AMF holds that     *)
(* lock while the SMF serves its Create.  The AMF handles the messages of  *)
(* a UE one after the other, so one of its requests is in service at a     *)
(* time.                                                                   *)
(***************************************************************************)
EXTENDS Naturals, Sequences, FiniteSets

CONSTANTS
    Psis,       \* PDU session identities of the UE
    Ips,        \* the addresses of the UPF's pool
    Msgs,       \* what the AMF may send
    MaxRef,     \* bound: SM contexts ever made
    MaxSend,    \* bound: messages the AMF sends that answer nothing
    MaxEvents,  \* bound: failed calls, restarts of the UPF and policy updates, together
    MaxRetry    \* T3592.MaxRetryTimes; 0: the timer is not enabled

AllMsgs == {"ReleaseRequest", "Dup", "Deactivated", "Activating", "Release"}
ASSUME SmfSessionAssumption ==
    /\ IsFiniteSet(Psis) /\ IsFiniteSet(Ips) /\ Msgs \subseteq AllMsgs
    /\ 0 \notin Psis \cup Ips
    /\ MaxRef \in Nat /\ MaxSend \in Nat /\ MaxEvents \in Nat /\ MaxRetry \in Nat

Refs == 1..MaxRef
None == 0
Off == MaxRetry + 2     \* smContext.T3592 = nil
States == {"ActivePending", "Active", "ModificationPending", "InActivePending", "InActive"}
Answers == {"SetupRsp", "RelRsp", "Complete"}

VARIABLES
    nref,   \* SM contexts made so far
    ctx,    \* the SM contexts
    pool,   \* smContextPool
    canon,  \* canonicalRef: PDU session -> ref
    ipq,    \* the free addresses, in the order the pool gives them out
    lock,   \* SMLock of a context: who holds it
    rm,     \* removal goroutines that have not run yet, by sendNotification
    cb,     \* T3592 callbacks that have not run yet
    pol,    \* policy updates that have looked their context up
    down,   \* the contexts releaseAllResourcesOfUPF has still to visit, and the one it is at
    assoc,  \* the association with the UPF: up, stale (the UPF has restarted), down
    sess,   \* the UPF's sessions: SEID -> the context they serve
    sfree,  \* SEIDs the UPF will use again, the last one first
    pcf,    \* SM policy associations the PCF holds
    sdm,    \* Ues[supi].PduSessionCount; 0: no entry and no SDM subscription
    amf,    \* the AMF's SmContextList: PDU session -> ref
    req,    \* the request of the AMF in service
    owed,   \* what UE and gNB have still to answer, by PDU session
    used    \* messages, failures, restarts and policy updates so far; lost: contexts
            \* with a session at the UPF whose establishment was never answered

vars == <<nref, ctx, pool, canon, ipq, lock, rm, cb, pol, down, assoc, sess, sfree,
          pcf, sdm, amf, req, owed, used>>
names == <<nref, pool, canon>>
upf == <<sess, sfree>>
jobs == <<cb, pol, down, assoc>>

NoCtx == [psi |-> None, state |-> "InActive", ip |-> None, sel |-> FALSE, policy |-> FALSE,
          tun |-> FALSE, seid |-> 0, an |-> FALSE, up |-> "none", dup |-> FALSE, t3592 |-> Off]
Idle == [m |-> "none", psi |-> None, ref |-> None]
NotDown == [todo |-> {}, cur |-> None]

Init ==
    /\ nref = 0 /\ ctx = [r \in Refs |-> NoCtx] /\ pool = {} /\ canon = [p \in Psis |-> None]
    /\ ipq \in [1..Cardinality(Ips) -> Ips] /\ \A i, j \in DOMAIN ipq : ipq[i] = ipq[j] => i = j
    /\ lock = [r \in Refs |-> "free"]
    /\ rm = [r \in Refs |-> [n \in BOOLEAN |-> 0]] /\ cb = [r \in Refs |-> {}]
    /\ pol = {} /\ down = NotDown /\ assoc = "up" /\ sess = <<>> /\ sfree = <<>>
    /\ pcf = {} /\ sdm = 0 /\ amf = [p \in Psis |-> None] /\ req = Idle
    /\ owed = [p \in Psis |-> {}]
    /\ used = [sent |-> 0, late |-> FALSE, lost |-> {}, fault |-> 0, restart |-> 0, notify |-> 0]

\* n more events of a kind.
Room(n) == used.fault + used.restart + used.notify + n <= MaxEvents
Fail(n) == Room(n) /\ used' = [used EXCEPT !.fault = @ + n]
FailEst(n, r, o) ==
    Room(n) /\ used' = [used EXCEPT !.fault = @ + n, !.lost = IF o = "lost" THEN @ \cup {r} ELSE @]
UeLocked == req.m \in {"LocalRelease", "New"}    \* CreatePDUSession holds ue.Lock

-----------------------------------------------------------------------------
(* What the handlers are made of.                                          *)

\* UE IP pool: a freed address is used again after those that were never used.
FreeIp(r) == IF ctx[r].sel /\ ctx[r].ip # None THEN Append(ipq, ctx[r].ip) ELSE ipq

\* UnSubscribe, k times: the last session drops the subscription and the entry.
\* Faulty variants: counting below zero; not called by RemoveSMContextFromAllNF.
UnSubscribe_NoFloor(k) == sdm - k
UnSubscribe_NotAtRemoval(k) == IF sdm > k - 1 THEN sdm - (k - 1) ELSE 0
UnSubscribe(k) == IF sdm > k THEN sdm - k ELSE 0

\* SendSMPolicyAssociationTermination, tried k times of which n fail.
TermFails(r, k) == IF ctx[r].policy THEN 0..k ELSE {0}
\* Faulty variant: not called by RemoveSMContextFromAllNF.
Terminated_NotAtRemoval(r, k, n) == IF ctx[r].policy /\ n + 1 < k THEN pcf \ {r} ELSE pcf
Terminated(r, k, n) == IF ctx[r].policy /\ n < k THEN pcf \ {r} ELSE pcf
PolicyKept(r, k, n) == ctx[r].policy /\ n = k

\* The UPF's session table (external, as UpfSession): a new session takes the
\* SEID freed last, a deletion removes whatever session has the SEID.
NewSeid == IF sfree = <<>> THEN Len(sess) + 1 ELSE sfree[Len(sfree)]
UpfNewSess(r) ==
    /\ sess' = IF sfree = <<>> THEN Append(sess, r) ELSE [sess EXCEPT ![NewSeid] = r]
    /\ sfree' = IF sfree = <<>> THEN sfree ELSE SubSeq(sfree, 1, Len(sfree) - 1)
UpfHas(s) == s \in DOMAIN sess /\ sess[s] # None
UpfDelete(s) == sess' = [sess EXCEPT ![s] = None] /\ sfree' = Append(sfree, s)

\* An exchange with the UPF: done and answered, done but the answer is lost, or
\* never received.
Exchange == {"ok", "lost", "drop"}
Lost(o) == IF o = "ok" THEN 0 ELSE 1

\* releaseSession / ReleaseTunnel: one deletion for the UPF of the paths.  The
\* paths and the SEID stay, and an answer for another session is an error.
Deleted(r, o) == ctx[r].tun => o = "ok" /\ assoc = "up" /\ UpfHas(ctx[r].seid) /\ sess[ctx[r].seid] = r
\* Faulty variants: only an Active session is deleted; the SMF's own SEID is used.
releaseSession_OnlyActive(r, o) ==
    /\ o # "ok" => ctx[r].tun /\ assoc = "up"
    /\ IF ctx[r].tun /\ assoc = "up" /\ o # "drop" /\ UpfHas(ctx[r].seid)
             /\ ctx[r].state = "Active"
         THEN UpfDelete(ctx[r].seid)
         ELSE UNCHANGED upf
releaseSession_LocalSEID(r, o) ==
    /\ o # "ok" => ctx[r].tun /\ assoc = "up"
    /\ IF ctx[r].tun /\ assoc = "up" /\ o # "drop" /\ UpfHas(r)
         THEN UpfDelete(r)
         ELSE UNCHANGED upf
releaseSession(r, o) ==
    /\ o # "ok" => ctx[r].tun /\ assoc = "up"
    /\ IF ctx[r].tun /\ assoc = "up" /\ o # "drop" /\ UpfHas(ctx[r].seid)
         THEN UpfDelete(ctx[r].seid)
         ELSE UNCHANGED upf

\* RemoveSMContextFromAllNF, its asynchronous part: c removal goroutines more.
Spawn(r, notify, c) == rm' = [rm EXCEPT ![r][notify] = @ + c]

Owe(p, A) == owed' = [owed EXCEPT ![p] = @ \cup A]

-----------------------------------------------------------------------------
(* Create.                                                                 *)

\* The AMF has no entry for the session: CreatePDUSession.  The SMF looks for
\* a context of the same session by name.
AmfCreate(p) ==
    /\ req = Idle /\ amf[p] = None /\ nref < MaxRef
    /\ req' = IF canon[p] \in pool THEN [m |-> "LocalRelease", psi |-> p, ref |-> canon[p]]
                                   ELSE [m |-> "New", psi |-> p, ref |-> None]
    /\ UNCHANGED <<names, ctx, ipq, lock, rm, jobs, upf, pcf, sdm, amf, owed, used>>

\* HandlePDUSessionSMContextLocalRelease of the duplicate.
LocalRelease(o, n) ==
    LET r == req.ref
        k == IF Deleted(r, o) THEN 2 ELSE 1
    IN  /\ req.m = "LocalRelease" /\ lock[r] = "free"
        /\ n \in TermFails(r, k) /\ Fail(n + Lost(o))
        /\ releaseSession(r, o)
        /\ pcf' = Terminated(r, k, n) /\ sdm' = UnSubscribe(k)
        /\ ctx' = [ctx EXCEPT ![r].policy = PolicyKept(r, k, n),
                              ![r].state = IF k = 2 THEN "InActive" ELSE "Active"]
        /\ Spawn(r, FALSE, k - 1)
        /\ req' = [req EXCEPT !.m = "New", !.ref = None]
        /\ UNCHANGED <<names, ipq, lock, jobs, amf, owed>>

\* NewSMContext and the rest of HandlePDUSessionSMContextCreate.
CreateOutcomes == {"ok", "noToken", "noPolicy", "policyLost", "noPath"}
Create(o, n) ==
    LET r == nref + 1
        p == req.psi
        c == [NoCtx EXCEPT !.psi = p, !.state = "ActivePending"]
        d == [c EXCEPT !.ip = Head(ipq), !.sel = TRUE]
    IN  /\ req.m = "New"
        /\ nref' = r /\ pool' = pool \cup {r} /\ canon' = [canon EXCEPT ![p] = r]
        /\ req' = Idle
        /\ n = 1 => o = "noPath"
        /\ \/ /\ o = "noToken" /\ Fail(1)      \* returns without an answer
              /\ ctx' = [ctx EXCEPT ![r] = c]
              /\ UNCHANGED <<ipq, lock, rm, pcf, sdm, amf>>
           \/ /\ o = "ok" /\ ipq = <<>>        \* AllocUeIP fails
              /\ ctx' = [ctx EXCEPT ![r] = [c EXCEPT !.state = "InActive"]]
              /\ Spawn(r, FALSE, 1) /\ sdm' = UnSubscribe(1)
              /\ UNCHANGED <<ipq, lock, pcf, amf, used>>
           \/ /\ o \in {"noPolicy", "policyLost"} /\ ipq # <<>> /\ Fail(1)
              /\ ipq' = Tail(ipq)
              /\ ctx' = [ctx EXCEPT ![r] = [d EXCEPT !.state = "InActive"]]
              /\ pcf' = IF o = "policyLost" THEN pcf \cup {r} ELSE pcf
              /\ Spawn(r, FALSE, 1) /\ sdm' = UnSubscribe(1)
              /\ UNCHANGED <<lock, amf>>
           \/ /\ o = "noPath" /\ ipq # <<>> /\ Fail(1 + n)
              /\ ipq' = Tail(ipq)
              /\ ctx' = [ctx EXCEPT ![r] = [d EXCEPT !.state = "InActive", !.policy = (n = 1)]]
              /\ pcf' = IF n = 1 THEN pcf \cup {r} ELSE pcf
              /\ Spawn(r, FALSE, 1) /\ sdm' = UnSubscribe(1)
              /\ UNCHANGED <<lock, amf>>
           \/ /\ o = "ok" /\ ipq # <<>>
              /\ ipq' = Tail(ipq)
              /\ ctx' = [ctx EXCEPT ![r] = [d EXCEPT !.policy = TRUE, !.tun = TRUE]]
              /\ pcf' = pcf \cup {r} /\ sdm' = sdm + 1
              /\ lock' = [lock EXCEPT ![r] = "est"]
              /\ amf' = [amf EXCEPT ![p] = r]
              /\ UNCHANGED <<rm, used>>
        /\ UNCHANGED <<jobs, upf, owed>>

\* The goroutine of Create, which has SMLock: ActivateUPFSession and EstHandler.
\* The accept or the reject goes to the UE through the AMF's entry, x = 1: the
\* AMF refuses it.
Establish(r, o, x, n) ==
    LET p == ctx[r].psi
        ok == o = "ok" /\ assoc = "up"
        sent == x = 0 /\ amf[p] # None
    IN  /\ lock[r] = "est" /\ ~UeLocked
        /\ o # "ok" => assoc = "up"
        /\ n \in IF ~ok /\ sent THEN TermFails(r, 1) ELSE {0}
        /\ FailEst(Lost(o) + x + n, r, o)
        /\ IF assoc = "up" /\ o # "drop" THEN UpfNewSess(r) ELSE UNCHANGED upf
        /\ ctx' = [ctx EXCEPT ![r].seid = IF ok THEN NewSeid ELSE 0,
                              ![r].state = IF ~ok THEN "InActive"
                                           ELSE IF sent THEN "Active" ELSE @,
                              ![r].policy = IF ~ok /\ sent THEN n = 1 ELSE @]
        /\ IF ~ok /\ sent
             THEN Spawn(r, TRUE, 1) /\ sdm' = UnSubscribe(1) /\ pcf' = Terminated(r, 1, n)
             ELSE UNCHANGED <<rm, sdm, pcf>>
        /\ IF ok /\ sent THEN Owe(p, {"SetupRsp"}) ELSE UNCHANGED owed
        /\ lock' = [lock EXCEPT ![r] = "free"]
        /\ UNCHANGED <<names, ipq, jobs, amf, req>>

-----------------------------------------------------------------------------
(* Update and Release: the AMF sends to the ref of its entry.              *)

\* The AMF forwards m; GetSMContextByRef runs before SMLock is taken.  When the
\* context is gone the answer is 404, and a duplicate establishment makes the
\* AMF drop its entry.  An answer of UE or gNB that finds no entry is dropped: it
\* is as good as one that never comes.
AmfSend(p, m) ==
    /\ req = Idle /\ amf[p] # None
    /\ \/ /\ m \in Msgs /\ used.sent < MaxSend
          /\ used' = [used EXCEPT !.sent = @ + 1] /\ UNCHANGED owed
       \/ m \in owed[p] /\ owed' = [owed EXCEPT ![p] = @ \ {m}] /\ UNCHANGED used
    /\ IF amf[p] \in pool
         THEN req' = [m |-> m, psi |-> p, ref |-> amf[p]] /\ UNCHANGED amf
         ELSE /\ amf' = IF m = "Dup" THEN [amf EXCEPT ![p] = None] ELSE amf
              /\ UNCHANGED req
    /\ UNCHANGED <<names, ctx, ipq, lock, rm, jobs, upf, pcf, sdm>>

Handling(m) == req.m = m /\ lock[req.ref] = "free"

\* The removals an Update ends with: h from its own branch, and one more when
\* the session is being released as a duplicate; n terminations fail.
Removals(r, h) == h + (IF ctx[r].dup THEN 1 ELSE 0)
EndUpdate(r, k, n) ==
    /\ IF k = 0 THEN UNCHANGED <<pcf, sdm, rm>>
                ELSE /\ pcf' = Terminated(r, k, n) /\ sdm' = UnSubscribe(k)
                     /\ Spawn(r, TRUE, k)
    /\ req' = Idle
Ended(c, k, n) ==
    IF k = 0 THEN c ELSE [c EXCEPT !.state = "InActive", !.policy = @ /\ n >= k]

\* N1 PDU Session Release Request: the address goes back to the pool, the policy
\* association ends, T3592 starts, the UPF session is deleted; the release
\* command is the answer, or a reject.
ReleaseRequest(o, n) ==
    LET r == req.ref
        k == Removals(r, 0)
        c == [ctx[r] EXCEPT !.ip = IF @ # None /\ ctx[r].sel THEN None ELSE @,
                            !.state = IF Deleted(r, o) THEN "InActivePending" ELSE "Active",
                            !.t3592 = IF MaxRetry > 0 THEN 0 ELSE Off]
    IN  /\ Handling("ReleaseRequest")
        /\ n \in TermFails(r, k + 1) /\ Fail(n + Lost(o))
        /\ ipq' = FreeIp(r)
        /\ releaseSession(r, o)
        /\ pcf' = Terminated(r, k + 1, n) /\ sdm' = UnSubscribe(k + 1)
        /\ Spawn(r, TRUE, k)
        /\ ctx' = [ctx EXCEPT ![r] = Ended([c EXCEPT !.policy = @ /\ n = k + 1], k, n)]
        /\ IF Deleted(r, o)
             THEN Owe(req.psi, {"Complete"} \cup IF ctx[r].up = "ACTIVATED" THEN {"RelRsp"} ELSE {})
             ELSE UNCHANGED owed
        /\ req' = Idle
        /\ UNCHANGED <<names, lock, jobs, amf>>

\* N1 PDU Session Release Complete.
ReleaseComplete(n) ==
    LET r == req.ref
        k == Removals(r, IF ctx[r].an THEN 0 ELSE 1)
    IN  /\ Handling("Complete")
        /\ n \in TermFails(r, k) /\ Room(n)
        /\ used' = [used EXCEPT !.fault = @ + n, !.late = @ \/ ctx[r].state # "InActivePending"]
        /\ EndUpdate(r, k, n)
        /\ ctx' = [ctx EXCEPT ![r] = Ended([ctx[r] EXCEPT !.state = "InActive", !.t3592 = Off], k, n)]
        /\ UNCHANGED <<names, ipq, lock, jobs, upf, amf, owed>>

\* N2 PDU_RES_REL_RSP: the access tunnel is gone.
ResourceReleaseResponse(n) ==
    LET r == req.ref
        k == Removals(r, IF ctx[r].state = "InActive" THEN 1 ELSE 0)
        s == IF ctx[r].state = "ModificationPending" THEN "Active" ELSE ctx[r].state
    IN  /\ Handling("RelRsp")
        /\ n \in TermFails(r, k) /\ Fail(n) /\ EndUpdate(r, k, n)
        /\ ctx' = [ctx EXCEPT ![r] = Ended([ctx[r] EXCEPT !.an = FALSE, !.state = s], k, n)]
        /\ UNCHANGED <<names, ipq, lock, jobs, upf, amf, owed>>

\* The updates that end in Active whatever the state was: PDU_RES_SETUP_RSP
\* (and the handover messages that end alike), ACTIVATING, DEACTIVATED.  Only
\* DEACTIVATED looks at the state, and only for InActivePending.
Modify(m, n) ==
    LET r == req.ref
        skip == m = "Deactivated" /\ ctx[r].state = "InActivePending"
        k == IF skip THEN 0 ELSE Removals(r, 0)
        up == CASE m = "SetupRsp" -> "ACTIVATED"
                [] m = "Activating" -> "ACTIVATING"
                [] OTHER -> "DEACTIVATED"
        c == [ctx[r] EXCEPT !.state = "Active", !.an = m = "SetupRsp" \/ @, !.up = up]
    IN  /\ m \in {"SetupRsp", "Activating", "Deactivated"} /\ Handling(m)
        /\ n \in TermFails(r, k) /\ Fail(n) /\ EndUpdate(r, k, n)
        /\ ctx' = IF skip THEN ctx ELSE [ctx EXCEPT ![r] = Ended(c, k, n)]
        /\ IF m = "Activating" THEN Owe(req.psi, {"SetupRsp"}) ELSE UNCHANGED owed
        /\ UNCHANGED <<names, ipq, lock, jobs, upf, amf>>

\* Cause REL_DUE_TO_DUPLICATE_SESSION_ID: the UE asks again for a session the
\* AMF has an entry of.  The AMF drops its entry when it gets no 200.
Duplicate(o, n) ==
    LET r == req.ref
        rel == ctx[r].state \in {"ActivePending", "ModificationPending", "Active"}
        ok == rel => Deleted(r, o)
    IN  /\ Handling("Dup")
        /\ n \in TermFails(r, 1) /\ Fail(n + Lost(o))
        /\ IF rel THEN releaseSession(r, o) ELSE o = "ok" /\ UNCHANGED upf
        /\ pcf' = Terminated(r, 1, n) /\ sdm' = UnSubscribe(1) /\ Spawn(r, TRUE, 1)
        /\ ctx' = [ctx EXCEPT ![r].dup = TRUE, ![r].state = "InActive",
                              ![r].policy = PolicyKept(r, 1, n)]
        /\ amf' = IF ok THEN amf ELSE [amf EXCEPT ![req.psi] = None]
        /\ IF rel /\ ok THEN Owe(req.psi, {"RelRsp"}) ELSE UNCHANGED owed
        /\ req' = Idle
        /\ UNCHANGED <<names, ipq, lock, jobs>>

\* HandlePDUSessionSMContextRelease.
Release(o, n) ==
    LET r == req.ref
    IN  /\ Handling("Release")
        /\ n \in TermFails(r, 2) /\ Fail(n + Lost(o))
        /\ releaseSession(r, o)
        /\ pcf' = Terminated(r, 2, n) /\ sdm' = UnSubscribe(2) /\ Spawn(r, FALSE, 1)
        /\ ctx' = [ctx EXCEPT ![r].state = "InActive", ![r].t3592 = Off,
                              ![r].policy = PolicyKept(r, 2, n)]
        /\ amf' = IF Deleted(r, o) THEN [amf EXCEPT ![req.psi] = None] ELSE amf
        /\ req' = Idle
        /\ UNCHANGED <<names, ipq, lock, jobs, owed>>

-----------------------------------------------------------------------------
(* The goroutines that run on their own.                                   *)

\* RemoveSMContext: by ref, but the name it deletes may be another context's.
\* Faulty variant: the address is not given back.
RemoveSMContext_KeepsAddress(r) ==
    IF r \in pool
      THEN /\ pool' = pool \ {r} /\ canon' = [canon EXCEPT ![ctx[r].psi] = None]
           /\ UNCHANGED <<ipq, ctx>>
      ELSE UNCHANGED <<ipq, ctx, pool, canon>>
RemoveSMContext(r) ==
    IF r \in pool
      THEN /\ ipq' = FreeIp(r) /\ ctx' = [ctx EXCEPT ![r].sel = FALSE]
           /\ pool' = pool \ {r} /\ canon' = [canon EXCEPT ![ctx[r].psi] = None]
      ELSE UNCHANGED <<ipq, ctx, pool, canon>>

\* SmContextStatusNotifyProcedure of the AMF: the entry of the PDU session goes,
\* whichever context sent the notification.
StatusNotified(r) == amf' = [amf EXCEPT ![ctx[r].psi] = None]

\* sendSMContextStatusNotificationAndRemoveSMContext.
Remove(r) ==
    /\ rm[r][FALSE] > 0 /\ lock[r] = "free"
    /\ rm' = [rm EXCEPT ![r][FALSE] = @ - 1]
    /\ RemoveSMContext(r)
    /\ UNCHANGED <<nref, lock, jobs, upf, pcf, sdm, amf, req, owed, used>>

\* The goroutines that call the AMF take SMLock first.
Caller(r) == {"notify" : i \in 1..rm[r][TRUE]} \cup cb[r]
             \cup (IF r \in pol THEN {"policy"} ELSE {})
             \cup (IF down.cur = r THEN {"down"} ELSE {})
TakeLock(r, w) ==
    /\ w \in Caller(r) /\ lock[r] = "free"
    /\ w = "down" => ctx[r].state \in {"Active", "ModificationPending"}
    /\ lock' = [lock EXCEPT ![r] = w]
    /\ UNCHANGED <<names, ctx, ipq, rm, jobs, upf, pcf, sdm, amf, req, owed, used>>

Calling(r, w) == lock[r] = w /\ ~UeLocked

NotifyAndRemove(r) ==
    /\ Calling(r, "notify")
    /\ StatusNotified(r) /\ RemoveSMContext(r)
    /\ rm' = [rm EXCEPT ![r][TRUE] = @ - 1] /\ lock' = [lock EXCEPT ![r] = "free"]
    /\ UNCHANGED <<nref, jobs, upf, pcf, sdm, req, owed, used>>

\* T3592 expires.
T3592Tick(r) ==
    /\ ctx[r].t3592 <= MaxRetry /\ cb[r] = {}
    /\ ctx' = [ctx EXCEPT ![r].t3592 = @ + 1]
    /\ cb' = [cb EXCEPT ![r] = {IF ctx[r].t3592 = MaxRetry THEN "cancel" ELSE "retry"}]
    /\ UNCHANGED <<names, ipq, lock, rm, pol, down, assoc, upf, pcf, sdm, amf, req, owed, used>>

\* The retry: the release command again.  When the AMF refuses, the callback
\* returns and keeps SMLock.
T3592Retry(r, x) ==
    /\ Calling(r, "retry") /\ Fail(x)
    /\ cb' = [cb EXCEPT ![r] = @ \ {"retry"}]
    /\ IF x = 0 /\ amf[ctx[r].psi] # None
         THEN lock' = [lock EXCEPT ![r] = "free"] /\ Owe(ctx[r].psi, {"Complete"})
         ELSE lock' = [lock EXCEPT ![r] = "stuck"] /\ UNCHANGED owed
    /\ UNCHANGED <<names, ctx, ipq, rm, pol, down, assoc, upf, pcf, sdm, amf, req>>

T3592Cancel(r) ==
    /\ Calling(r, "cancel")
    /\ cb' = [cb EXCEPT ![r] = @ \ {"cancel"}]
    /\ ctx' = [ctx EXCEPT ![r].t3592 = Off]
    /\ StatusNotified(r) /\ lock' = [lock EXCEPT ![r] = "free"]
    /\ UNCHANGED <<names, ipq, rm, pol, down, assoc, upf, pcf, sdm, req, owed, used>>

\* HandleSMPolicyUpdateNotify: the lookup, and then what it does to the session.
PolicyNotify(r) ==
    /\ Room(1) /\ r \in pcf \cap pool /\ r \notin pol
    /\ pol' = pol \cup {r} /\ used' = [used EXCEPT !.notify = @ + 1]
    /\ UNCHANGED <<names, ctx, ipq, lock, rm, cb, down, assoc, upf, pcf, sdm, amf, req, owed>>

\* ActivateUPFSession sends to the SEID the context has, and establishes a
\* session when it has none; a modification is told to the AMF.
PolicyUpdate(r, o) ==
    LET est == ctx[r].tun /\ ctx[r].seid = 0 /\ assoc = "up"
    IN  /\ lock[r] = "policy" /\ (ctx[r].seid # 0 => ~UeLocked)
        /\ o # "ok" => est
        /\ FailEst(Lost(o), r, o)
        /\ IF est /\ o # "drop" THEN UpfNewSess(r) ELSE UNCHANGED upf
        /\ ctx' = [ctx EXCEPT ![r].state = "ModificationPending",
                              ![r].seid = IF est /\ o = "ok" THEN NewSeid ELSE @]
        /\ pol' = pol \ {r} /\ lock' = [lock EXCEPT ![r] = "free"]
        /\ UNCHANGED <<names, ipq, rm, cb, down, assoc, pcf, sdm, amf, req, owed>>

\* The UPF restarts: it has no sessions and refuses new ones until it is
\* associated again.
UpfRestart ==
    /\ Room(1) /\ assoc = "up"
    /\ used' = [used EXCEPT !.restart = @ + 1]
    /\ sess' = <<>> /\ sfree' = <<>> /\ assoc' = "stale"
    /\ UNCHANGED <<names, ctx, ipq, lock, rm, cb, pol, down, pcf, sdm, amf, req, owed>>

\* keepHeartbeatTo sees the new recovery time: releaseAllResourcesOfUPF.
HeartbeatTells ==
    /\ assoc = "stale"
    /\ assoc' = "down" /\ down' = [todo |-> pool, cur |-> None]
    /\ UNCHANGED <<names, ctx, ipq, lock, rm, cb, pol, upf, pcf, sdm, amf, req, owed, used>>

Visitable == {r \in down.todo \cap pool : ctx[r].sel}
DownVisit ==
    /\ assoc = "down" /\ down.cur = None
    /\ IF Visitable = {}
         THEN down' = NotDown /\ assoc' = "up"      \* associated again
         ELSE /\ \E r \in Visitable : down' = [todo |-> down.todo \ {r}, cur |-> r]
              /\ UNCHANGED assoc
    /\ UNCHANGED <<names, ctx, ipq, lock, rm, cb, pol, upf, pcf, sdm, amf, req, owed, used>>

DownSkip ==
    /\ down.cur # None /\ lock[down.cur] = "free"
    /\ ctx[down.cur].state \notin {"Active", "ModificationPending"}
    /\ down' = [down EXCEPT !.cur = None]
    /\ UNCHANGED <<names, ctx, ipq, lock, rm, cb, pol, assoc, upf, pcf, sdm, amf, req, owed, used>>

\* requestAMFToReleasePDUResources: refused, N1 not transferred, or initiated.
DownRelease(o, n) ==
    LET r == down.cur
        p == ctx[r].psi
        idle == o = "idle"
    IN  /\ r # None /\ Calling(r, "down")
        /\ o = "refused" \/ amf[p] # None
        /\ idle => ctx[r].up = "DEACTIVATED"
        /\ n \in IF idle THEN TermFails(r, 1) ELSE {0}
        /\ Fail(n + IF o = "refused" /\ amf[p] # None THEN 1 ELSE 0)
        /\ ctx' = [ctx EXCEPT ![r].state = IF o = "sent" THEN "InActivePending" ELSE "InActive",
                              ![r].policy = IF idle THEN PolicyKept(r, 1, n) ELSE @]
        /\ IF idle THEN /\ StatusNotified(r) /\ Spawn(r, FALSE, 1)
                        /\ pcf' = Terminated(r, 1, n) /\ sdm' = UnSubscribe(1)
                   ELSE UNCHANGED <<amf, rm, pcf, sdm>>
        /\ IF o = "sent"
             THEN Owe(p, {"Complete"} \cup IF ctx[r].up = "DEACTIVATED" THEN {} ELSE {"RelRsp"})
             ELSE UNCHANGED owed
        /\ lock' = [lock EXCEPT ![r] = "free"] /\ down' = [down EXCEPT !.cur = None]
        /\ UNCHANGED <<names, ipq, cb, pol, assoc, upf, req>>

-----------------------------------------------------------------------------
Background(r) ==
    \/ \E o \in Exchange, x, n \in 0..1 : Establish(r, o, x, n)
    \/ Remove(r)
    \/ \E w \in {"notify", "retry", "cancel", "policy", "down"} : TakeLock(r, w)
    \/ NotifyAndRemove(r)
    \/ \E x \in 0..1 : T3592Retry(r, x)
    \/ T3592Cancel(r)
    \/ \E o \in Exchange : PolicyUpdate(r, o)

Down ==
    \/ HeartbeatTells
    \/ DownVisit
    \/ DownSkip
    \/ \E o \in {"refused", "idle", "sent"}, n \in 0..1 : DownRelease(o, n)

Serve ==
    \/ \E o \in Exchange, n \in 0..2 : LocalRelease(o, n)
    \/ \E o \in CreateOutcomes, n \in 0..1 : Create(o, n)
    \/ \E o \in Exchange, n \in 0..2 : ReleaseRequest(o, n)
    \/ \E n \in 0..2 : ReleaseComplete(n)
    \/ \E n \in 0..2 : ResourceReleaseResponse(n)
    \/ \E m \in Msgs \cup Answers, n \in 0..1 : Modify(m, n)
    \/ \E o \in Exchange, n \in 0..1 : Duplicate(o, n)
    \/ \E o \in Exchange, n \in 0..2 : Release(o, n)

Next ==
    \/ \E p \in Psis : AmfCreate(p)
    \/ \E p \in Psis, m \in Msgs \cup Answers : AmfSend(p, m)
    \/ Serve
    \/ Down
    \/ UpfRestart
    \/ \E r \in Refs : Background(r) \/ T3592Tick(r) \/ PolicyNotify(r)

Spec == Init /\ [][Next]_vars

\* Goroutines and handlers that can run do, and mutexes are fair to their waiters.
Fairness ==
    /\ WF_vars(Serve) /\ WF_vars(Down)
    /\ \A r \in Refs : SF_vars(Background(r))
FairSpec == Spec /\ Fairness
-----------------------------------------------------------------------------
(* Properties.                                                             *)

\* Every variable keeps its type; the SDM count of the UE is never negative.
TypeOK ==
    /\ nref \in 0..MaxRef /\ pool \subseteq 1..nref /\ canon \in [Psis -> 0..nref]
    /\ ctx \in [Refs -> [psi : Psis \cup {None}, state : States, ip : Ips \cup {None},
                         sel : BOOLEAN, policy : BOOLEAN, tun : BOOLEAN, seid : Nat,
                         an : BOOLEAN, up : {"none", "ACTIVATED", "ACTIVATING", "DEACTIVATED"},
                         dup : BOOLEAN, t3592 : 0..Off]]
    /\ ipq \in Seq(Ips)
    /\ lock \in [Refs -> {"free", "est", "notify", "retry", "cancel", "policy", "down", "stuck"}]
    /\ rm \in [Refs -> [BOOLEAN -> Nat]] /\ cb \in [Refs -> SUBSET {"retry", "cancel"}]
    /\ pol \subseteq Refs /\ assoc \in {"up", "stale", "down"}
    /\ down.todo \subseteq Refs /\ down.cur \in Refs \cup {None}
    /\ sess \in Seq(Refs \cup {None}) /\ sfree \in Seq(DOMAIN sess)
    /\ pcf \subseteq 1..nref /\ sdm \in 0..nref /\ amf \in [Psis -> 0..nref]
    /\ req \in [m : AllMsgs \cup Answers \cup {"none", "LocalRelease", "New"},
                psi : Psis \cup {None}, ref : Refs \cup {None}]
    /\ owed \in [Psis -> SUBSET Answers]

\* Release, local release, duplicate release, rejection and the loss of the UPF
\* may each end a session, and several removal goroutines may run for it: every
\* address is all the same in the pool's queue once, or held by one context.
UeIpAccounting ==
    \A ip \in Ips :
        LET free == {i \in DOMAIN ipq : ipq[i] = ip}
            held == {r \in pool : ctx[r].sel /\ ctx[r].ip = ip}
        IN  Cardinality(free) + Cardinality(held) = 1

\* As long as no call fails, a context that has left the pool has no SM policy
\* association at the PCF, whichever procedures raced for its removal.
PolicyEnds == used.fault = 0 => \A r \in pcf : r \in pool

\* The SDM subscription never outlives the contexts of the UE: the count is at
\* most the number of contexts, and 0 when there are none.
SdmReleased == sdm <= Cardinality(pool)

\* The sessions the UPF holds for a context.
Sessions(r) == {s \in DOMAIN sess : sess[s] = r}

\* A context leaves no session behind in the UPF, unless an exchange failed or
\* the UPF restarted, or a Release Complete was taken for a session that was not
\* being released: the handler checks the state but ignores the result.
NoOrphanSession ==
    used.fault = 0 /\ used.restart = 0 /\ ~used.late =>
        \A r \in 1..nref \ pool : Sessions(r) = {}

\* SendPfcpSessionDeletionRequest deletes by the SEID the context remembers.  It
\* may hit the session of another context, but only when the own one is gone, or
\* is one that the SMF never heard of.
StraysOnlyStale ==
    [][\A s \in DOMAIN sess :
          /\ s \in DOMAIN sess' /\ sess[s] # None /\ sess'[s] = None
          /\ sess[s] # req.ref
          => Sessions(req.ref) = {} \/ req.ref \in used.lost]_vars

\* Status notifications run asynchronously so that the AMF's request returns:
\* every request of the AMF is answered.
RequestAnswered == (req # Idle) ~> (req = Idle)
=============================================================================
