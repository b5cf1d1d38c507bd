----------------------------- MODULE UpfSession -----------------------------
(***************************************************************************)
(* The PFCP server of the UPF (go-upf/internal/pfcp): remote nodes (the    *)
(* SMFs), the table of PFCP sessions with its recycled local SEIDs, the    *)
(* rules each session installs in the forwarder, and the usage reports.    *)
(* PfcpServer.main is one goroutine, so every handler is one action; the   *)
(* gtp5g driver it calls may refuse any single call.                       *)
(***************************************************************************)
EXTENDS Naturals, Sequences, FiniteSets

CONSTANTS
    NodeIDs,   \* PFCP node IDs of the SMFs; a node ID also stands for its address
    RSEIDs,    \* SEIDs the SMFs choose (CP F-SEID)
    PDRs,      \* PDR IDs
    URRs,      \* URR IDs
    Rules,     \* IDs of FARs, QERs and BARs, which node.go treats alike
    MaxSess,   \* bound: length of LocalNode.sess
    MaxNodes,  \* bound: RemoteNode objects ever created
    MaxIEs,    \* bound: rule IEs in one request
    MaxSeq,    \* bound: URSEQN of a usage report
    Flaky,     \* the PDRs, URRs and Rules whose driver calls may fail
    Takeover   \* whether an SMF of an SMF set takes over sessions (NodeID in a modification)

SEIDs == 1..MaxSess
Handles == 1..MaxNodes

ASSUME BoundsAssumption ==
    /\ MaxSess \in Nat \ {0} /\ MaxNodes \in Nat \ {0} /\ MaxIEs \in Nat /\ MaxSeq \in Nat
    /\ Takeover \in BOOLEAN
    /\ NodeIDs # {} /\ RSEIDs # {}
    /\ IsFiniteSet(PDRs) /\ IsFiniteSet(URRs)

VARIABLES
    up,      \* FALSE once main has panicked (log.Fatalf)
    nnodes,  \* RemoteNode objects created so far
    nodeId,  \* RemoteNode.ID of each object
    nodeAddr,\* RemoteNode.addr: the address its association came from
    nodeSess,\* RemoteNode.sess: the local SEIDs of its sessions
    rnodes,  \* PfcpServer.rnodes: node ID -> RemoteNode object, 0 if absent
    nsess,   \* len(LocalNode.sess)
    owner,   \* Sess.rnode of each slot of LocalNode.sess, 0 for a nil slot
    rseid,   \* Sess.RemoteID of each slot
    free,    \* LocalNode.free, a stack
    book,    \* the rule tables of each Sess
    kern,    \* the rules gtp5g holds for each local SEID
    pending, \* Session Report Requests sent and not answered
    usars    \* the usage reports the last session request collected

vars == <<up, nnodes, nodeId, nodeAddr, nodeSess, rnodes, nsess, owner, rseid,
          free, book, kern, pending, usars>>

Count(S) == Cardinality(S)

(* The tables of a new Sess (LocalNode.NewSess), and of gtp5g for it. *)
NoBook == [pdrs |-> {}, rel |-> [p \in PDRs |-> {}], urrs |-> {}, removed |-> {},
           ref |-> [u \in URRs |-> 0], seqn |-> [u \in URRs |-> 0], rules |-> {}]
NoRemoteID == CHOOSE s \in RSEIDs : TRUE   \* of a nil slot
NoKern == [pdrs |-> {}, urrs |-> {}, rules |-> {}]

(* What one request carries: the rule IEs of a modification. *)
PdrMap == UNION {[S -> SUBSET URRs] : S \in SUBSET PDRs}
IEs == [crRule : SUBSET Rules, crURR : SUBSET URRs, crPDR : PdrMap,
        rmRule : SUBSET Rules, rmURR : SUBSET URRs, rmPDR : SUBSET PDRs,
        upURR : SUBSET URRs, upPDR : PdrMap, quURR : SUBSET URRs]
Size(r) == Count(r.crRule) + Count(r.crURR) + Count(DOMAIN r.crPDR) + Count(r.rmRule)
           + Count(r.rmURR) + Count(r.rmPDR) + Count(r.upURR) + Count(DOMAIN r.upPDR)
           + Count(r.quURR)
Requests == {r \in IEs : Size(r) <= MaxIEs}
Creations == {r \in Requests : /\ r.rmRule = {} /\ r.rmURR = {} /\ r.rmPDR = {}
                               /\ r.upURR = {} /\ DOMAIN r.upPDR = {} /\ r.quURR = {}}

-----------------------------------------------------------------------------
(* The methods of Sess, on x = [b: its tables, k: gtp5g's, us: the usage     *)
(* reports collected], where gtp5g refuses the calls for the IDs in f and    *)
(* has nothing to report for the URRs in quiet.                              *)

CreateRule(x, S, f) == [x EXCEPT !.b.rules = @ \cup S, !.k.rules = @ \cup (S \ f)]

RemoveRule(x, S, f) ==
    LET done == (S \cap x.b.rules \cap x.k.rules) \ f
    IN  [x EXCEPT !.b.rules = @ \ done, !.k.rules = @ \ done]

CreateURR(x, S, f) ==
    [x EXCEPT !.b.urrs = @ \cup S,
              !.b.removed = @ \ S,
              !.b.ref = [u \in URRs |-> IF u \in S THEN 0 ELSE @[u]],
              !.b.seqn = [u \in URRs |-> IF u \in S THEN 0 ELSE @[u]],
              !.k.urrs = @ \cup (S \ f)]

RemoveURR(x, S, f, quiet) ==
    LET found == S \cap x.b.urrs
        done == (found \cap x.k.urrs) \ f
    IN  [x EXCEPT !.b.removed = @ \cup found,
                  !.k.urrs = @ \ done,
                  !.us = @ \cup {<<"remove", u>> : u \in done \ quiet}]

UpdateURR(x, S, f, quiet) ==
    [x EXCEPT !.us = @ \cup {<<"update", u>> : u \in ((S \cap x.b.urrs \cap x.k.urrs) \ f) \ quiet}]

QueryURR(x, S, f, quiet) ==
    [x EXCEPT !.us = @ \cup {<<"query", u>> : u \in ((S \cap x.b.urrs \cap x.k.urrs) \ f) \ quiet}]

CreatePDR(x, m, f) ==
    [x EXCEPT !.b.pdrs = @ \cup DOMAIN m,
              !.b.rel = [p \in PDRs |-> IF p \in DOMAIN m THEN m[p] ELSE @[p]],
              !.b.ref = [u \in URRs |->
                            IF u \in x.b.urrs
                            THEN @[u] + Count({p \in DOMAIN m : u \in m[p]}) ELSE @[u]],
              !.k.pdrs = @ \cup (DOMAIN m \ f)]

(* diassociateURR for every pair (p, u) of the dropped relation, drop[p]     *)
(* being the URRs PDR p loses: a count that reaches 0 queries the URR.       *)
diassociateURR(x, drop, f, quiet) ==
    LET n(u) == Count({p \in PDRs : u \in drop[p]})
        last == {u \in x.b.urrs : n(u) > 0 /\ x.b.ref[u] > 0 /\ x.b.ref[u] <= n(u)}
    IN  [x EXCEPT !.b.ref = [u \in URRs |->
                                IF u \notin x.b.urrs THEN @[u]
                                ELSE IF n(u) >= @[u] THEN 0 ELSE @[u] - n(u)],
                  !.us = @ \cup {<<"last", u>> : u \in ((last \cap x.k.urrs) \ f) \ quiet}]

(* Faulty variant: a removed PDR keeps its share of refPdrNum.               *)
RemovePDR_NoDissociation(x, S, f, quiet) ==
    LET done == (S \cap x.b.pdrs \cap x.k.pdrs) \ f
    IN  [x EXCEPT !.b.pdrs = @ \ done,
                  !.b.rel = [p \in PDRs |-> IF p \in done THEN {} ELSE @[p]],
                  !.k.pdrs = @ \ done]

(* Faulty variant: a PDR leaves the table before gtp5g has removed it.        *)
RemovePDR_ForgetsFirst(x, S, f, quiet) ==
    LET found == S \cap x.b.pdrs
        y == diassociateURR(x, [p \in PDRs |-> IF p \in found THEN x.b.rel[p] ELSE {}], f, quiet)
    IN  [y EXCEPT !.b.pdrs = @ \ found,
                  !.b.rel = [p \in PDRs |-> IF p \in found THEN {} ELSE @[p]],
                  !.k.pdrs = @ \ (found \ f)]

RemovePDR(x, S, f, quiet) ==
    LET done == (S \cap x.b.pdrs \cap x.k.pdrs) \ f
        y == diassociateURR(x, [p \in PDRs |-> IF p \in done THEN x.b.rel[p] ELSE {}], f, quiet)
    IN  [y EXCEPT !.b.pdrs = @ \ done,
                  !.b.rel = [p \in PDRs |-> IF p \in done THEN {} ELSE @[p]],
                  !.k.pdrs = @ \ done]

UpdatePDR(x, m, f, quiet) ==
    LET done == (DOMAIN m \cap x.b.pdrs \cap x.k.pdrs) \ f
        y == diassociateURR(x, [p \in PDRs |-> IF p \in done THEN x.b.rel[p] \ m[p] ELSE {}],
                            f, quiet)
    IN  [y EXCEPT !.b.rel = [p \in PDRs |-> IF p \in done THEN m[p] ELSE @[p]]]

(* Faulty variant: Close forgets the PDRs.                                   *)
Close_KeepsPDRs(x, f, quiet) == RemoveURR(RemoveRule(x, x.b.rules, f), x.b.urrs, f, quiet)

(* Sess.Close: everything the tables still name is removed from gtp5g, the   *)
(* PDRs last.                                                                *)
Close(x, f, quiet) ==
    LET y == RemoveURR(RemoveRule(x, x.b.rules, f), x.b.urrs, f, quiet)
    IN  RemovePDR(y, y.b.pdrs, f, quiet)

Create(x, r, f) == CreatePDR(CreateURR(CreateRule(x, r.crRule, f), r.crURR, f), r.crPDR, f)

Modify(x, r, f, quiet) ==
    LET y == RemovePDR(RemoveURR(RemoveRule(Create(x, r, f), r.rmRule, f), r.rmURR, f, quiet),
                       r.rmPDR, f, quiet)
    IN  QueryURR(UpdatePDR(UpdateURR(y, r.upURR, f, quiet), r.upPDR, f, quiet), r.quURR, f, quiet)

(* The reports of a response: each takes the next URSEQN of its URR; the     *)
(* first report of a removed URR drops its URRInfo and with it the others.   *)
Reported(x, u) == {m \in x.us : m[2] = u}
Emit(x) ==
    LET sent == {u \in x.b.urrs : Reported(x, u) # {}}
        gone == sent \cap x.b.removed
        n(u) == IF u \in gone THEN 1 ELSE IF u \in sent THEN Count(Reported(x, u)) ELSE 0
    IN  [x.b EXCEPT !.urrs = @ \ gone,
                    !.removed = @ \ gone,
                    !.seqn = [u \in URRs |-> @[u] + n(u)]]

-----------------------------------------------------------------------------
Init ==
    /\ up = TRUE
    /\ nnodes = 0
    /\ nodeId = [h \in Handles |-> CHOOSE n \in NodeIDs : TRUE]
    /\ nodeAddr = nodeId
    /\ nodeSess = [h \in Handles |-> {}]
    /\ rnodes = [n \in NodeIDs |-> 0]
    /\ nsess = 0
    /\ owner = [i \in SEIDs |-> 0]
    /\ rseid = [i \in SEIDs |-> NoRemoteID]
    /\ free = <<>>
    /\ book = [i \in SEIDs |-> NoBook]
    /\ kern = [i \in SEIDs |-> NoKern]
    /\ pending = {}
    /\ usars = {}

nodeVars == <<nnodes, nodeId, nodeAddr, rnodes>>
tableVars == <<nodeSess, nsess, owner, rseid, free>>

Sessions(S, f, quiet) ==
    [i \in SEIDs |-> IF i \in S THEN Close([b |-> book[i], k |-> kern[i], us |-> {}], f, quiet)
                     ELSE [b |-> book[i], k |-> kern[i], us |-> {}]]

(* The orders in which Go's map iteration may visit the finite set S.       *)
Orders(S) == {o \in UNION {[1..n -> SEIDs] : n \in 0..MaxSess} :
                /\ {o[j] : j \in DOMAIN o} = S
                /\ \A j, k \in DOMAIN o : o[j] = o[k] => j = k}

(* Faulty variant: the index of the slot, not its SEID, goes on the stack.   *)
DeleteSess_PushesIndex(S, o, f, quiet) ==
    LET closed == Sessions(S, f, quiet)
    IN  /\ owner' = [i \in SEIDs |-> IF i \in S THEN 0 ELSE owner[i]]
        /\ free' = free \o [j \in DOMAIN o |-> o[j] - 1]
        /\ book' = [i \in SEIDs |-> IF i \in S THEN NoBook ELSE book[i]]
        /\ kern' = [i \in SEIDs |-> closed[i].k]
        /\ usars' = UNION {closed[i].us : i \in S}
        /\ rseid' = [i \in SEIDs |-> IF i \in S THEN NoRemoteID ELSE rseid[i]]
        /\ UNCHANGED nsess

(* LocalNode.DeleteSess of the slots in S, in the order o.                  *)
DeleteSess(S, o, f, quiet) ==
    LET closed == Sessions(S, f, quiet)
    IN  /\ owner' = [i \in SEIDs |-> IF i \in S THEN 0 ELSE owner[i]]
        /\ free' = free \o o
        /\ book' = [i \in SEIDs |-> IF i \in S THEN NoBook ELSE book[i]]
        /\ kern' = [i \in SEIDs |-> closed[i].k]
        /\ usars' = UNION {closed[i].us : i \in S}
        /\ rseid' = [i \in SEIDs |-> IF i \in S THEN NoRemoteID ELSE rseid[i]]
        /\ UNCHANGED nsess

(* Faulty variant: the existing association is replaced without a Reset.     *)
handleAssociationSetupRequest_NoReset(n, f, quiet) ==
    LET h == nnodes + 1
    IN  /\ up
        /\ h \in Handles
        /\ nnodes' = h
        /\ nodeId' = [nodeId EXCEPT ![h] = n]
        /\ nodeAddr' = [nodeAddr EXCEPT ![h] = n]
        /\ rnodes' = [rnodes EXCEPT ![n] = h]
        /\ UNCHANGED <<up, tableVars, book, kern, pending, usars>>

(* handleAssociationSetupRequest: an existing association of the node ID is  *)
(* reset, which deletes its sessions, and a new RemoteNode replaces it.      *)
handleAssociationSetupRequest(n, f, quiet) ==
    LET old == rnodes[n]
        S == IF old = 0 THEN {} ELSE nodeSess[old]
        h == nnodes + 1
    IN  /\ up
        /\ h \in Handles
        /\ \E o \in Orders(S) : DeleteSess(S, o, f, quiet)
        /\ nodeSess' = [g \in Handles |-> IF g = h \/ g = old THEN {} ELSE nodeSess[g]]
        /\ nnodes' = h
        /\ nodeId' = [nodeId EXCEPT ![h] = n]
        /\ nodeAddr' = [nodeAddr EXCEPT ![h] = n]
        /\ rnodes' = [rnodes EXCEPT ![n] = h]
        /\ UNCHANGED <<up, pending>>

(* Faulty variants: the SEID taken is not popped; the last SEID pushed is    *)
(* taken but the first one is dropped from the stack.                        *)
NewSess_NoPop(h, s) ==
    LET i == IF free # <<>> THEN free[Len(free)] ELSE nsess + 1
    IN  /\ i \in SEIDs
        /\ owner' = [owner EXCEPT ![i] = h]
        /\ rseid' = [rseid EXCEPT ![i] = s]
        /\ nodeSess' = [nodeSess EXCEPT ![h] = @ \cup {i}]
        /\ nsess' = IF free # <<>> THEN nsess ELSE nsess + 1
        /\ UNCHANGED free
NewSess_PopsBottom(h, s) ==
    LET i == IF free # <<>> THEN free[Len(free)] ELSE nsess + 1
    IN  /\ i \in SEIDs
        /\ owner' = [owner EXCEPT ![i] = h]
        /\ rseid' = [rseid EXCEPT ![i] = s]
        /\ nodeSess' = [nodeSess EXCEPT ![h] = @ \cup {i}]
        /\ nsess' = IF free # <<>> THEN nsess ELSE nsess + 1
        /\ free' = IF free # <<>> THEN Tail(free) ELSE free

(* LocalNode.NewSess: the top of the free stack, or a new slot.              *)
NewSess(h, s) ==
    /\ \/ /\ free # <<>>
          /\ owner' = [owner EXCEPT ![free[Len(free)]] = h]
          /\ rseid' = [rseid EXCEPT ![free[Len(free)]] = s]
          /\ nodeSess' = [nodeSess EXCEPT ![h] = @ \cup {free[Len(free)]}]
          /\ free' = SubSeq(free, 1, Len(free) - 1)
          /\ UNCHANGED nsess
       \/ /\ free = <<>>
          /\ nsess < MaxSess
          /\ nsess' = nsess + 1
          /\ owner' = [owner EXCEPT ![nsess + 1] = h]
          /\ rseid' = [rseid EXCEPT ![nsess + 1] = s]
          /\ nodeSess' = [nodeSess EXCEPT ![h] = @ \cup {nsess + 1}]
          /\ UNCHANGED free

NewID == IF free # <<>> THEN free[Len(free)] ELSE nsess + 1

(* handleSessionEstablishmentRequest; a node ID without association is       *)
(* logged and the request left unanswered, which changes nothing.            *)
handleSessionEstablishmentRequest(n, s, r, f) ==
    /\ up
    /\ rnodes[n] # 0
    /\ NewSess(rnodes[n], s)
    /\ LET i == NewID
           x == Create([b |-> NoBook, k |-> kern[i], us |-> {}], r, f)
       IN  /\ book' = [book EXCEPT ![i] = x.b]
           /\ kern' = [kern EXCEPT ![i] = x.k]
    /\ usars' = {}
    /\ UNCHANGED <<up, nodeVars, pending>>

(* UpdateNodeID: the RemoteNode object g is renamed and registered under the *)
(* new ID, whatever was registered there.                                    *)
UpdateNodeID(g, n) ==
    /\ nodeId' = [nodeId EXCEPT ![g] = n]
    /\ rnodes' = [[rnodes EXCEPT ![nodeId[g]] = 0] EXCEPT ![n] = g]
    /\ UNCHANGED <<nnodes, nodeAddr>>

(* handleSessionModificationRequest of a live session; n is the NodeID IE of *)
(* a takeover. An unknown SEID is answered with an error and changes nothing.*)
handleSessionModificationRequest(i, r, f, quiet) ==
    /\ up
    /\ owner[i] # 0
    /\ DOMAIN r.crPDR \cap book[i].pdrs = {}   \* the SMF allocates fresh PDR IDs
    /\ \/ UNCHANGED nodeVars
       \/ Takeover /\ \E n \in NodeIDs : UpdateNodeID(owner[i], n)
    /\ LET x == Modify([b |-> book[i], k |-> kern[i], us |-> {}], r, f, quiet)
           e == Emit(x)
       IN  /\ \A u \in URRs : e.seqn[u] <= MaxSeq
           /\ book' = [book EXCEPT ![i] = e]
           /\ kern' = [kern EXCEPT ![i] = x.k]
           /\ usars' = x.us
    /\ UNCHANGED <<up, tableVars, pending>>

(* Faulty variant: the SEID stays in the map of its RemoteNode.              *)
deleteSession_KeepsKey(i, f, quiet) ==
    /\ DeleteSess({i}, <<i>>, f, quiet)
    /\ UNCHANGED nodeSess

(* RemoteNode.DeleteSess of the session in slot i.                           *)
deleteSession(i, f, quiet) ==
    /\ DeleteSess({i}, <<i>>, f, quiet)
    /\ nodeSess' = [nodeSess EXCEPT ![owner[i]] = @ \ {i}]

handleSessionDeletionRequest(i, f, quiet) ==
    /\ up
    /\ owner[i] # 0
    /\ deleteSession(i, f, quiet)
    /\ UNCHANGED <<up, nodeVars, pending>>

(* ServeReport of a usage report the perio or netlink server queued for a    *)
(* local SEID: it goes to the address named by the owner's node ID. A SEID   *)
(* without a session is logged and dropped.                                  *)
ServeReport(i, S) ==
    /\ up
    /\ owner[i] # 0
    /\ \A u \in S : book[i].seqn[u] < MaxSeq
    /\ pending' = pending \cup {[rseid |-> rseid[i], addr |-> nodeId[owner[i]]]}
    /\ book' = [book EXCEPT ![i].seqn =
                   [u \in URRs |-> IF u \in S \cap book[i].urrs THEN @[u] + 1 ELSE @[u]]]
    /\ UNCHANGED <<up, nodeVars, tableVars, kern, usars>>

(* LocalNode.RemoteSess scans the slots in order and dereferences each, so a *)
(* nil slot before the match panics.                                         *)
Matches(i, m) == /\ owner[i] # 0
                 /\ rseid[i] = m.rseid
                 /\ nodeAddr[owner[i]] = m.addr
Scanned(m) == {i \in 1..nsess : \A j \in 1..nsess : Matches(j, m) => i <= j}
RemoteSessPanics(m) == \E i \in Scanned(m) : owner[i] = 0

(* handleSessionReportResponse with SEID 0: the SMF has no such session, so  *)
(* the UPF deletes it; any other response changes nothing.                   *)
handleSessionReportResponse(m, noSession, f) ==
    /\ up
    /\ pending' = pending \ {m}
    /\ UNCHANGED nodeVars
    /\ \/ /\ noSession /\ RemoteSessPanics(m)
          /\ up' = FALSE
          /\ UNCHANGED <<tableVars, book, kern, usars>>
       \/ /\ noSession /\ ~RemoteSessPanics(m)
          /\ \E i \in Scanned(m) : Matches(i, m) /\ deleteSession(i, f, {})
          /\ UNCHANGED up
       \/ /\ ~noSession \/ (~RemoteSessPanics(m) /\ \A i \in Scanned(m) : ~Matches(i, m))
          /\ UNCHANGED <<up, tableVars, book, kern, usars>>

(* The transaction of a report request gives up (handleSessionReportRequestTimeout). *)
handleSessionReportRequestTimeout(m) ==
    /\ up
    /\ pending' = pending \ {m}
    /\ UNCHANGED <<up, nodeVars, tableVars, book, kern, usars>>

Next ==
    \/ \E f \in SUBSET Flaky, quiet \in SUBSET URRs :
         \/ \E n \in NodeIDs : handleAssociationSetupRequest(n, f, quiet)
         \/ \E i \in SEIDs : \/ \E r \in Requests : handleSessionModificationRequest(i, r, f, quiet)
                             \/ handleSessionDeletionRequest(i, f, quiet)
    \/ \E f \in SUBSET Flaky :
         \/ \E n \in NodeIDs, s \in RSEIDs, r \in Creations :
              handleSessionEstablishmentRequest(n, s, r, f)
         \/ \E m \in pending, noSession \in BOOLEAN : handleSessionReportResponse(m, noSession, f)
    \/ \E i \in SEIDs, S \in SUBSET URRs : ServeReport(i, S)
    \/ \E m \in pending : handleSessionReportRequestTimeout(m)

Spec == Init /\ [][Next]_vars

-----------------------------------------------------------------------------
(* The shape of the state: tables of sessions, nodes and rules.              *)
Books == [pdrs : SUBSET PDRs, rel : [PDRs -> SUBSET URRs], urrs : SUBSET URRs,
          removed : SUBSET URRs, ref : [URRs -> Nat], seqn : [URRs -> Nat], rules : SUBSET Rules]
Kerns == [pdrs : SUBSET PDRs, urrs : SUBSET URRs, rules : SUBSET Rules]
Reasons == {"remove", "update", "query", "last"}
TypeOK ==
    /\ up \in BOOLEAN
    /\ nnodes \in 0..MaxNodes
    /\ nodeId \in [Handles -> NodeIDs] /\ nodeAddr \in [Handles -> NodeIDs]
    /\ nodeSess \in [Handles -> SUBSET SEIDs]
    /\ rnodes \in [NodeIDs -> 0..MaxNodes]
    /\ nsess \in 0..MaxSess
    /\ owner \in [SEIDs -> 0..MaxNodes]
    /\ rseid \in [SEIDs -> RSEIDs]
    /\ free \in Seq(SEIDs)
    /\ book \in [SEIDs -> Books]
    /\ kern \in [SEIDs -> Kerns]
    /\ pending \subseteq [rseid : RSEIDs, addr : NodeIDs]
    /\ usars \subseteq (Reasons \X URRs)

(* LocalNode.free holds every nil slot of LocalNode.sess, nothing else, and  *)
(* nothing twice: whatever order sessions are created, deleted, reset by an  *)
(* association or dropped on a report response, a local SEID is neither lost *)
(* nor on the stack twice (node.go, NewSess and DeleteSess).                 *)
FreeListExact ==
    /\ {free[j] : j \in 1..Len(free)} = {i \in 1..nsess : owner[i] = 0}
    /\ \A j, k \in 1..Len(free) : free[j] = free[k] => j = k
    /\ \A i \in SEIDs : i > nsess => owner[i] = 0

(* A slot of LocalNode.sess points at the RemoteNode whose sess map holds    *)
(* it and at no other; RemoteNode.DeleteSess, which silently ignores a SEID  *)
(* that is not in its map, therefore always deletes.                         *)
OwnerAgrees ==
    /\ \A i \in SEIDs, h \in Handles : i \in nodeSess[h] <=> owner[i] = h
    /\ \A i \in SEIDs : owner[i] <= nnodes
    /\ \A n \in NodeIDs : rnodes[n] <= nnodes

(* No step turns one live session into another: a local SEID is handed out   *)
(* again only after its session was deleted (test "recycle LocalID").        *)
LiveSessionKept ==
    [][\A i \in SEIDs : owner[i] # 0 /\ owner'[i] # 0
                           => owner'[i] = owner[i] /\ rseid'[i] = rseid[i]]_vars

(* Of the rules for which gtp5g refuses no call it holds exactly those the   *)
(* sessions' tables name, minus the URRs already removed, and none for a     *)
(* SEID that is free: a recycled SEID starts from a clean data path, and a   *)
(* refused call for one rule leaves the others of the request alone.         *)
KernelMatchesTables ==
    LET Tables(i) == IF owner[i] = 0 THEN NoKern
                     ELSE [pdrs |-> book[i].pdrs, urrs |-> book[i].urrs \ book[i].removed,
                           rules |-> book[i].rules]
    IN  \A i \in SEIDs : \A kind \in {"pdrs", "urrs", "rules"} :
            kern[i][kind] \ Flaky = Tables(i)[kind] \ Flaky

(* URRInfo.refPdrNum never exceeds the PDRs that name the URR, so the final  *)
(* usage report of a URR is never held back by a PDR that is gone.           *)
RefNeverAbovePdrs ==
    \A i \in SEIDs, u \in URRs :
        owner[i] # 0 /\ u \in book[i].urrs
            => book[i].ref[u] <= Count({p \in book[i].pdrs : u \in book[i].rel[p]})

(* A rule that gtp5g refuses to remove stays in the session's tables, so that *)
(* a later removal and Close try again: no step of a live session makes gtp5g *)
(* hold a PDR, FAR, QER or BAR that the tables do not name.                   *)
Named(i) == kern[i].pdrs \subseteq book[i].pdrs /\ kern[i].rules \subseteq book[i].rules
FailedRemovalKept ==
    [][\A i \in SEIDs : owner[i] # 0 /\ owner'[i] # 0 /\ Named(i) => Named(i)']_vars

(* After the set-up of an association for a node ID no session of that node  *)
(* ID is left (association.go: "deleting the existing PFCP association and   *)
(* associated PFCP sessions ... regardless of the Recovery Timestamp").      *)
SetupClearsNode ==
    [][\A n \in NodeIDs : nnodes' # nnodes /\ rnodes'[n] = nnodes'
          => \A i \in SEIDs : owner'[i] # 0 => nodeId'[owner'[i]] # n]_vars

=============================================================================
