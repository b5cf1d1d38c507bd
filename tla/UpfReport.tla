----------------------------- MODULE UpfReport -----------------------------
(***************************************************************************)
(* The goroutines of the UPF around its reports, and the channels between  *)
(* them:                                                                   *)
(*   main    PfcpServer.main, the one goroutine of the PFCP server;        *)
(*   perio   perio.Server.Serve, with a ticker goroutine per period;       *)
(*   mux     the netlink multiplexer (external), which delivers both the   *)
(*           answers to netlink calls and the kernel's own reports.        *)
(* main sends events to perio over evtCh, perio and mux send reports to    *)
(* main over srCh.  Both channels are bounded and every send blocks.       *)
(***************************************************************************)
EXTENDS Naturals, Sequences

CONSTANTS
    Urrs,      \* URRs, one for each session: an (SEID, URR ID) pair
    Periods,   \* measurement periods
    EvtLen,    \* EVENT_CHANNEL_LEN
    SrLen,     \* REPORT_CHANNEL_LEN
    QLen,      \* length of a PDR's packet buffer
    Shutdown   \* TRUE: the UPF may be told to stop

None == "none"     \* no such URR
NoPerio == "event" \* a URR without periodic reports
ASSUME ReportAssumption ==
    /\ EvtLen \in Nat \ {0} /\ SrLen \in Nat \ {0} /\ QLen \in Nat \ {0} /\ Shutdown \in BOOLEAN
    /\ {None, NoPerio} \cap Periods = {}

VARIABLES
    known,   \* Sess.URRIDs: the period each URR was created with
    kernel,  \* URRs the kernel module holds
    far,     \* apply action of the FAR in the kernel; FORW stands for DROP too
    q,       \* packets in Sess.q of the FAR's PDR
    late,    \* TRUE: a packet was pushed after the FAR stopped buffering
    todo,    \* what main still has to do for the request in hand
    called,  \* TRUE: main waits for the answer to a netlink call
    evtCh, srCh,
    groups,  \* perioList: period -> URRs
    ticker,  \* the ticker goroutine of each period: off, in its select, or sending
    perio,   \* [pc, p, rest] of Serve
    mux,     \* [pc, sr] of the netlink multiplexer
    stage,   \* of the shutdown
    closed,  \* channels that are closed
    panic    \* TRUE: a goroutine has sent on a closed channel

vars == <<known, kernel, far, q, late, todo, called, evtCh, srCh, groups, ticker, perio, mux,
          stage, closed, panic>>
table == <<known, kernel, far, q, late>>
rest == <<groups, ticker, perio, mux>>
life == <<stage, closed, panic>>

NoSr == [kind |-> "none", u |-> None]
Usa(u) == [kind |-> "usa", u |-> u]
Dld == [kind |-> "dld", u |-> None]
Ev(t, u, p) == [type |-> t, u |-> u, p |-> p]

Init ==
    /\ known = [u \in Urrs |-> None] /\ kernel = {}
    /\ far = "FORW" /\ q = 0 /\ late = FALSE
    /\ todo = <<>> /\ called = FALSE
    /\ evtCh = <<>> /\ srCh = <<>>
    /\ groups = [p \in Periods |-> {}]
    /\ ticker = [p \in Periods |-> "off"]
    /\ perio = [pc |-> "range", p |-> None, rest |-> {}]
    /\ mux = [pc |-> "idle", sr |-> NoSr]
    /\ stage = "run" /\ closed = {} /\ panic = FALSE

(* A send on a channel: it blocks when the channel is full, and panics when  *)
(* it is closed.                                                             *)
SendEvt(e) == /\ "evtCh" \notin closed /\ Len(evtCh) < EvtLen
              /\ evtCh' = Append(evtCh, e) /\ UNCHANGED panic
SendSr(r) == /\ "srCh" \notin closed /\ Len(srCh) < SrLen
             /\ srCh' = Append(srCh, r) /\ UNCHANGED panic
PanicIf(ch) == ch \in closed /\ panic' = TRUE /\ UNCHANGED <<evtCh, srCh>>

-----------------------------------------------------------------------------
(* main: the requests of the SMF.  What a handler does outside its own       *)
(* tables is a list of steps.                                                *)
Step(op, u, p) == [op |-> op, u |-> u, p |-> p]
Idle == todo = <<>> /\ "srCh" \notin closed

(* Faulty variant: the timer of the URR is not deleted.                      *)
RemoveURR_KeepsTimer(u) ==
    /\ Idle /\ known[u] # None
    /\ known' = [known EXCEPT ![u] = None]
    /\ todo' = <<Step("remove", u, None)>>
    /\ UNCHANGED <<kernel, far, q, late, called, evtCh, srCh, rest, life>>

(* The timer is added before the kernel is asked, and stays if it refuses.   *)
CreateURR(u, p) ==
    /\ Idle /\ known[u] = None
    /\ known' = [known EXCEPT ![u] = p]
    /\ todo' = IF p = NoPerio THEN <<Step("create", u, p)>>
               ELSE <<Step("add", u, p), Step("create", u, p)>>
    /\ UNCHANGED <<kernel, far, q, late, called, evtCh, srCh, rest, life>>

RemoveURR(u) ==
    /\ Idle /\ known[u] # None
    /\ known' = [known EXCEPT ![u] = None]
    /\ todo' = <<Step("del", u, None), Step("remove", u, None)>>
    /\ UNCHANGED <<kernel, far, q, late, called, evtCh, srCh, rest, life>>

(* Faulty variant: the FAR is changed first.                                 *)
UpdateFAR_SetFirst(a) ==
    /\ Idle
    /\ todo' = <<Step("set", None, a), Step("get", None, None), Step("pop", None, a)>>
    /\ UNCHANGED <<table, called, evtCh, srCh, rest, life>>

(* applyAction reads the FAR and its PDRs, empties the buffer if the FAR was *)
(* buffering, and the FAR changes at the end.                                *)
UpdateFAR(a) ==
    /\ Idle
    /\ todo' = <<Step("get", None, None), Step("pop", None, a), Step("set", None, a)>>
    /\ UNCHANGED <<table, called, evtCh, srCh, rest, life>>

(* AddPeriodReportTimer and DelPeriodReportTimer.                            *)
MainSend ==
    /\ todo # <<>> /\ Head(todo).op \in {"add", "del"}
    /\ \/ SendEvt(Ev(Head(todo).op, Head(todo).u, Head(todo).p)) /\ todo' = Tail(todo)
          /\ UNCHANGED srCh
       \/ PanicIf("evtCh") /\ UNCHANGED todo
    /\ UNCHANGED <<table, called, rest, stage, closed>>

(* A netlink call: the kernel acts at once (or refuses to create) ...        *)
MainCall ==
    /\ todo # <<>> /\ ~called /\ Head(todo).op \in {"create", "remove", "get", "set"}
    /\ called' = TRUE
    /\ \/ Head(todo).op = "create" /\ kernel' = kernel \cup {Head(todo).u} /\ UNCHANGED far
       \/ Head(todo).op = "remove" /\ kernel' = kernel \ {Head(todo).u} /\ UNCHANGED far
       \/ Head(todo).op = "set" /\ far' = Head(todo).p /\ UNCHANGED kernel
       \/ Head(todo).op \in {"get", "create"} /\ UNCHANGED <<kernel, far>>
    /\ UNCHANGED <<known, q, late, todo, evtCh, srCh, rest, life>>

(* ... and the answer comes when mux is free to deliver it.                  *)
MuxFree == mux.pc \in {"idle", "exit"}
MainReturn ==
    /\ called /\ MuxFree
    /\ called' = FALSE /\ todo' = Tail(todo)
    /\ UNCHANGED <<table, evtCh, srCh, rest, life>>

MainPop ==
    /\ todo # <<>> /\ Head(todo).op = "pop"
    /\ IF far = "BUFF" /\ Head(todo).p # "BUFF" THEN q' = 0 /\ late' = FALSE ELSE UNCHANGED <<q, late>>
    /\ todo' = Tail(todo)
    /\ UNCHANGED <<known, kernel, far, called, evtCh, srCh, rest, life>>

(* Faulty variant: a full buffer grows.                                      *)
ServeReport_NoDrop ==
    /\ Idle /\ srCh # <<>>
    /\ srCh' = Tail(srCh)
    /\ q' = IF Head(srCh).kind = "dld" THEN q + 1 ELSE q
    /\ UNCHANGED <<known, kernel, far, late, todo, called, evtCh, rest, life>>

(* ServeReport: a usage report of a URR that is gone is left out, a packet   *)
(* is pushed into the buffer or, if that is full, dropped.                   *)
ServeReport ==
    /\ Idle /\ srCh # <<>>
    /\ srCh' = Tail(srCh)
    /\ \/ Head(srCh).kind = "usa" /\ UNCHANGED <<q, late>>
       \/ /\ Head(srCh).kind = "dld"
          /\ q' = IF q < QLen THEN q + 1 ELSE q
          /\ late' = (late \/ far # "BUFF")
    /\ UNCHANGED <<known, kernel, far, todo, called, evtCh, rest, life>>

-----------------------------------------------------------------------------
(* perio.Server.Serve.                                                       *)
Take(type) == /\ perio.pc = "range" /\ evtCh # <<>> /\ Head(evtCh).type = type
              /\ evtCh' = Tail(evtCh)
Quiet == UNCHANGED <<table, todo, called, srCh, mux, life>>

PerioAdd ==
    LET p == Head(evtCh).p
    IN  /\ Take("add")
        /\ groups' = [groups EXCEPT ![p] = @ \cup {Head(evtCh).u}]
        /\ ticker' = [ticker EXCEPT ![p] = IF @ = "off" THEN "wait" ELSE @]
        /\ UNCHANGED perio /\ Quiet

(* Faulty variant: an empty group keeps its ticker.                          *)
PerioDel_NoStop ==
    LET u == Head(evtCh).u
    IN  /\ Take("del")
        /\ groups' = [p \in Periods |-> groups[p] \ {u}]
        /\ UNCHANGED <<perio, ticker>> /\ Quiet

(* The URR leaves the first group that has it; an empty group is stopped.    *)
PerioDel ==
    LET u == Head(evtCh).u
    IN  /\ Take("del")
        /\ \/ \E p \in Periods :
                /\ u \in groups[p]
                /\ groups' = [groups EXCEPT ![p] = @ \ {u}]
                /\ perio' = IF groups[p] = {u} THEN [perio EXCEPT !.pc = "stop", !.p = p] ELSE perio
           \/ (\A p \in Periods : u \notin groups[p]) /\ UNCHANGED <<groups, perio>>
        /\ UNCHANGED ticker /\ Quiet

(* Faulty variant: the ticker looks at stopCh only with a tick in hand.      *)
stopTicker_AtTick ==
    /\ perio.pc = "stop" /\ ticker[perio.p] = "send"
    /\ ticker' = [ticker EXCEPT ![perio.p] = "off"]
    /\ perio' = [perio EXCEPT !.pc = "range", !.p = None]
    /\ UNCHANGED <<groups, evtCh>> /\ Quiet

(* stopTicker: a rendezvous with the ticker goroutine in its select.         *)
stopTicker ==
    /\ perio.pc = "stop" /\ ticker[perio.p] = "wait"
    /\ ticker' = [ticker EXCEPT ![perio.p] = "off"]
    /\ perio' = [perio EXCEPT !.pc = "range", !.p = None]
    /\ UNCHANGED <<groups, evtCh>> /\ Quiet

PerioTimeout ==
    /\ Take("timeout")
    /\ perio' = IF groups[Head(evtCh).p] = {} THEN perio
                ELSE [perio EXCEPT !.pc = "query", !.rest = groups[Head(evtCh).p]]
    /\ UNCHANGED <<groups, ticker>> /\ Quiet

(* queryURR: a netlink call of its own client, through the same mux; it may  *)
(* fail.  Reports come for the URRs the kernel still holds.                  *)
PerioQuery ==
    /\ perio.pc = "query"
    /\ \/ perio' = [perio EXCEPT !.pc = "reply", !.rest = @ \cap kernel]
       \/ perio' = [perio EXCEPT !.pc = "reply", !.rest = {}]
    /\ UNCHANGED <<groups, ticker, evtCh>> /\ Quiet
PerioReply ==
    /\ perio.pc = "reply" /\ MuxFree
    /\ perio' = [perio EXCEPT !.pc = IF perio.rest = {} THEN "range" ELSE "notify"]
    /\ UNCHANGED <<groups, ticker, evtCh>> /\ Quiet

(* NotifySessReport, for one session after the other.                        *)
PerioNotify ==
    /\ perio.pc = "notify"
    /\ \E u \in perio.rest :
         \/ /\ SendSr(Usa(u)) /\ UNCHANGED evtCh
            /\ perio' = [perio EXCEPT !.pc = IF perio.rest = {u} THEN "range" ELSE "notify",
                                      !.rest = @ \ {u}]
         \/ PanicIf("srCh") /\ UNCHANGED perio
    /\ UNCHANGED <<table, todo, called, groups, ticker, mux, stage, closed>>

(* TYPE_SERVER_CLOSE: all tickers are stopped, then evtCh is closed.         *)
PerioClose ==
    \/ /\ Take("close")
       /\ perio' = [perio EXCEPT !.pc = "close"]
       /\ UNCHANGED <<groups, ticker, closed>>
    \/ /\ perio.pc = "close"
       /\ \E p \in Periods : ticker[p] = "wait" /\ ticker' = [ticker EXCEPT ![p] = "off"]
                             /\ groups' = [groups EXCEPT ![p] = {}]
       /\ UNCHANGED <<perio, evtCh, closed>>
    \/ /\ perio.pc = "close" /\ \A p \in Periods : ticker[p] = "off"
       /\ perio' = [perio EXCEPT !.pc = "exit"]
       /\ closed' = closed \cup {"evtCh"}
       /\ UNCHANGED <<groups, ticker, evtCh>>

Tick(p) ==
    /\ ticker[p] = "wait"
    /\ ticker' = [ticker EXCEPT ![p] = "send"]
    /\ UNCHANGED <<table, todo, called, evtCh, srCh, groups, perio, mux, life>>
TickSend(p) ==
    /\ ticker[p] = "send"
    /\ SendEvt(Ev("timeout", None, p))
    /\ ticker' = [ticker EXCEPT ![p] = "wait"]
    /\ UNCHANGED <<table, todo, called, srCh, groups, perio, mux, stage, closed>>

-----------------------------------------------------------------------------
(* buffnetlink ServeMsg, in the goroutine of mux: a report of the kernel (a  *)
(* threshold, or a downlink packet of a FAR that buffers) goes to srCh.      *)
MuxReport ==
    /\ mux.pc = "idle"
    /\ \/ \E u \in kernel : mux' = [pc |-> "notify", sr |-> Usa(u)]
       \/ far = "BUFF" /\ mux' = [pc |-> "notify", sr |-> Dld]
    /\ UNCHANGED <<table, todo, called, evtCh, srCh, groups, ticker, perio, life>>
MuxNotify ==
    /\ mux.pc = "notify"
    /\ \/ SendSr(mux.sr) /\ UNCHANGED evtCh /\ mux' = [pc |-> "idle", sr |-> NoSr]
       \/ PanicIf("srCh") /\ UNCHANGED mux
    /\ UNCHANGED <<table, todo, called, groups, ticker, perio, stage, closed>>

(* Shutdown: PfcpServer.Stop closes the socket, at which main ends and       *)
(* closes its channels once it is back in its select; Gtp5g.Close ends mux   *)
(* and asks perio to close.                                                  *)
Stop ==
    /\ Shutdown /\ stage = "run"
    /\ stage' = "stop"
    /\ UNCHANGED <<table, todo, called, evtCh, srCh, rest, closed, panic>>
MainExit ==
    /\ stage # "run" /\ Idle
    /\ closed' = closed \cup {"srCh"}
    /\ UNCHANGED <<table, todo, called, evtCh, srCh, rest, stage, panic>>
MuxClose ==
    /\ stage = "stop" /\ mux.pc = "idle"
    /\ stage' = "close" /\ mux' = [mux EXCEPT !.pc = "exit"]
    /\ UNCHANGED <<table, todo, called, evtCh, srCh, groups, ticker, perio, closed, panic>>
Close ==
    /\ stage = "close"
    /\ SendEvt(Ev("close", None, None))
    /\ stage' = "done"
    /\ UNCHANGED <<table, todo, called, srCh, rest, closed>>

-----------------------------------------------------------------------------
Main == MainSend \/ MainCall \/ MainReturn \/ MainPop
Perio == \/ PerioAdd \/ PerioDel \/ stopTicker \/ PerioTimeout \/ PerioQuery \/ PerioReply
         \/ PerioNotify
         \/ PerioClose /\ UNCHANGED <<table, todo, called, srCh, mux, stage, panic>>
Work == ~panic /\ (Main \/ ServeReport \/ Perio \/ MuxNotify \/ \E p \in Periods : TickSend(p))
Request == \/ \E u \in Urrs : RemoveURR(u) \/ \E p \in Periods \cup {NoPerio} : CreateURR(u, p)
           \/ \E a \in {"BUFF", "FORW"} : UpdateFAR(a)
Next == \/ Work
        \/ ~panic /\ (Request \/ MuxReport \/ (\E p \in Periods : Tick(p))
                      \/ Stop \/ MainExit \/ MuxClose \/ Close)

Spec == Init /\ [][Next]_vars

-----------------------------------------------------------------------------
(* The shape of the state: the buffer and the channels keep their bounds.    *)
TypeOK ==
    /\ known \in [Urrs -> Periods \cup {None, NoPerio}] /\ kernel \subseteq Urrs
    /\ far \in {"BUFF", "FORW"} /\ q \in 0..QLen /\ late \in BOOLEAN
    /\ Len(todo) <= 3 /\ Len(evtCh) <= EvtLen /\ Len(srCh) <= SrLen
    /\ groups \in [Periods -> SUBSET Urrs]
    /\ ticker \in [Periods -> {"off", "wait", "send"}]
    /\ perio.pc \in {"range", "stop", "query", "reply", "notify", "close", "exit"}
    /\ mux.pc \in {"idle", "notify", "exit"}
    /\ stage \in {"run", "stop", "close", "done"} /\ closed \subseteq {"evtCh", "srCh"}

(* What the periodic reports of a URR will be once perio has worked off its  *)
(* channel and main its request: exactly what the session asked for, however *)
(* creations and removals overtake the ticks.  The last order about the URR  *)
(* decides; without one, the groups do.                                      *)
UnderWay == evtCh \o [i \in 1..Len(todo) |-> Ev(todo[i].op, todo[i].u, todo[i].p)]
Order(e, u) == e.u = u /\ e.type \in {"add", "del"}
Orders(e, k) == IF k \in Periods THEN e.type = "add" /\ e.p = k ELSE e.type = "del"
PerioFollows ==
    stage \in {"run", "stop", "close"} =>
        \A u \in Urrs :
            /\ \A i \in DOMAIN UnderWay :
                  /\ Order(UnderWay[i], u)
                  /\ \A j \in DOMAIN UnderWay : j > i => ~Order(UnderWay[j], u)
                  => Orders(UnderWay[i], known[u])
            /\ (\A i \in DOMAIN UnderWay : ~Order(UnderWay[i], u)) =>
                  \A p \in Periods : u \in groups[p] <=> known[u] = p

(* A period has a ticker goroutine exactly while a URR needs it, or while    *)
(* perio is about to stop it: none leaks and none is missing.                *)
TickerPerGroup ==
    \A p \in Periods : ticker[p] # "off" <=> groups[p] # {} \/ (perio.pc = "stop" /\ perio.p = p)

(* If every goroutine with something to do is blocked, a channel is full in  *)
(* the cycle: perio stops a ticker that cannot deliver its tick, or main is  *)
(* outside its select while srCh is full.  With room, nothing blocks.        *)
Blocked == ~panic /\ stage = "run" /\ (todo # <<>> \/ perio.pc # "range" \/ mux.pc = "notify")
           /\ ~ENABLED Work
OnlyFullChannelsBlock ==
    Blocked => \/ perio.pc = "stop" /\ ticker[perio.p] = "send" /\ Len(evtCh) = EvtLen
               \/ todo # <<>> /\ Len(srCh) = SrLen

(* A FAR that stops buffering leaves no packet behind but those that were    *)
(* still on their way to main.                                               *)
NoPacketLeftBehind == todo = <<>> /\ far # "BUFF" /\ q > 0 => late
=============================================================================
