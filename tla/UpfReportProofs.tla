--------------------------- MODULE UpfReportProofs ---------------------------
(***************************************************************************)
(* Proofs about UpfReport for any URRs, periods and channel lengths: the    *)
(* types and bounds, that a period has a ticker exactly while a URR needs   *)
(* it, that perio follows main's orders, and that a FAR that stops          *)
(* buffering leaves no packet behind.                                        *)
(***************************************************************************)
EXTENDS UpfReport, SequenceTheorems, TLAPS

Actions == {"BUFF", "FORW"}

(* What main may have to do: the rest of CreateURR, RemoveURR or UpdateFAR.  *)
Get == Step("get", None, None)
Pop(a) == Step("pop", None, a)
Set(a) == Step("set", None, a)
Jobs ==
    {<<>>}
    \cup (UNION {{<<Step("add", u, p), Step("create", u, p)>> : u \in Urrs} : p \in Periods})
    \cup (UNION {{<<Step("create", u, p)>> : u \in Urrs} : p \in Periods \cup {NoPerio}})
    \cup {<<Step("del", u, None), Step("remove", u, None)>> : u \in Urrs}
    \cup {<<Step("remove", u, None)>> : u \in Urrs}
    \cup {<<Get, Pop(a), Set(a)>> : a \in Actions}
    \cup {<<Pop(a), Set(a)>> : a \in Actions}
    \cup {<<Set(a)>> : a \in Actions}

Events ==
    [type : {"add"}, u : Urrs, p : Periods] \cup [type : {"del"}, u : Urrs, p : {None}]
    \cup [type : {"timeout"}, u : {None}, p : Periods] \cup [type : {"close"}, u : {None}, p : {None}]
Reports == {Dld} \cup {Usa(u) : u \in Urrs}
PerioStates == [pc : {"range", "stop", "query", "reply", "notify", "close", "exit"},
                p : Periods \cup {None}, rest : SUBSET Urrs]

Types ==
    /\ known \in [Urrs -> Periods \cup {None, NoPerio}] /\ kernel \subseteq Urrs
    /\ far \in Actions /\ q \in 0..QLen /\ late \in BOOLEAN
    /\ todo \in Jobs
    /\ called => todo # <<>> /\ Head(todo).op \in {"create", "remove", "get", "set"}
    /\ evtCh \in Seq(Events) /\ Len(evtCh) <= EvtLen
    /\ srCh \in Seq(Reports) /\ Len(srCh) <= SrLen
    /\ groups \in [Periods -> SUBSET Urrs]
    /\ ticker \in [Periods -> {"off", "wait", "send"}]
    /\ perio \in PerioStates
    /\ mux \in [pc : {"idle", "notify", "exit"}, sr : Reports \cup {NoSr}]
    /\ mux.pc = "notify" => mux.sr \in Reports
    /\ stage \in {"run", "stop", "close", "done"} /\ closed \subseteq {"evtCh", "srCh"}

(* Perio empties groups of its own accord only once it has been told to close. *)
Live == stage \in {"run", "stop", "close"}
Closing ==
    Live => /\ perio.pc \notin {"close", "exit"}
            /\ \A i \in DOMAIN evtCh : evtCh[i].type # "close"

(* The group that perio stops is empty and keeps its ticker until then.      *)
Tickers ==
    /\ TickerPerGroup
    /\ perio.pc = "stop" => perio.p \in Periods /\ groups[perio.p] = {}

(* No packet is in the buffer when UpdateFAR turns buffering off.            *)
Buffer == (far # "BUFF" \/ todo = <<Set("FORW")>>) /\ q > 0 => late

(* The orders about a URR: those in evtCh, and the one main is sending.      *)
At(i, u) == i \in DOMAIN evtCh /\ Order(evtCh[i], u)
LastAt(i, u) == At(i, u) /\ \A j \in DOMAIN evtCh : j > i => ~At(j, u)
FirstAt(i, u) == At(i, u) /\ \A j \in DOMAIN evtCh : j < i => ~At(j, u)
NextAt(i, j, u) == At(i, u) /\ At(j, u) /\ i < j /\ \A k \in DOMAIN evtCh : i < k /\ k < j => ~At(k, u)
NoneAt(u) == \A i \in DOMAIN evtCh : ~At(i, u)
Asked(u) == todo # <<>> /\ Head(todo).op \in {"add", "del"} /\ Head(todo).u = u
Now == Ev(Head(todo).op, Head(todo).u, Head(todo).p)
Ungrouped(u) == \A p \in Periods : u \notin groups[p]

(* An addition always comes when the URR is in no group: its last order was  *)
(* a deletion, or there is none and perio has it in none.                    *)
Timer(u) ==
    /\ \A p1, p2 \in Periods : u \in groups[p1] /\ u \in groups[p2] => p1 = p2
    /\ \A i \in DOMAIN evtCh : FirstAt(i, u) /\ evtCh[i].type = "add" => Ungrouped(u)
    /\ \A i, j \in DOMAIN evtCh : NextAt(i, j, u) /\ evtCh[j].type = "add" => evtCh[i].type = "del"
    /\ Asked(u) =>
         /\ Orders(Now, known[u])
         /\ Now.type = "add" => /\ NoneAt(u) => Ungrouped(u)
                                /\ \A i \in DOMAIN evtCh : LastAt(i, u) => evtCh[i].type = "del"
    /\ ~Asked(u) =>
         /\ \A i \in DOMAIN evtCh : LastAt(i, u) => Orders(evtCh[i], known[u])
         /\ NoneAt(u) =>
              \A p \in Periods : (u \in groups[p] => known[u] = p)
                                /\ (Live /\ known[u] = p => u \in groups[p])
Timers == \A u \in Urrs : Timer(u)

ReportInv == Types /\ Closing /\ Tickers /\ Buffer /\ Timers

-----------------------------------------------------------------------------
(* A job after its first step.                                               *)
LEMMA JobSteps ==
    ASSUME NEW j \in Jobs, j # <<>>
    PROVE  /\ Tail(j) \in Jobs
           /\ \/ \E u \in Urrs, p \in Periods : Head(j) = Step("add", u, p)
              \/ \E u \in Urrs, p \in Periods \cup {NoPerio} : Head(j) = Step("create", u, p)
              \/ \E u \in Urrs : Head(j) = Step("del", u, None) \/ Head(j) = Step("remove", u, None)
              \/ Head(j) = Get
              \/ \E a \in Actions : Head(j) = Pop(a) \/ Head(j) = Set(a)
           /\ Tail(j) # <<>> => Head(Tail(j)).op \notin {"add", "del"}
           /\ \A a \in Actions : Tail(j) = <<Set(a)>> => Head(j) = Pop(a)
           /\ \A a \in Actions : Head(j) = Set(a) => j = <<Set(a)>>
<1> DEFINE Goal(w) ==
             /\ Tail(w) \in Jobs
             /\ \/ \E u \in Urrs, p \in Periods : Head(w) = Step("add", u, p)
                \/ \E u \in Urrs, p \in Periods \cup {NoPerio} : Head(w) = Step("create", u, p)
                \/ \E u \in Urrs : Head(w) = Step("del", u, None) \/ Head(w) = Step("remove", u, None)
                \/ Head(w) = Get
                \/ \E a \in Actions : Head(w) = Pop(a) \/ Head(w) = Set(a)
             /\ Tail(w) # <<>> => Head(Tail(w)).op \notin {"add", "del"}
             /\ \A a \in Actions : Tail(w) = <<Set(a)>> => Head(w) = Pop(a)
             /\ \A a \in Actions : Head(w) = Set(a) => w = <<Set(a)>>
<1>0. /\ \A x : Head(<<x>>) = x /\ Tail(<<x>>) = <<>>
      /\ \A x, y : Head(<<x, y>>) = x /\ Tail(<<x, y>>) = <<y>>
      /\ \A x, y, z : Head(<<x, y, z>>) = x /\ Tail(<<x, y, z>>) = <<y, z>>
      /\ \A x, y : <<x>> # <<>> /\ <<x, y>> # <<>> /\ (<<x>> = <<y>> => x = y)
      /\ \A x, y, z : <<x, y>> # <<z>>
  OBVIOUS
<1>1. ASSUME NEW u \in Urrs, NEW p \in Periods
      PROVE  Goal(<<Step("add", u, p), Step("create", u, p)>>)
  BY <1>0 DEF Jobs, Step, Set
<1>2. ASSUME NEW u \in Urrs, NEW p \in Periods \cup {NoPerio}
      PROVE  Goal(<<Step("create", u, p)>>)
  BY <1>0 DEF Jobs, Step, Set
<1>3. ASSUME NEW u \in Urrs
      PROVE  Goal(<<Step("del", u, None), Step("remove", u, None)>>) /\ Goal(<<Step("remove", u, None)>>)
  BY <1>0 DEF Jobs, Step, Set
<1>4. ASSUME NEW a \in Actions
      PROVE  Goal(<<Get, Pop(a), Set(a)>>) /\ Goal(<<Pop(a), Set(a)>>) /\ Goal(<<Set(a)>>)
  <2>1. Pop(a).op = "pop" /\ Get.op = "get" /\ Set(a).op = "set"
    BY DEF Step, Set, Pop, Get
  <2>2. <<Pop(a), Set(a)>> \in Jobs /\ <<Set(a)>> \in Jobs /\ <<>> \in Jobs
    BY DEF Jobs
  <2>3. \A b \in Actions : Set(b) = Set(a) => b = a
    BY DEF Set, Step
  <2>4. \A b \in Actions : Set(b).op = "set"
    BY DEF Set, Step
  <2>5. Goal(<<Get, Pop(a), Set(a)>>)
    BY <1>0, <2>1, <2>2, <2>4
  <2>6. Goal(<<Pop(a), Set(a)>>)
    BY <1>0, <2>1, <2>2, <2>3, <2>4
  <2>7. Goal(<<Set(a)>>)
    BY <1>0, <2>1, <2>2, <2>3, <2>4
  <2> QED  BY <2>5, <2>6, <2>7
<1> HIDE DEF Goal
<1>5. Goal(j)
  <2>1. \/ \E u \in Urrs, p \in Periods : j = <<Step("add", u, p), Step("create", u, p)>>
        \/ \E u \in Urrs, p \in Periods \cup {NoPerio} : j = <<Step("create", u, p)>>
        \/ \E u \in Urrs : j = <<Step("del", u, None), Step("remove", u, None)>> \/ j = <<Step("remove", u, None)>>
        \/ \E a \in Actions : j = <<Get, Pop(a), Set(a)>> \/ j = <<Pop(a), Set(a)>> \/ j = <<Set(a)>>
    BY DEF Jobs
  <2> QED  BY <1>1, <1>2, <1>3, <1>4, <2>1, Zenon
<1> QED  BY <1>5 DEF Goal

(* A job is at most three steps long.                                        *)
LEMMA JobLength == \A j \in Jobs : Len(j) \in 0..3 /\ Len(j) <= 3
  BY SMTT(30) DEF Jobs

(* What the requests of the SMF leave to do.                                 *)
LEMMA Requested ==
    /\ \A u \in Urrs, p \in Periods \cup {NoPerio} :
         (IF p = NoPerio THEN <<Step("create", u, p)>>
          ELSE <<Step("add", u, p), Step("create", u, p)>>) \in Jobs
    /\ \A u \in Urrs : <<Step("del", u, None), Step("remove", u, None)>> \in Jobs
    /\ \A a \in Actions : <<Get, Pop(a), Set(a)>> \in Jobs
  BY DEF Jobs

(* Appending to a channel with room, and taking from one that is not empty.  *)
LEMMA Channels ==
    ASSUME NEW S, NEW ch \in Seq(S), NEW n \in Nat, Len(ch) <= n
    PROVE  /\ \A e \in S : Len(ch) < n => Append(ch, e) \in Seq(S) /\ Len(Append(ch, e)) <= n
           /\ ch # <<>> => /\ Head(ch) \in S /\ Head(ch) = ch[1]
                           /\ Tail(ch) \in Seq(S) /\ Len(Tail(ch)) <= n
                           /\ Len(Tail(ch)) = Len(ch) - 1
                           /\ \A i \in DOMAIN Tail(ch) : Tail(ch)[i] = ch[i + 1]
  OBVIOUS

(* What the events, the reports and the steps of a job carry.                *)
LEMMA EventFacts ==
    ASSUME NEW e \in Events
    PROVE  /\ e.type \in {"add", "del"} => e.u \in Urrs
           /\ e.type \in {"add", "timeout"} => e.p \in Periods
           /\ e.type \in {"add", "del", "timeout", "close"}
  BY DEF Events

(* What perio can be told.                                                   *)
LEMMA EventsAre ==
    /\ \A u \in Urrs, p \in Periods : Ev("add", u, p) \in Events
    /\ \A u \in Urrs : Ev("del", u, None) \in Events
    /\ \A p \in Periods : Ev("timeout", None, p) \in Events
    /\ Ev("close", None, None) \in Events
  BY DEF Events, Ev

(* The job at the head of the list of main.                                  *)
LEMMA HeadFacts ==
    ASSUME Types, todo # <<>>
    PROVE  /\ Tail(todo) \in Jobs
           /\ Head(todo).op \in {"add", "del", "create", "remove", "get", "pop", "set"}
           /\ Head(todo).op \in {"add", "del"} => Now \in Events /\ Head(todo).u \in Urrs
           /\ Head(todo).op = "create" => Head(todo).u \in Urrs
           /\ Head(todo).op = "set" =>
                  \E a \in Actions : Head(todo) = Set(a) /\ Head(todo).p = a /\ todo = <<Set(a)>>
<1>1. todo \in Jobs
  BY DEF Types
<1>2. CASE \E u \in Urrs, p \in Periods : Head(todo) = Step("add", u, p)
  <2>1. PICK u \in Urrs, p \in Periods : Head(todo) = Step("add", u, p)
    BY <1>2
  <2>2. Head(todo).op = "add" /\ Head(todo).u = u /\ Now = Ev("add", u, p)
    BY <2>1 DEF Step, Now
  <2> QED  BY <1>1, <2>2, JobSteps, EventsAre
<1>3. CASE \E u \in Urrs, p \in Periods \cup {NoPerio} : Head(todo) = Step("create", u, p)
  BY <1>1, <1>3, JobSteps DEF Step
<1>4. CASE \E u \in Urrs : Head(todo) = Step("del", u, None) \/ Head(todo) = Step("remove", u, None)
  <2>1. PICK u \in Urrs : Head(todo) = Step("del", u, None) \/ Head(todo) = Step("remove", u, None)
    BY <1>4
  <2>2. CASE Head(todo) = Step("del", u, None)
    <3>1. Head(todo).op = "del" /\ Head(todo).u = u /\ Now = Ev("del", u, None)
      BY <2>2 DEF Step, Now
    <3> QED  BY <1>1, <3>1, JobSteps, EventsAre
  <2>3. CASE Head(todo) = Step("remove", u, None)
    BY <1>1, <2>3, JobSteps DEF Step
  <2> QED  BY <2>1, <2>2, <2>3
<1>5. CASE Head(todo) = Get
  BY <1>1, <1>5, JobSteps DEF Step, Get
<1>6. CASE \E a \in Actions : Head(todo) = Pop(a) \/ Head(todo) = Set(a)
  <2>1. PICK a \in Actions : Head(todo) = Pop(a) \/ Head(todo) = Set(a)
    BY <1>6
  <2>2. CASE Head(todo) = Pop(a)
    BY <1>1, <2>2, JobSteps DEF Step, Pop
  <2>3. CASE Head(todo) = Set(a)
    <3>1. Head(todo).op = "set" /\ Head(todo).p = a
      BY <2>3 DEF Step, Set
    <3> QED  BY <1>1, <2>3, <3>1, JobSteps
  <2> QED  BY <2>1, <2>2, <2>3
<1> QED  BY <1>1, <1>2, <1>3, <1>4, <1>5, <1>6, JobSteps

-----------------------------------------------------------------------------
(* Types: what main does.                                                    *)
LEMMA RequestTypes ==
    ASSUME Types, Request
    PROVE  Types'
<1>1. todo = <<>> /\ ~called
  BY DEF Types, Request, CreateURR, RemoveURR, UpdateFAR, Idle
<1>2. ASSUME NEW u \in Urrs, RemoveURR(u)
      PROVE  Types'
  BY <1>1, <1>2, Requested DEF Types, RemoveURR, rest, life
<1>3. ASSUME NEW u \in Urrs, NEW p \in Periods \cup {NoPerio}, CreateURR(u, p)
      PROVE  Types'
  <2>1. todo' \in Jobs
    BY <1>3, Requested DEF CreateURR
  <2>2. known' \in [Urrs -> Periods \cup {None, NoPerio}]
    BY <1>3 DEF CreateURR, Types
  <2> QED  BY <1>1, <1>3, <2>1, <2>2 DEF Types, CreateURR, rest, life
<1>4. ASSUME NEW a \in Actions, UpdateFAR(a)
      PROVE  Types'
  <2>1. todo' \in Jobs
    BY <1>4, Requested DEF UpdateFAR, Get, Pop, Set
  <2> QED  BY <1>1, <1>4, <2>1 DEF Types, UpdateFAR, table, rest, life
<1> QED  BY <1>2, <1>3, <1>4 DEF Request, Actions

(* The steps of main.                                                        *)
LEMMA MainTypes ==
    ASSUME Types, Main \/ ServeReport
    PROVE  Types'
<1>1. CASE MainSend
  <2>1. CASE SendEvt(Ev(Head(todo).op, Head(todo).u, Head(todo).p)) /\ todo' = Tail(todo) /\ UNCHANGED srCh
    <3>1. todo' \in Jobs /\ Now \in Events
      BY <1>1, <2>1, HeadFacts DEF MainSend
    <3>2. evtCh' \in Seq(Events) /\ Len(evtCh') <= EvtLen
      BY <2>1, <3>1, Channels, ReportAssumption DEF SendEvt, Now, Types
    <3>3. ~called
      BY <1>1 DEF MainSend, Types
    <3> QED  BY <1>1, <2>1, <3>1, <3>2, <3>3 DEF Types, MainSend, table, rest
  <2>2. CASE PanicIf("evtCh") /\ UNCHANGED todo
    BY <1>1, <2>2 DEF Types, MainSend, PanicIf, table, rest
  <2> QED  BY <1>1, <2>1, <2>2 DEF MainSend
<1>2. CASE MainCall
  <2>1. todo # <<>> /\ Head(todo).op \in {"create", "remove", "get", "set"}
    BY <1>2 DEF MainCall
  <2>2. kernel' \subseteq Urrs /\ far' \in Actions
    BY <1>2, <2>1, HeadFacts DEF MainCall, Types
  <2> QED  BY <1>2, <2>1, <2>2 DEF Types, MainCall, rest, life
<1>3. CASE MainReturn
  <2>1. todo' \in Jobs
    BY <1>3, HeadFacts DEF MainReturn, Types
  <2> QED  BY <1>3, <2>1 DEF Types, MainReturn, table, rest, life
<1>4. CASE MainPop
  <2>1. todo' \in Jobs /\ ~called
    BY <1>4, HeadFacts DEF MainPop, Types
  <2>2. q' \in 0..QLen
    BY <1>4, ReportAssumption DEF MainPop, Types
  <2>3. late' \in BOOLEAN
    BY <1>4, Zenon DEF MainPop, Types
  <2> QED  BY <1>4, <2>1, <2>2, <2>3 DEF Types, MainPop, rest, life
<1>5. CASE ServeReport
  <2>1. srCh' \in Seq(Reports) /\ Len(srCh') <= SrLen
    BY <1>5, Channels, ReportAssumption DEF ServeReport, Types
  <2>2. q' \in 0..QLen
    BY <1>5, ReportAssumption DEF ServeReport, Types
  <2>3. late' \in BOOLEAN
    BY <1>5, Zenon DEF ServeReport, Types
  <2> QED  BY <1>5, <2>1, <2>2, <2>3 DEF Types, ServeReport, rest, life
<1> QED  BY <1>1, <1>2, <1>3, <1>4, <1>5 DEF Main

(* Types: what perio does, and its tickers.                                  *)
LEMMA TakeTypes ==
    ASSUME Types, NEW type, Take(type)
    PROVE  /\ evtCh' \in Seq(Events) /\ Len(evtCh') <= EvtLen
           /\ Head(evtCh) \in Events /\ Head(evtCh) = evtCh[1] /\ Head(evtCh).type = type
           /\ 1 \in DOMAIN evtCh
           /\ type \in {"add", "del"} => Head(evtCh).u \in Urrs
           /\ type \in {"add", "timeout"} => Head(evtCh).p \in Periods
<1>1. evtCh # <<>> /\ evtCh' = Tail(evtCh) /\ Head(evtCh).type = type
  BY DEF Take
<1>2. evtCh \in Seq(Events) /\ EvtLen \in Nat /\ Len(evtCh) <= EvtLen
  BY ReportAssumption DEF Types
<1>3. /\ evtCh' \in Seq(Events) /\ Len(evtCh') <= EvtLen
      /\ Head(evtCh) \in Events /\ Head(evtCh) = evtCh[1]
  BY <1>1, <1>2, Channels
<1>4. 1 \in DOMAIN evtCh
  BY <1>1, <1>2
<1> QED  BY <1>1, <1>3, <1>4, EventFacts

(* The steps of the periodic report server.                                  *)
LEMMA PerioTypes ==
    ASSUME Types, Perio
    PROVE  Types'
<1> USE DEF Quiet, table, life
<1>1. CASE PerioAdd
  <2>1. Head(evtCh).u \in Urrs /\ Head(evtCh).p \in Periods /\ evtCh' \in Seq(Events) /\ Len(evtCh') <= EvtLen
    BY <1>1, TakeTypes DEF PerioAdd
  <2>2. groups' \in [Periods -> SUBSET Urrs]
    BY <1>1, <2>1 DEF PerioAdd, Types
  <2>3. ticker' \in [Periods -> {"off", "wait", "send"}]
    BY <1>1, <2>1 DEF PerioAdd, Types
  <2> QED  BY <1>1, <2>1, <2>2, <2>3 DEF Types, PerioAdd
<1>2. CASE PerioDel
  <2>1. evtCh' \in Seq(Events) /\ Len(evtCh') <= EvtLen
    BY <1>2, TakeTypes DEF PerioDel
  <2>2. groups' \in [Periods -> SUBSET Urrs]
    <3>1. \A p \in Periods : [groups EXCEPT ![p] = @ \ {Head(evtCh).u}] \in [Periods -> SUBSET Urrs]
      BY DEF Types
    <3>2. groups' = groups \/ \E p \in Periods : groups' = [groups EXCEPT ![p] = @ \ {Head(evtCh).u}]
      BY <1>2 DEF PerioDel
    <3> QED  BY <3>1, <3>2 DEF Types
  <2>3. perio' \in PerioStates
    <3>1. \A p \in Periods : [perio EXCEPT !.pc = "stop", !.p = p] \in PerioStates
      BY DEF Types, PerioStates
    <3>2. perio' = perio \/ \E p \in Periods : perio' = [perio EXCEPT !.pc = "stop", !.p = p]
      BY <1>2 DEF PerioDel
    <3>3. perio \in PerioStates
      BY DEF Types
    <3>4. CASE perio' = perio
      BY <3>3, <3>4
    <3>5. CASE \E p \in Periods : perio' = [perio EXCEPT !.pc = "stop", !.p = p]
      BY <3>1, <3>5, Zenon
    <3> QED  BY <3>2, <3>4, <3>5
  <2> QED  BY <1>2, <2>1, <2>2, <2>3 DEF Types, PerioDel
<1>3. CASE stopTicker
  <2>1. perio' \in PerioStates
    BY <1>3 DEF Types, stopTicker, PerioStates
  <2> QED  BY <1>3, <2>1 DEF Types, stopTicker
<1>4. CASE PerioTimeout
  <2>1. Head(evtCh).p \in Periods /\ evtCh' \in Seq(Events) /\ Len(evtCh') <= EvtLen
    BY <1>4, TakeTypes DEF PerioTimeout
  <2>2. perio' \in PerioStates
    BY <1>4, <2>1 DEF Types, PerioTimeout, PerioStates
  <2> QED  BY <1>4, <2>1, <2>2 DEF Types, PerioTimeout
<1>5. CASE PerioQuery
  <2>1. perio.rest \cap kernel \subseteq Urrs /\ {} \subseteq Urrs
    BY DEF Types
  <2>2. perio' \in PerioStates
    BY <1>5, <2>1 DEF Types, PerioQuery, PerioStates
  <2> QED  BY <1>5, <2>2 DEF Types, PerioQuery
<1>6. CASE PerioReply
  <2>1. perio' \in PerioStates
    BY <1>6 DEF Types, PerioReply, PerioStates
  <2> QED  BY <1>6, <2>1 DEF Types, PerioReply
<1>7. CASE PerioNotify
  <2>1. PICK u \in perio.rest :
           \/ /\ SendSr(Usa(u)) /\ UNCHANGED evtCh
              /\ perio' = [perio EXCEPT !.pc = IF perio.rest = {u} THEN "range" ELSE "notify",
                                        !.rest = @ \ {u}]
           \/ PanicIf("srCh") /\ UNCHANGED perio
    BY <1>7 DEF PerioNotify
  <2>2. u \in Urrs /\ Usa(u) \in Reports
    BY <2>1 DEF Types, Reports, PerioStates
  <2>3. srCh' \in Seq(Reports) /\ Len(srCh') <= SrLen
    <3>1. CASE SendSr(Usa(u))
      BY <2>2, <3>1, Channels, ReportAssumption DEF SendSr, Types
    <3>2. CASE PanicIf("srCh")
      BY <3>2 DEF PanicIf, Types
    <3> QED  BY <2>1, <3>1, <3>2
  <2>4. evtCh' = evtCh
    BY <2>1 DEF PanicIf
  <2>5. perio' \in PerioStates
    <3> DEFINE c == IF perio.rest = {u} THEN "range" ELSE "notify"
               r == perio.rest \ {u}
    <3>1. c \in {"range", "notify"} /\ r \subseteq Urrs /\ perio \in PerioStates
      BY DEF Types, PerioStates
    <3>2. perio' = perio \/ perio' = [perio EXCEPT !.pc = c, !.rest = r]
      BY <2>1
    <3> HIDE DEF c, r
    <3>3. [perio EXCEPT !.pc = c, !.rest = r] \in PerioStates
      BY <3>1 DEF PerioStates
    <3> QED  BY <3>1, <3>2, <3>3
  <2> QED  BY <1>7, <2>3, <2>4, <2>5 DEF Types, PerioNotify
<1>8. CASE PerioClose /\ UNCHANGED <<table, todo, called, srCh, mux, stage, panic>>
  <2>1. evtCh' \in Seq(Events) /\ Len(evtCh') <= EvtLen
    <3>1. CASE Take("close")
      BY <3>1, TakeTypes
    <3>2. CASE UNCHANGED evtCh
      BY <3>2 DEF Types
    <3> QED  BY <1>8, <3>1, <3>2 DEF PerioClose
  <2>2. perio' \in PerioStates
    BY <1>8 DEF PerioClose, Types, PerioStates
  <2>3. groups' \in [Periods -> SUBSET Urrs] /\ ticker' \in [Periods -> {"off", "wait", "send"}]
    BY <1>8 DEF PerioClose, Types
  <2>4. closed' \subseteq {"evtCh", "srCh"}
    BY <1>8 DEF PerioClose, Types
  <2> QED  BY <1>8, <2>1, <2>2, <2>3, <2>4 DEF Types
<1> QED  BY <1>1, <1>2, <1>3, <1>4, <1>5, <1>6, <1>7, <1>8 DEF Perio

(* The steps of a ticker.                                                    *)
LEMMA TickTypes ==
    ASSUME Types, NEW p \in Periods, Tick(p) \/ TickSend(p)
    PROVE  Types'
<1>1. CASE Tick(p)
  BY <1>1 DEF Types, Tick, table, life
<1>2. CASE TickSend(p)
  <2>1. evtCh' \in Seq(Events) /\ Len(evtCh') <= EvtLen
    BY <1>2, EventsAre, Channels, ReportAssumption DEF TickSend, SendEvt, Types
  <2> QED  BY <1>2, <2>1 DEF Types, TickSend, table
<1> QED  BY <1>1, <1>2

(* Types: what mux does, and the shutdown.                                   *)
LEMMA MuxTypes ==
    ASSUME Types, MuxReport \/ MuxNotify \/ Stop \/ MainExit \/ MuxClose \/ Close
    PROVE  Types'
<1>1. CASE MuxReport
  <2>1. mux' \in [pc : {"idle", "notify", "exit"}, sr : Reports \cup {NoSr}] /\ mux'.sr \in Reports
    BY <1>1 DEF MuxReport, Types, Reports
  <2> QED  BY <1>1, <2>1 DEF Types, MuxReport, table, life
<1>2. CASE MuxNotify
  <2>1. srCh' \in Seq(Reports) /\ Len(srCh') <= SrLen
    <3>1. CASE SendSr(mux.sr)
      BY <1>2, <3>1, Channels, ReportAssumption DEF MuxNotify, SendSr, Types
    <3>2. CASE PanicIf("srCh")
      BY <3>2 DEF PanicIf, Types
    <3> QED  BY <1>2, <3>1, <3>2 DEF MuxNotify
  <2> QED  BY <1>2, <2>1 DEF Types, MuxNotify, PanicIf, table
<1>3. CASE Stop
  BY <1>3 DEF Types, Stop, table, rest
<1>4. CASE MainExit
  BY <1>4 DEF Types, MainExit, table, rest
<1>5. CASE MuxClose
  BY <1>5 DEF Types, MuxClose, table
<1>6. CASE Close
  <2>1. evtCh' \in Seq(Events) /\ Len(evtCh') <= EvtLen
    BY <1>6, EventsAre, Channels, ReportAssumption DEF Close, SendEvt, Types
  <2> QED  BY <1>6, <2>1 DEF Types, Close, table, rest
<1> QED  BY <1>1, <1>2, <1>3, <1>4, <1>5, <1>6

(* Every step keeps the types and the bounds of the channels.                *)
LEMMA NextTypes == Types /\ [Next]_vars => Types'
<1>1. CASE UNCHANGED vars
  BY <1>1 DEF vars, Types
<1> QED
  BY <1>1, RequestTypes, MainTypes, PerioTypes, TickTypes, MuxTypes DEF Next, Work

-----------------------------------------------------------------------------
(* An event added at the end of evtCh that is not the close event.           *)
LEMMA AppendedEvent ==
    ASSUME Types, NEW e \in Events, evtCh' = Append(evtCh, e)
    PROVE  /\ DOMAIN evtCh' = DOMAIN evtCh \cup {Len(evtCh) + 1}
           /\ Len(evtCh) + 1 \notin DOMAIN evtCh /\ Len(evtCh) \in Nat
           /\ DOMAIN evtCh = 1..Len(evtCh)
           /\ \A i \in DOMAIN evtCh : evtCh'[i] = evtCh[i]
           /\ evtCh'[Len(evtCh) + 1] = e
  BY DEF Types

(* The first event leaves evtCh.                                             *)
LEMMA TakenEvent ==
    ASSUME Types, evtCh # <<>>, evtCh' = Tail(evtCh)
    PROVE  /\ Head(evtCh) = evtCh[1] /\ 1 \in DOMAIN evtCh
           /\ DOMAIN evtCh \subseteq Nat \ {0} /\ DOMAIN evtCh' \subseteq Nat \ {0}
           /\ \A i \in DOMAIN evtCh' : i + 1 \in DOMAIN evtCh /\ evtCh'[i] = evtCh[i + 1]
           /\ \A i \in DOMAIN evtCh : i # 1 => i - 1 \in DOMAIN evtCh' /\ evtCh'[i - 1] = evtCh[i]
  BY DEF Types

(* perio closes only after it was told to.                                   *)
LEMMA ClosingKept ==
    ASSUME Types, Closing, [Next]_vars
    PROVE  Closing'
<1>1. CASE UNCHANGED vars
  BY <1>1 DEF vars, Closing, Live
<1>2. CASE Request
  BY <1>2 DEF Request, RemoveURR, CreateURR, UpdateFAR, Closing, Live, rest, life
<1>3. CASE Main \/ ServeReport
  <2>1. CASE MainSend
    <3>1. CASE SendEvt(Ev(Head(todo).op, Head(todo).u, Head(todo).p))
      <4>1. Now \in Events /\ Now.type # "close" /\ evtCh' = Append(evtCh, Now)
        BY <2>1, <3>1, HeadFacts DEF MainSend, SendEvt, Now, Ev
      <4> QED  BY <2>1, <4>1, AppendedEvent DEF MainSend, Closing, Live, rest
    <3>2. CASE PanicIf("evtCh")
      BY <2>1, <3>2 DEF MainSend, PanicIf, Closing, Live, rest
    <3> QED  BY <2>1, <3>1, <3>2 DEF MainSend
  <2>2. CASE MainCall
    BY <2>2 DEF MainCall, Closing, Live, rest, life
  <2>3. CASE MainReturn
    BY <2>3 DEF MainReturn, Closing, Live, rest, life
  <2>4. CASE MainPop
    BY <2>4 DEF MainPop, Closing, Live, rest, life
  <2>5. CASE ServeReport
    BY <2>5 DEF ServeReport, Closing, Live, rest, life
  <2> QED  BY <1>3, <2>1, <2>2, <2>3, <2>4, <2>5 DEF Main
<1>4. CASE Perio
  <2>1. ASSUME NEW type \in {"add", "del", "timeout"}, Take(type)
        PROVE  Live => \A i \in DOMAIN evtCh' : evtCh'[i].type # "close"
    BY <2>1, TakenEvent DEF Take, Closing
  <2>2. CASE PerioAdd
    BY <2>1, <2>2 DEF PerioAdd, Closing, Live, Quiet, life
  <2>3. CASE PerioDel
    <3>1. perio'.pc \in {perio.pc, "stop"}
      BY <2>3 DEF PerioDel, Types, PerioStates
    <3> QED  BY <2>1, <2>3, <3>1 DEF PerioDel, Closing, Live, Quiet, life
  <2>4. CASE stopTicker
    BY <2>4 DEF stopTicker, Closing, Live, Quiet, life, Types, PerioStates
  <2>5. CASE PerioTimeout
    <3>1. perio'.pc \in {perio.pc, "query"}
      BY <2>5 DEF PerioTimeout, Types, PerioStates
    <3> QED  BY <2>1, <2>5, <3>1 DEF PerioTimeout, Closing, Live, Quiet, life
  <2>6. CASE PerioQuery
    BY <2>6 DEF PerioQuery, Closing, Live, Quiet, life, Types, PerioStates
  <2>7. CASE PerioReply
    BY <2>7 DEF PerioReply, Closing, Live, Quiet, life, Types, PerioStates
  <2>8. CASE PerioNotify
    <3>1. perio'.pc \in {perio.pc, "range", "notify"} /\ evtCh' = evtCh
      BY <2>8 DEF PerioNotify, PanicIf, Types, PerioStates
    <3> QED  BY <2>8, <3>1 DEF PerioNotify, Closing, Live
  <2>9. CASE PerioClose /\ UNCHANGED <<table, todo, called, srCh, mux, stage, panic>>
    <3>1. stage' = stage /\ ~Live
      BY <2>9, TakenEvent DEF PerioClose, Closing, Take
    <3> QED  BY <3>1 DEF Closing, Live
  <2> QED  BY <1>4, <2>2, <2>3, <2>4, <2>5, <2>6, <2>7, <2>8, <2>9 DEF Perio
<1>5. ASSUME NEW p \in Periods, Tick(p) \/ TickSend(p)
      PROVE  Closing'
  <2>1. CASE Tick(p)
    BY <2>1 DEF Tick, Closing, Live, life
  <2>2. CASE TickSend(p)
    <3> DEFINE e == Ev("timeout", None, p)
    <3>1. e \in Events /\ e.type # "close"
      BY EventsAre DEF Ev
    <3>2. evtCh' = Append(evtCh, e)
      BY <2>2 DEF TickSend, SendEvt
    <3> HIDE DEF e
    <3> QED  BY <2>2, <3>1, <3>2, AppendedEvent DEF TickSend, Closing, Live
  <2> QED  BY <1>5, <2>1, <2>2
<1>6. CASE MuxReport \/ MuxNotify
  BY <1>6 DEF MuxReport, MuxNotify, PanicIf, Closing, Live, life
<1>7. CASE Stop \/ MainExit \/ MuxClose
  BY <1>7 DEF Stop, MainExit, MuxClose, Closing, Live, rest, life
<1>8. CASE Close
  BY <1>8 DEF Close, Closing, Live
<1> QED
  BY <1>1, <1>2, <1>3, <1>4, <1>5, <1>6, <1>7, <1>8 DEF Next, Work

(* A ticker for each group that is not empty, and for the one being stopped. *)
LEMMA TickersKept ==
    ASSUME Types, Tickers, [Next]_vars
    PROVE  Tickers'
<1> USE DEF Tickers, TickerPerGroup
<1>1. CASE UNCHANGED <<groups, ticker, perio>>
  BY <1>1
<1>2. CASE PerioAdd
  <2>1. Head(evtCh).u \in Urrs /\ Head(evtCh).p \in Periods
    BY <1>2, TakeTypes DEF PerioAdd
  <2>2. perio.pc = "range" /\ perio' = perio
    BY <1>2 DEF PerioAdd, Take
  <2>3. \A p \in Periods :
           /\ p = Head(evtCh).p => groups'[p] # {} /\ ticker'[p] # "off"
           /\ p # Head(evtCh).p => groups'[p] = groups[p] /\ ticker'[p] = ticker[p]
    BY <1>2, <2>1 DEF PerioAdd, Types
  <2> QED  BY <2>2, <2>3
<1>3. CASE PerioDel
  <2>1. perio.pc = "range" /\ ticker' = ticker
    BY <1>3 DEF PerioDel, Take
  <2>2. CASE \E p \in Periods :
                /\ Head(evtCh).u \in groups[p]
                /\ groups' = [groups EXCEPT ![p] = @ \ {Head(evtCh).u}]
                /\ perio' = IF groups[p] = {Head(evtCh).u} THEN [perio EXCEPT !.pc = "stop", !.p = p] ELSE perio
    <3>1. PICK p \in Periods :
                /\ Head(evtCh).u \in groups[p]
                /\ groups' = [groups EXCEPT ![p] = @ \ {Head(evtCh).u}]
                /\ perio' = IF groups[p] = {Head(evtCh).u} THEN [perio EXCEPT !.pc = "stop", !.p = p] ELSE perio
      BY <2>2
    <3>2. /\ groups'[p] = groups[p] \ {Head(evtCh).u}
          /\ \A o \in Periods \ {p} : groups'[o] = groups[o]
      BY <3>1 DEF Types
    <3>3. CASE groups[p] = {Head(evtCh).u}
      <4>1. perio'.pc = "stop" /\ perio'.p = p /\ groups'[p] = {}
        BY <3>1, <3>2, <3>3 DEF Types, PerioStates
      <4> QED  BY <2>1, <3>1, <3>2, <4>1
    <3>4. CASE groups[p] # {Head(evtCh).u}
      BY <2>1, <3>1, <3>2, <3>4
    <3> QED  BY <3>3, <3>4
  <2>3. CASE UNCHANGED <<groups, perio>>
    BY <2>1, <2>3
  <2> QED  BY <1>3, <2>2, <2>3 DEF PerioDel
<1>4. CASE stopTicker
  <2>1. perio'.pc = "range"
    BY <1>4 DEF stopTicker, Types, PerioStates
  <2>2. \A p \in Periods : groups'[p] = groups[p] /\ ticker'[p] = IF p = perio.p THEN "off" ELSE ticker[p]
    BY <1>4 DEF stopTicker, Types, PerioStates
  <2> QED  BY <1>4, <2>1, <2>2 DEF stopTicker
<1>5. CASE PerioTimeout \/ PerioQuery \/ PerioReply \/ PerioNotify
  <2>1. perio.pc # "stop" /\ perio'.pc # "stop" /\ UNCHANGED <<groups, ticker>>
    BY <1>5 DEF PerioTimeout, PerioQuery, PerioReply, PerioNotify, Take, Types, PerioStates
  <2> QED  BY <2>1
<1>6. CASE PerioClose /\ UNCHANGED <<table, todo, called, srCh, mux, stage, panic>>
  <2>1. perio.pc # "stop" /\ perio'.pc # "stop"
    BY <1>6 DEF PerioClose, Take, Types, PerioStates
  <2>2. \/ UNCHANGED <<groups, ticker>>
        \/ \E p \in Periods : ticker' = [ticker EXCEPT ![p] = "off"] /\ groups' = [groups EXCEPT ![p] = {}]
    BY <1>6 DEF PerioClose
  <2> QED  BY <2>1, <2>2 DEF Types
<1>7. ASSUME NEW p \in Periods, Tick(p) \/ TickSend(p)
      PROVE  Tickers'
  BY SMTT(30), <1>7 DEF Tick, TickSend, Types
<1>8. CASE Main \/ ServeReport \/ Request
  BY <1>1, <1>8 DEF Main, MainSend, MainCall, MainReturn, MainPop, ServeReport, Request, CreateURR,
                    RemoveURR, UpdateFAR, rest
<1>9. CASE MuxReport \/ MuxNotify \/ Stop \/ MainExit \/ MuxClose \/ Close
  BY <1>1, <1>9 DEF MuxReport, MuxNotify, Stop, MainExit, MuxClose, Close, rest
<1>10. CASE Perio
  BY <1>2, <1>3, <1>4, <1>5, <1>6, <1>10 DEF Perio
<1> QED
  BY <1>1, <1>7, <1>8, <1>9, <1>10 DEF Next, Work, vars

(* Nothing is left in the buffer when the FAR stops buffering.               *)
LEMMA BufferKept ==
    ASSUME Types, Buffer, [Next]_vars
    PROVE  Buffer'
<1> USE DEF Buffer
<1>1. CASE UNCHANGED <<far, q, late, todo>>
  BY <1>1
<1>2. CASE Request
  <2>1. todo = <<>> /\ UNCHANGED <<far, q, late>>
    BY <1>2 DEF Request, RemoveURR, CreateURR, UpdateFAR, Idle, table
  <2>2. todo' # <<Set("FORW")>>
    BY <1>2 DEF Request, RemoveURR, CreateURR, UpdateFAR, Step, Set
  <2> QED  BY <2>1, <2>2
<1>3. CASE MainSend
  <2>1. UNCHANGED <<far, q, late>> /\ todo' \in {todo, Tail(todo)} /\ todo # <<>> /\ Head(todo).op # "pop"
    BY <1>3 DEF MainSend, table
  <2>2. Head(todo) # Pop("FORW")
    BY <2>1 DEF Pop, Step
  <2> QED  BY <2>1, <2>2, JobSteps DEF Types, Actions
<1>4. CASE MainCall
  <2>1. UNCHANGED <<q, late, todo>> /\ todo # <<>>
    BY <1>4 DEF MainCall
  <2>2. CASE far' = far
    BY <2>1, <2>2
  <2>3. CASE Head(todo).op = "set" /\ far' = Head(todo).p
    <3>1. PICK a \in Actions : Head(todo).p = a /\ todo = <<Set(a)>>
      BY <2>1, <2>3, HeadFacts
    <3> QED  BY <2>1, <2>3, <3>1 DEF Actions
  <2> QED  BY <1>4, <2>2, <2>3 DEF MainCall
<1>5. CASE MainReturn
  <2>1. UNCHANGED <<far, q, late>> /\ todo' = Tail(todo) /\ todo # <<>> /\ Head(todo).op # "pop"
    BY <1>5 DEF MainReturn, table, Types
  <2>2. Head(todo) # Pop("FORW")
    BY <2>1 DEF Pop, Step
  <2> QED  BY <2>1, <2>2, JobSteps DEF Types, Actions
<1>6. CASE MainPop
  <2>1. todo # <<>> /\ todo \in Jobs /\ todo' = Tail(todo) /\ far' = far
    BY <1>6 DEF MainPop, Types
  <2>2. CASE far = "BUFF" /\ Head(todo).p # "BUFF"
    BY <1>6, <2>2 DEF MainPop
  <2>3. CASE ~(far = "BUFF" /\ Head(todo).p # "BUFF")
    <3>1. UNCHANGED <<q, late>>
      BY <1>6, <2>3 DEF MainPop
    <3>2. todo' = <<Set("FORW")>> => Head(todo).p = "FORW"
      <4>1. "FORW" \in Actions /\ Pop("FORW").p = "FORW"
        BY DEF Pop, Step, Actions
      <4> QED  BY <2>1, <4>1, JobSteps
    <3>3. CASE far # "BUFF"
      BY <2>1, <3>1, <3>3
    <3>4. CASE far = "BUFF"
      <4>1. todo' # <<Set("FORW")>>
        BY <2>3, <3>2, <3>4
      <4> QED  BY <2>1, <3>4, <4>1
    <3> QED  BY <3>3, <3>4
  <2> QED  BY <2>2, <2>3
<1>7. CASE ServeReport
  <2>1. todo' = <<>> /\ todo = <<>> /\ far' = far
    BY <1>7 DEF ServeReport, Idle
  <2>2. CASE UNCHANGED <<q, late>>
    BY <2>1, <2>2
  <2>3. CASE late' = (late \/ far # "BUFF")
    BY <2>1, <2>3
  <2> QED  BY <1>7, <2>2, <2>3 DEF ServeReport
<1>8. CASE Perio
  BY <1>1, <1>8 DEF Perio, PerioAdd, PerioDel, stopTicker, PerioTimeout, PerioQuery, PerioReply,
                    PerioNotify, Quiet, table
<1>9. CASE \E p \in Periods : Tick(p) \/ TickSend(p)
  BY <1>1, <1>9 DEF Tick, TickSend, table
<1>10. CASE MuxReport \/ MuxNotify \/ Stop \/ MainExit \/ MuxClose \/ Close
  BY <1>1, <1>10 DEF MuxReport, MuxNotify, Stop, MainExit, MuxClose, Close, table
<1> QED
  BY <1>1, <1>2, <1>3, <1>4, <1>5, <1>6, <1>7, <1>8, <1>9, <1>10 DEF Next, Work, Main, vars

-----------------------------------------------------------------------------
(* The orders about one URR.                                                 *)
Calm(u) == known'[u] = known[u] /\ (Live' => Live)

(* Nothing of the URR changes.                                               *)
LEMMA TimerQuiet ==
    ASSUME Types, NEW u \in Urrs, Timer(u), Calm(u), UNCHANGED <<evtCh, groups>>,
           Asked(u)' <=> Asked(u), Asked(u) => Now' = Now
    PROVE  Timer(u)'
<1>1. \A i : /\ At(i, u)' <=> At(i, u)
             /\ FirstAt(i, u)' <=> FirstAt(i, u)
             /\ LastAt(i, u)' <=> LastAt(i, u)
             /\ \A j : NextAt(i, j, u)' <=> NextAt(i, j, u)
  BY DEF At, FirstAt, LastAt, NextAt
<1>2. (NoneAt(u)' <=> NoneAt(u)) /\ (Ungrouped(u)' <=> Ungrouped(u))
  BY <1>1 DEF NoneAt, Ungrouped
<1> QED  BY <1>1, <1>2 DEF Timer, Calm, Orders

(* An event that is no order about the URR is added.                         *)
LEMMA TimerAppend ==
    ASSUME Types, NEW u \in Urrs, Timer(u), Calm(u), UNCHANGED groups,
           NEW e \in Events, evtCh' = Append(evtCh, e), ~Order(e, u),
           Asked(u)' <=> Asked(u), Asked(u) => Now' = Now
    PROVE  Timer(u)'
<1>0. /\ DOMAIN evtCh' = DOMAIN evtCh \cup {Len(evtCh) + 1} /\ ~At(Len(evtCh) + 1, u)'
      /\ \A i \in DOMAIN evtCh : evtCh'[i] = evtCh[i]
  BY AppendedEvent DEF At
<1>1. \A i : At(i, u)' <=> At(i, u)
  BY <1>0 DEF At
<1>6. \A i : (At(i, u) => i \in DOMAIN evtCh) /\ (At(i, u)' => i \in DOMAIN evtCh')
  BY DEF At
<1>2. \A i : /\ FirstAt(i, u)' <=> FirstAt(i, u)
             /\ LastAt(i, u)' <=> LastAt(i, u)
             /\ \A j : NextAt(i, j, u)' <=> NextAt(i, j, u)
  BY <1>1, <1>6, Zenon DEF FirstAt, LastAt, NextAt
<1>3. (NoneAt(u)' <=> NoneAt(u)) /\ (Ungrouped(u)' <=> Ungrouped(u))
  BY <1>1, <1>6, Zenon DEF NoneAt, Ungrouped
<1>4. \A i : At(i, u) => evtCh'[i] = evtCh[i] /\ i \in DOMAIN evtCh
  BY <1>0 DEF At
<1>5. \A i : /\ FirstAt(i, u) => At(i, u)
             /\ LastAt(i, u) => At(i, u)
             /\ \A j : NextAt(i, j, u) => At(i, u) /\ At(j, u)
  BY DEF FirstAt, LastAt, NextAt
<1> HIDE DEF At, FirstAt, LastAt, NextAt, NoneAt, Ungrouped
<1> QED  BY <1>2, <1>3, <1>4, <1>5 DEF Timer, Calm, Orders

(* perio takes an event that is no order about the URR.                      *)
LEMMA TimerShift ==
    ASSUME Types, NEW u \in Urrs, Timer(u), Calm(u),
           \A p \in Periods : u \in groups'[p] <=> u \in groups[p],
           evtCh # <<>>, evtCh' = Tail(evtCh), ~Order(Head(evtCh), u),
           Asked(u)' <=> Asked(u), Asked(u) => Now' = Now
    PROVE  Timer(u)'
<1>0. /\ DOMAIN evtCh \subseteq Nat \ {0} /\ DOMAIN evtCh' \subseteq Nat \ {0}
      /\ \A i \in DOMAIN evtCh' : i + 1 \in DOMAIN evtCh /\ evtCh'[i] = evtCh[i + 1]
      /\ \A i \in DOMAIN evtCh : i # 1 => i - 1 \in DOMAIN evtCh' /\ evtCh'[i - 1] = evtCh[i]
      /\ ~At(1, u)
  BY TakenEvent DEF At
<1>1. \A i \in DOMAIN evtCh' : At(i, u)' <=> At(i + 1, u)
  BY <1>0 DEF At
<1>2. \A i \in DOMAIN evtCh : At(i, u) => i # 1 /\ i - 1 \in DOMAIN evtCh' /\ At(i - 1, u)'
  BY <1>0 DEF At
<1>3. \A i \in DOMAIN evtCh' :
         /\ FirstAt(i, u)' => FirstAt(i + 1, u)
         /\ LastAt(i, u)' => LastAt(i + 1, u)
         /\ \A j \in DOMAIN evtCh' : NextAt(i, j, u)' => NextAt(i + 1, j + 1, u)
  <2>1. ASSUME NEW i \in DOMAIN evtCh', FirstAt(i, u)'
        PROVE  FirstAt(i + 1, u)
    <3>1. At(i + 1, u)
      BY <1>1, <2>1 DEF FirstAt
    <3>2. ASSUME NEW k \in DOMAIN evtCh, k < i + 1, At(k, u)
          PROVE  FALSE
      <4>1. k - 1 \in DOMAIN evtCh' /\ At(k - 1, u)' /\ k - 1 < i
        BY <1>0, <1>2, <3>2
      <4> QED  BY <2>1, <4>1 DEF FirstAt
    <3> QED  BY <3>1, <3>2 DEF FirstAt
  <2>2. ASSUME NEW i \in DOMAIN evtCh', LastAt(i, u)'
        PROVE  LastAt(i + 1, u)
    <3>1. At(i + 1, u)
      BY <1>1, <2>2 DEF LastAt
    <3>2. ASSUME NEW k \in DOMAIN evtCh, k > i + 1, At(k, u)
          PROVE  FALSE
      <4>1. k - 1 \in DOMAIN evtCh' /\ At(k - 1, u)' /\ k - 1 > i
        BY <1>0, <1>2, <3>2
      <4> QED  BY <2>2, <4>1 DEF LastAt
    <3> QED  BY <3>1, <3>2 DEF LastAt
  <2>3. ASSUME NEW i \in DOMAIN evtCh', NEW j \in DOMAIN evtCh', NextAt(i, j, u)'
        PROVE  NextAt(i + 1, j + 1, u)
    <3>1. At(i + 1, u) /\ At(j + 1, u) /\ i + 1 < j + 1
      BY <1>0, <1>1, <2>3 DEF NextAt
    <3>2. ASSUME NEW k \in DOMAIN evtCh, i + 1 < k, k < j + 1, At(k, u)
          PROVE  FALSE
      <4>1. k - 1 \in DOMAIN evtCh' /\ At(k - 1, u)' /\ i < k - 1 /\ k - 1 < j
        BY <1>0, <1>2, <3>2
      <4> QED  BY <2>3, <4>1 DEF NextAt
    <3> QED  BY <3>1, <3>2 DEF NextAt
  <2> QED  BY <2>1, <2>2, <2>3
<1>4. NoneAt(u)' => NoneAt(u)
  BY <1>2 DEF NoneAt
<1>5. Ungrouped(u)' <=> Ungrouped(u)
  BY DEF Ungrouped
<1> HIDE DEF At, FirstAt, LastAt, NextAt, NoneAt, Ungrouped
<1>6. \A i \in DOMAIN evtCh' : i + 1 \in DOMAIN evtCh /\ evtCh'[i] = evtCh[i + 1]
  BY <1>0
<1> QED  BY <1>3, <1>4, <1>5, <1>6 DEF Timer, Calm, Orders

(* main sends the order it has.                                              *)
LEMMA TimerSend ==
    ASSUME Types, NEW u \in Urrs, Timer(u), Calm(u), UNCHANGED groups,
           Asked(u), ~Asked(u)', Now \in Events, evtCh' = Append(evtCh, Now)
    PROVE  Timer(u)'
<1> DEFINE n == Len(evtCh) + 1
<1>0. /\ DOMAIN evtCh' = DOMAIN evtCh \cup {n} /\ n \notin DOMAIN evtCh
      /\ \A i \in DOMAIN evtCh : evtCh'[i] = evtCh[i]
      /\ evtCh'[n] = Now
      /\ n \in Nat /\ DOMAIN evtCh \subseteq Nat /\ \A i \in DOMAIN evtCh : i < n
  BY AppendedEvent
<1> HIDE DEF n
<1>1. Order(Now, u)
  BY DEF Asked, Order, Now, Ev
<1>2. \A i : At(i, u)' <=> At(i, u) \/ i = n
  BY <1>0, <1>1 DEF At
<1>3. \A i : At(i, u) => i \in DOMAIN evtCh
  BY DEF At
<1>4. \A i \in DOMAIN evtCh' : LastAt(i, u)' => i = n
  BY <1>0, <1>2 DEF LastAt
<1>5. ~NoneAt(u)'
  BY <1>0, <1>2 DEF NoneAt
<1>6. \A i \in DOMAIN evtCh' : FirstAt(i, u)' =>
         IF i = n THEN NoneAt(u) ELSE i \in DOMAIN evtCh /\ FirstAt(i, u)
  BY <1>0, <1>2, <1>3 DEF FirstAt, NoneAt
<1>7. \A i, j \in DOMAIN evtCh' : NextAt(i, j, u)' =>
         /\ i \in DOMAIN evtCh
         /\ IF j = n THEN LastAt(i, u) ELSE j \in DOMAIN evtCh /\ NextAt(i, j, u)
  <2>1. ASSUME NEW i \in DOMAIN evtCh', NEW j \in DOMAIN evtCh', NextAt(i, j, u)'
        PROVE  /\ i \in DOMAIN evtCh
               /\ IF j = n THEN LastAt(i, u) ELSE j \in DOMAIN evtCh /\ NextAt(i, j, u)
    <3>1. At(i, u)' /\ At(j, u)' /\ i < j /\ \A k \in DOMAIN evtCh' : i < k /\ k < j => ~At(k, u)'
      BY <2>1 DEF NextAt
    <3>2. i \in DOMAIN evtCh /\ At(i, u)
      BY <1>0, <1>2, <3>1
    <3>3. CASE j = n
      BY <1>0, <1>2, <3>1, <3>2, <3>3 DEF LastAt
    <3>4. CASE j # n
      BY <1>0, <1>2, <3>1, <3>2, <3>4 DEF NextAt
    <3> QED  BY <3>2, <3>3, <3>4
  <2> QED  BY <2>1
<1>8. Ungrouped(u)' <=> Ungrouped(u)
  BY DEF Ungrouped
<1> HIDE DEF At, FirstAt, LastAt, NextAt, NoneAt, Ungrouped, Asked, Now
<1>9. \A i \in DOMAIN evtCh' : FirstAt(i, u)' /\ evtCh'[i].type = "add" => Ungrouped(u)'
  BY <1>0, <1>6, <1>8 DEF Timer
<1>10. \A i, j \in DOMAIN evtCh' : NextAt(i, j, u)' /\ evtCh'[j].type = "add" => evtCh'[i].type = "del"
  BY <1>0, <1>7 DEF Timer
<1>11. \A i \in DOMAIN evtCh' : LastAt(i, u)' => Orders(evtCh'[i], known'[u])
  BY <1>0, <1>4 DEF Timer, Calm
<1>12. \A p1, p2 \in Periods : u \in groups'[p1] /\ u \in groups'[p2] => p1 = p2
  BY DEF Timer
<1> QED  BY <1>5, <1>9, <1>10, <1>11, <1>12 DEF Timer, Orders

(* perio takes an order about the URR.                                       *)
LEMMA TimerTake ==
    ASSUME Types, NEW u \in Urrs, Timer(u), Calm(u),
           Asked(u)' <=> Asked(u), Asked(u) => Now' = Now,
           evtCh # <<>>, evtCh' = Tail(evtCh), Order(Head(evtCh), u),
           Head(evtCh).type = "add" => Head(evtCh).p \in Periods,
           \A p \in Periods : u \in groups'[p] <=>
                              Head(evtCh).type = "add" /\ (p = Head(evtCh).p \/ u \in groups[p])
    PROVE  Timer(u)'
<1>0. /\ DOMAIN evtCh \subseteq Nat \ {0} /\ DOMAIN evtCh' \subseteq Nat \ {0}
      /\ \A i \in DOMAIN evtCh' : i + 1 \in DOMAIN evtCh /\ evtCh'[i] = evtCh[i + 1]
      /\ \A i \in DOMAIN evtCh : i # 1 => i - 1 \in DOMAIN evtCh' /\ evtCh'[i - 1] = evtCh[i]
      /\ At(1, u) /\ 1 \in DOMAIN evtCh /\ Head(evtCh) = evtCh[1]
  BY TakenEvent DEF At
<1>1. \A i \in DOMAIN evtCh' : At(i, u)' <=> At(i + 1, u)
  BY <1>0 DEF At
<1>2. \A i \in DOMAIN evtCh : At(i, u) /\ i # 1 => i - 1 \in DOMAIN evtCh' /\ At(i - 1, u)'
  BY <1>0 DEF At
<1>3. FirstAt(1, u)
  BY <1>0 DEF FirstAt
<1>4. Head(evtCh).type = "add" => Ungrouped(u)
  BY <1>0, <1>3 DEF Timer
<1>5. \A i \in DOMAIN evtCh' :
         /\ FirstAt(i, u)' => NextAt(1, i + 1, u)
         /\ LastAt(i, u)' => LastAt(i + 1, u)
         /\ \A j \in DOMAIN evtCh' : NextAt(i, j, u)' => NextAt(i + 1, j + 1, u)
  <2>1. ASSUME NEW i \in DOMAIN evtCh', FirstAt(i, u)'
        PROVE  NextAt(1, i + 1, u)
    <3>1. At(i + 1, u) /\ 1 < i + 1
      BY <1>0, <1>1, <2>1 DEF FirstAt
    <3>2. ASSUME NEW k \in DOMAIN evtCh, 1 < k, k < i + 1, At(k, u)
          PROVE  FALSE
      <4>1. k - 1 \in DOMAIN evtCh' /\ At(k - 1, u)' /\ k - 1 < i
        BY <1>0, <1>2, <3>2
      <4> QED  BY <2>1, <4>1 DEF FirstAt
    <3> QED  BY <1>0, <3>1, <3>2 DEF NextAt
  <2>2. ASSUME NEW i \in DOMAIN evtCh', LastAt(i, u)'
        PROVE  LastAt(i + 1, u)
    <3>1. At(i + 1, u)
      BY <1>1, <2>2 DEF LastAt
    <3>2. ASSUME NEW k \in DOMAIN evtCh, k > i + 1, At(k, u)
          PROVE  FALSE
      <4>1. k - 1 \in DOMAIN evtCh' /\ At(k - 1, u)' /\ k - 1 > i
        BY <1>0, <1>2, <3>2
      <4> QED  BY <2>2, <4>1 DEF LastAt
    <3> QED  BY <3>1, <3>2 DEF LastAt
  <2>3. ASSUME NEW i \in DOMAIN evtCh', NEW j \in DOMAIN evtCh', NextAt(i, j, u)'
        PROVE  NextAt(i + 1, j + 1, u)
    <3>1. At(i + 1, u) /\ At(j + 1, u) /\ i + 1 < j + 1
      BY <1>0, <1>1, <2>3 DEF NextAt
    <3>2. ASSUME NEW k \in DOMAIN evtCh, i + 1 < k, k < j + 1, At(k, u)
          PROVE  FALSE
      <4>1. k - 1 \in DOMAIN evtCh' /\ At(k - 1, u)' /\ i < k - 1 /\ k - 1 < j
        BY <1>0, <1>2, <3>2
      <4> QED  BY <2>3, <4>1 DEF NextAt
    <3> QED  BY <3>1, <3>2 DEF NextAt
  <2> QED  BY <2>1, <2>2, <2>3
<1>6. NoneAt(u)' => LastAt(1, u)
  <2>1. ASSUME NoneAt(u)', NEW k \in DOMAIN evtCh, k > 1, At(k, u)
        PROVE  FALSE
    <3>1. k - 1 \in DOMAIN evtCh' /\ At(k - 1, u)'
      BY <1>0, <1>2, <2>1
    <3> QED  BY <2>1, <3>1 DEF NoneAt
  <2> QED  BY <1>0, <2>1 DEF LastAt
<1>7. Head(evtCh).type # "add" => Head(evtCh).type = "del" /\ Ungrouped(u)'
  BY DEF Ungrouped, Order
<1>8. Head(evtCh).type = "add" => \A p \in Periods : u \in groups'[p] <=> p = Head(evtCh).p
  BY <1>4 DEF Ungrouped
<1>9. \A i \in DOMAIN evtCh' : i + 1 \in DOMAIN evtCh /\ evtCh'[i] = evtCh[i + 1]
  BY <1>0
<1> HIDE DEF At, FirstAt, LastAt, NextAt, NoneAt, Asked, Now
<1>10. \A i \in DOMAIN evtCh' : FirstAt(i, u)' /\ evtCh'[i].type = "add" => Ungrouped(u)'
  BY <1>0, <1>5, <1>7, <1>9 DEF Timer
<1>11. \A i, j \in DOMAIN evtCh' : NextAt(i, j, u)' /\ evtCh'[j].type = "add" => evtCh'[i].type = "del"
  BY <1>5, <1>9 DEF Timer
<1>12. \A p1, p2 \in Periods : u \in groups'[p1] /\ u \in groups'[p2] => p1 = p2
  BY <1>8
<1>13. Asked(u)' =>
         /\ Orders(Now', known'[u])
         /\ Now'.type = "add" =>
              /\ NoneAt(u)' => Ungrouped(u)'
              /\ \A i \in DOMAIN evtCh' : LastAt(i, u)' => evtCh'[i].type = "del"
  <2>1. ASSUME Asked(u)'
        PROVE  /\ Orders(Now, known[u])
               /\ Now.type = "add" => \A i \in DOMAIN evtCh : LastAt(i, u) => evtCh[i].type = "del"
    BY <2>1 DEF Timer
  <2>2. ASSUME Asked(u)', Now.type = "add", NoneAt(u)'
        PROVE  Ungrouped(u)'
    BY <1>0, <1>6, <1>7, <2>1, <2>2
  <2>3. ASSUME Asked(u)', Now.type = "add", NEW i \in DOMAIN evtCh', LastAt(i, u)'
        PROVE  evtCh'[i].type = "del"
    BY <1>5, <1>9, <2>1, <2>3
  <2> QED  BY <2>1, <2>2, <2>3 DEF Calm
<1>14. ~Asked(u)' =>
         /\ \A i \in DOMAIN evtCh' : LastAt(i, u)' => Orders(evtCh'[i], known'[u])
         /\ NoneAt(u)' =>
              \A p \in Periods : (u \in groups'[p] => known'[u] = p)
                                /\ (Live' /\ known'[u] = p => u \in groups'[p])
  <2>1. ASSUME ~Asked(u)', NEW i \in DOMAIN evtCh', LastAt(i, u)'
        PROVE  Orders(evtCh'[i], known'[u])
    BY <1>5, <1>9, <2>1 DEF Timer, Calm
  <2>2. ASSUME ~Asked(u)', NoneAt(u)'
        PROVE  \A p \in Periods : u \in groups'[p] <=> known'[u] = p
    <3>1. Orders(Head(evtCh), known'[u])
      BY <1>0, <1>6, <2>2 DEF Timer, Calm
    <3> QED  BY <1>7, <1>8, <3>1 DEF Orders, Ungrouped
  <2> QED  BY <2>1, <2>2
<1> QED  BY <1>10, <1>11, <1>12, <1>13, <1>14 DEF Timer

(* A request of the SMF asks for an order.                                   *)
LEMMA TimerAsk ==
    ASSUME Types, NEW u \in Urrs, Timer(u), UNCHANGED <<evtCh, groups>>,
           ~Asked(u), Asked(u)', Orders(Now', known'[u]),
           Now'.type = "add" => known[u] = None
    PROVE  Timer(u)'
<1>1. \A i : /\ At(i, u)' <=> At(i, u)
             /\ FirstAt(i, u)' <=> FirstAt(i, u)
             /\ LastAt(i, u)' <=> LastAt(i, u)
             /\ \A j : NextAt(i, j, u)' <=> NextAt(i, j, u)
  BY DEF At, FirstAt, LastAt, NextAt
<1>2. (NoneAt(u)' <=> NoneAt(u)) /\ (Ungrouped(u)' <=> Ungrouped(u))
  BY <1>1 DEF NoneAt, Ungrouped
<1>3. None \notin Periods
  BY ReportAssumption
<1>4. Now'.type = "add" =>
         /\ NoneAt(u) => Ungrouped(u)
         /\ \A i \in DOMAIN evtCh : LastAt(i, u) => evtCh[i].type = "del"
  <2>1. ASSUME Now'.type = "add", NoneAt(u)
        PROVE  Ungrouped(u)
    <3>1. \A p \in Periods : u \in groups[p] => known[u] = p
      BY <2>1, Zenon DEF Timer
    <3>2. known[u] = None
      BY <2>1
    <3> QED  BY <1>3, <3>1, <3>2 DEF Ungrouped
  <2>2. ASSUME Now'.type = "add", NEW i \in DOMAIN evtCh, LastAt(i, u)
        PROVE  evtCh[i].type = "del"
    <3>1. known[u] = None /\ Orders(evtCh[i], known[u])
      BY <2>2 DEF Timer
    <3> QED  BY <1>3, <3>1 DEF Orders
  <2> QED  BY <2>1, <2>2
<1> HIDE DEF At, FirstAt, LastAt, NextAt, NoneAt, Ungrouped, Asked, Now
<1> QED  BY <1>1, <1>2, <1>4 DEF Timer

(* A URR without periodic reports is created: no order comes.                *)
LEMMA TimerNone ==
    ASSUME Types, NEW u \in Urrs, Timer(u), UNCHANGED <<evtCh, groups>>, Live' => Live,
           ~Asked(u), ~Asked(u)', known[u] = None, known'[u] = NoPerio
    PROVE  Timer(u)'
<1>1. \A i : /\ At(i, u)' <=> At(i, u)
             /\ FirstAt(i, u)' <=> FirstAt(i, u)
             /\ LastAt(i, u)' <=> LastAt(i, u)
             /\ \A j : NextAt(i, j, u)' <=> NextAt(i, j, u)
  BY DEF At, FirstAt, LastAt, NextAt
<1>2. (NoneAt(u)' <=> NoneAt(u)) /\ (Ungrouped(u)' <=> Ungrouped(u))
  BY <1>1 DEF NoneAt, Ungrouped
<1>3. \A p \in Periods : None # p /\ NoPerio # p
  BY ReportAssumption
<1>4. \A e : Orders(e, NoPerio) <=> Orders(e, None)
  BY <1>3 DEF Orders
<1> HIDE DEF At, FirstAt, LastAt, NextAt, NoneAt, Ungrouped, Asked, Now, Orders
<1> QED  BY <1>1, <1>2, <1>3, <1>4 DEF Timer

(* perio takes all URRs out of a group when it closes.                       *)
LEMMA TimerClear ==
    ASSUME Types, NEW u \in Urrs, Timer(u), UNCHANGED <<evtCh, known, todo>>, ~Live',
           \A p \in Periods : u \in groups'[p] => u \in groups[p]
    PROVE  Timer(u)'
<1>1. \A i : /\ At(i, u)' <=> At(i, u)
             /\ FirstAt(i, u)' <=> FirstAt(i, u)
             /\ LastAt(i, u)' <=> LastAt(i, u)
             /\ \A j : NextAt(i, j, u)' <=> NextAt(i, j, u)
  BY DEF At, FirstAt, LastAt, NextAt
<1>2. (NoneAt(u)' <=> NoneAt(u)) /\ (Ungrouped(u) => Ungrouped(u)')
  BY <1>1 DEF NoneAt, Ungrouped
<1>3. (Asked(u)' <=> Asked(u)) /\ Now' = Now
  BY DEF Asked, Now
<1> HIDE DEF At, FirstAt, LastAt, NextAt, NoneAt, Ungrouped, Asked, Now, Orders
<1> QED  BY <1>1, <1>2, <1>3 DEF Timer

(* No order is asked for, or the same.                                       *)
LEMMA AskedSame ==
    ASSUME Types, NEW u,
           \/ todo' = todo
           \/ /\ todo # <<>> /\ Head(todo).op \notin {"add", "del"} /\ todo' = Tail(todo)
           \/ /\ todo = <<>> /\ todo' # <<>> /\ Head(todo').op \notin {"add", "del"}
    PROVE  (Asked(u)' <=> Asked(u)) /\ (Asked(u) => Now' = Now)
<1>1. CASE todo' = todo
  BY <1>1 DEF Asked, Now
<1>2. CASE todo # <<>> /\ Head(todo).op \notin {"add", "del"} /\ todo' = Tail(todo)
  <2>1. ~Asked(u)
    BY <1>2 DEF Asked
  <2>2. ~Asked(u)'
    BY <1>2, JobSteps DEF Asked, Types
  <2> QED  BY <2>1, <2>2
<1>3. CASE todo = <<>> /\ todo' # <<>> /\ Head(todo').op \notin {"add", "del"}
  BY <1>3 DEF Asked
<1> QED  BY <1>1, <1>2, <1>3

(* Each URR's orders, under the requests of the SMF.                         *)
LEMMA RequestTimers ==
    ASSUME Types, Timers, Request
    PROVE  Timers'
<1>1. todo = <<>> /\ UNCHANGED <<evtCh, groups, stage>>
  BY DEF Request, CreateURR, RemoveURR, UpdateFAR, Idle, rest, life
<1>2. (Live' <=> Live) /\ \A u : ~Asked(u)
  BY <1>1 DEF Live, Asked
<1>3. ASSUME NEW v \in Urrs, RemoveURR(v), NEW u \in Urrs
      PROVE  Timer(u)'
  <2>1. /\ known' = [known EXCEPT ![v] = None] /\ Head(todo') = Step("del", v, None) /\ todo' # <<>>
    BY <1>3 DEF RemoveURR
  <2>2. Now' = Ev("del", v, None) /\ (Asked(u)' <=> u = v)
    BY <2>1 DEF Now, Asked, Step
  <2>3. CASE u = v
    <3>1. known'[u] = None
      BY <2>1, <2>3 DEF Types
    <3>2. Orders(Now', known'[u]) /\ Now'.type # "add"
      BY <2>2, <3>1, ReportAssumption DEF Orders, Ev
    <3> QED  BY <1>1, <1>2, <2>2, <2>3, <3>2, TimerAsk DEF Timers
  <2>4. CASE u # v
    <3>1. known'[u] = known[u]
      BY <2>1, <2>4 DEF Types
    <3> QED  BY <1>1, <1>2, <2>2, <2>4, <3>1, TimerQuiet DEF Timers, Calm
  <2> QED  BY <2>3, <2>4
<1>4. ASSUME NEW v \in Urrs, NEW p \in Periods \cup {NoPerio}, CreateURR(v, p), NEW u \in Urrs
      PROVE  Timer(u)'
  <2>1. known' = [known EXCEPT ![v] = p] /\ known[v] = None /\ todo' # <<>>
    BY <1>4 DEF CreateURR
  <2>2. Head(todo') = IF p = NoPerio THEN Step("create", v, p) ELSE Step("add", v, p)
    BY <1>4 DEF CreateURR
  <2>3. Asked(u)' <=> u = v /\ p # NoPerio
    BY <2>1, <2>2 DEF Asked, Step
  <2>4. CASE u = v /\ p # NoPerio
    <3>1. known'[u] = p /\ p \in Periods /\ known[u] = None
      BY <2>1, <2>4 DEF Types
    <3>2. Now' = Ev("add", u, p)
      BY <2>2, <2>4 DEF Now, Step
    <3>3. Orders(Now', known'[u])
      BY <3>1, <3>2 DEF Orders, Ev
    <3> QED  BY <1>1, <1>2, <2>3, <2>4, <3>1, <3>3, TimerAsk DEF Timers
  <2>5. CASE u = v /\ p = NoPerio
    <3>1. known'[u] = NoPerio /\ known[u] = None
      BY <2>1, <2>5 DEF Types
    <3> QED  BY <1>1, <1>2, <2>3, <2>5, <3>1, TimerNone DEF Timers
  <2>6. CASE u # v
    <3>1. known'[u] = known[u]
      BY <2>1, <2>6 DEF Types
    <3> QED  BY <1>1, <1>2, <2>3, <2>6, <3>1, TimerQuiet DEF Timers, Calm
  <2> QED  BY <2>4, <2>5, <2>6
<1>5. ASSUME NEW a \in Actions, UpdateFAR(a), NEW u \in Urrs
      PROVE  Timer(u)'
  <2>1. todo' # <<>> /\ Head(todo').op = "get" /\ known' = known
    BY <1>5 DEF UpdateFAR, Step, table
  <2>2. (Asked(u)' <=> Asked(u)) /\ (Asked(u) => Now' = Now)
    BY <1>1, <2>1, AskedSame
  <2> QED  BY <1>1, <1>2, <2>1, <2>2, TimerQuiet DEF Timers, Calm
<1> QED  BY <1>3, <1>4, <1>5 DEF Request, Timers, Actions

(* Each URR's orders, under what main does.                                  *)
LEMMA MainTimers ==
    ASSUME Types, Timers, Main \/ ServeReport
    PROVE  Timers'
<1>1. CASE MainSend
  <2>1. CASE SendEvt(Ev(Head(todo).op, Head(todo).u, Head(todo).p)) /\ todo' = Tail(todo)
    <3>1. /\ todo # <<>> /\ UNCHANGED <<groups, known, stage>> /\ evtCh' = Append(evtCh, Now)
          /\ Head(todo).op \in {"add", "del"}
      BY <1>1, <2>1 DEF MainSend, SendEvt, Now, table, rest
    <3>2. Now \in Events
      BY <3>1, HeadFacts
    <3>3. \A u : ~Asked(u)'
      BY <2>1, <3>1, JobSteps DEF Asked, Types
    <3>4. ASSUME NEW u \in Urrs
          PROVE  Timer(u)'
      <4>1. Calm(u)
        BY <3>1 DEF Calm, Live
      <4>2. CASE Asked(u)
        BY <3>1, <3>2, <3>3, <4>1, <4>2, TimerSend DEF Timers
      <4>3. CASE ~Asked(u)
        <5>1. ~Order(Now, u)
          BY <3>1, <4>3 DEF Asked, Order, Now, Ev
        <5> QED  BY <3>1, <3>2, <3>3, <4>1, <4>3, <5>1, TimerAppend DEF Timers
      <4> QED  BY <4>2, <4>3
    <3> QED  BY <3>4 DEF Timers
  <2>2. CASE PanicIf("evtCh") /\ UNCHANGED todo
    <3>1. UNCHANGED <<groups, known, stage, evtCh, todo>>
      BY <1>1, <2>2 DEF MainSend, PanicIf, table, rest
    <3> QED  BY <3>1, AskedSame, TimerQuiet DEF Timers, Calm, Live
  <2> QED  BY <1>1, <2>1, <2>2 DEF MainSend
<1>2. CASE MainCall \/ MainReturn \/ MainPop \/ ServeReport
  <2>1. UNCHANGED <<groups, known, stage, evtCh>>
    BY <1>2 DEF MainCall, MainReturn, MainPop, ServeReport, table, rest, life
  <2>2. \/ todo' = todo
        \/ todo # <<>> /\ Head(todo).op \notin {"add", "del"} /\ todo' = Tail(todo)
    BY <1>2 DEF MainCall, MainReturn, MainPop, ServeReport, Types
  <2> QED  BY <2>1, <2>2, AskedSame, TimerQuiet DEF Timers, Calm, Live
<1> QED  BY <1>1, <1>2 DEF Main

(* Each URR's orders, under what perio does.                                 *)
LEMMA PerioTimers ==
    ASSUME Types, Timers, Closing, Perio
    PROVE  Timers'
<1>1. UNCHANGED <<known, todo, stage>>
  BY DEF Perio, PerioAdd, PerioDel, stopTicker, PerioTimeout, PerioQuery, PerioReply, PerioNotify,
         Quiet, table, life
<1>2. \A u : Calm(u) /\ (Asked(u)' <=> Asked(u)) /\ (Asked(u) => Now' = Now)
  BY <1>1, AskedSame DEF Calm, Live
<1>3. CASE PerioAdd
  <2>1. /\ Head(evtCh).u \in Urrs /\ Head(evtCh).p \in Periods /\ evtCh # <<>> /\ evtCh' = Tail(evtCh)
        /\ Head(evtCh).type = "add"
    BY <1>3, TakeTypes DEF PerioAdd, Take
  <2>2. \A p \in Periods : groups'[p] = IF p = Head(evtCh).p THEN groups[p] \cup {Head(evtCh).u} ELSE groups[p]
    BY <1>3, <2>1 DEF PerioAdd, Types
  <2>3. ASSUME NEW u \in Urrs
        PROVE  Timer(u)'
    <3>1. CASE u = Head(evtCh).u
      <4>1. Order(Head(evtCh), u)
        BY <2>1, <3>1 DEF Order
      <4>2. \A p \in Periods : u \in groups'[p] <=>
                              Head(evtCh).type = "add" /\ (p = Head(evtCh).p \/ u \in groups[p])
        BY <2>1, <2>2, <3>1
      <4> QED  BY <1>2, <2>1, <4>1, <4>2, TimerTake DEF Timers
    <3>2. CASE u # Head(evtCh).u
      <4>1. ~Order(Head(evtCh), u)
        BY <3>2 DEF Order
      <4>2. \A p \in Periods : u \in groups'[p] <=> u \in groups[p]
        BY <2>2, <3>2
      <4> QED  BY <1>2, <2>1, <4>1, <4>2, TimerShift DEF Timers
    <3> QED  BY <3>1, <3>2
  <2> QED  BY <2>3 DEF Timers
<1>4. CASE PerioDel
  <2>1. /\ Head(evtCh).u \in Urrs /\ evtCh # <<>> /\ evtCh' = Tail(evtCh) /\ Head(evtCh).type = "del"
    BY <1>4, TakeTypes DEF PerioDel, Take
  <2>2. \A p1, p2 \in Periods : Head(evtCh).u \in groups[p1] /\ Head(evtCh).u \in groups[p2] => p1 = p2
    BY <2>1 DEF Timers, Timer
  <2>3. \A p \in Periods : groups'[p] = groups[p] \ {Head(evtCh).u}
    <3>1. CASE \E p \in Periods : Head(evtCh).u \in groups[p]
                               /\ groups' = [groups EXCEPT ![p] = @ \ {Head(evtCh).u}]
      <4>1. PICK p \in Periods : Head(evtCh).u \in groups[p]
                               /\ groups' = [groups EXCEPT ![p] = @ \ {Head(evtCh).u}]
        BY <3>1
      <4>2. \A o \in Periods : groups'[o] = IF o = p THEN groups[o] \ {Head(evtCh).u} ELSE groups[o]
        BY <4>1 DEF Types
      <4>3. \A o \in Periods : o # p => Head(evtCh).u \notin groups[o]
        BY <2>2, <4>1
      <4> QED  BY <4>2, <4>3
    <3>2. CASE (\A p \in Periods : Head(evtCh).u \notin groups[p]) /\ UNCHANGED groups
      BY <3>2
    <3> QED  BY <1>4, <3>1, <3>2 DEF PerioDel
  <2>4. ASSUME NEW u \in Urrs
        PROVE  Timer(u)'
    <3>1. CASE u = Head(evtCh).u
      <4>1. Order(Head(evtCh), u)
        BY <2>1, <3>1 DEF Order
      <4>2. \A p \in Periods : u \in groups'[p] <=>
                              Head(evtCh).type = "add" /\ (p = Head(evtCh).p \/ u \in groups[p])
        BY <2>1, <2>3, <3>1
      <4> QED  BY <1>2, <2>1, <4>1, <4>2, TimerTake DEF Timers
    <3>2. CASE u # Head(evtCh).u
      <4>1. ~Order(Head(evtCh), u)
        BY <3>2 DEF Order
      <4>2. \A p \in Periods : u \in groups'[p] <=> u \in groups[p]
        BY <2>3, <3>2
      <4> QED  BY <1>2, <2>1, <4>1, <4>2, TimerShift DEF Timers
    <3> QED  BY <3>1, <3>2
  <2> QED  BY <2>4 DEF Timers
<1>5. ASSUME NEW type \in {"timeout", "close"}, Take(type), UNCHANGED groups
      PROVE  Timers'
  <2>1. evtCh # <<>> /\ evtCh' = Tail(evtCh) /\ \A u \in Urrs : ~Order(Head(evtCh), u)
    BY <1>5 DEF Take, Order
  <2> QED  BY <1>2, <1>5, <2>1, TimerShift DEF Timers
<1>6. CASE stopTicker \/ PerioQuery \/ PerioReply \/ PerioNotify
  <2>1. UNCHANGED <<evtCh, groups>>
    BY <1>6 DEF stopTicker, PerioQuery, PerioReply, PerioNotify, PanicIf
  <2> QED  BY <1>2, <2>1, TimerQuiet DEF Timers
<1>7. CASE PerioTimeout
  BY <1>5, <1>7 DEF PerioTimeout
<1>8. CASE PerioClose
  <2>1. CASE Take("close") /\ UNCHANGED groups
    BY <1>5, <2>1
  <2>2. CASE perio.pc = "close" /\ UNCHANGED evtCh
             /\ \E p \in Periods : groups' = [groups EXCEPT ![p] = {}]
    <3>1. ~Live'
      BY <1>1, <2>2 DEF Closing, Live
    <3>2. \A u \in Urrs : \A p \in Periods : u \in groups'[p] => u \in groups[p]
      BY <2>2 DEF Types
    <3> QED  BY <1>1, <2>2, <3>1, <3>2, TimerClear DEF Timers
  <2>3. CASE UNCHANGED <<evtCh, groups>>
    BY <1>2, <2>3, TimerQuiet DEF Timers
  <2> QED  BY <1>8, <2>1, <2>2, <2>3 DEF PerioClose
<1> QED  BY <1>3, <1>4, <1>6, <1>7, <1>8 DEF Perio

(* Every step keeps the orders about each URR alternating.                   *)
LEMMA TimersKept ==
    ASSUME Types, Timers, Closing, [Next]_vars
    PROVE  Timers'
<1>1. CASE UNCHANGED vars
  BY <1>1, AskedSame, TimerQuiet DEF vars, Timers, Calm, Live
<1>2. CASE MuxReport \/ MuxNotify \/ Stop \/ MainExit \/ MuxClose
  <2>1. UNCHANGED <<evtCh, groups, known, todo>> /\ (Live' => Live)
    BY <1>2 DEF MuxReport, MuxNotify, Stop, MainExit, MuxClose, PanicIf, table, rest, life, Live
  <2> QED  BY <2>1, AskedSame, TimerQuiet DEF Timers, Calm
<1>3. CASE Close
  <2> DEFINE e == Ev("close", None, None)
  <2>1. UNCHANGED <<groups, known, todo>> /\ (Live' => Live) /\ evtCh' = Append(evtCh, e)
    BY <1>3 DEF Close, SendEvt, table, rest, Live
  <2>2. e \in Events /\ \A u : ~Order(e, u)
    BY EventsAre DEF Order, Ev
  <2> HIDE DEF e
  <2> QED  BY <2>1, <2>2, AskedSame, TimerAppend DEF Timers, Calm
<1>4. ASSUME NEW p \in Periods, Tick(p) \/ TickSend(p)
      PROVE  Timers'
  <2>1. CASE Tick(p)
    <3>1. UNCHANGED <<evtCh, groups, known, todo, stage>>
      BY <2>1 DEF Tick, table, life
    <3> QED  BY <3>1, AskedSame, TimerQuiet DEF Timers, Calm, Live
  <2>2. CASE TickSend(p)
    <3> DEFINE e == Ev("timeout", None, p)
    <3>1. UNCHANGED <<groups, known, todo, stage>> /\ evtCh' = Append(evtCh, e)
      BY <2>2 DEF TickSend, SendEvt, table
    <3>2. e \in Events /\ \A u : ~Order(e, u)
      BY EventsAre DEF Order, Ev
    <3> HIDE DEF e
    <3> QED  BY <3>1, <3>2, AskedSame, TimerAppend DEF Timers, Calm, Live
  <2> QED  BY <1>4, <2>1, <2>2
<1> QED
  BY <1>1, <1>2, <1>3, <1>4, RequestTimers, MainTimers, PerioTimers DEF Next, Work

-----------------------------------------------------------------------------
(* The invariant holds at the start.                                         *)
LEMMA InitHolds == Init => ReportInv
<1> SUFFICES ASSUME Init PROVE ReportInv
  OBVIOUS
<1>1. Types
  <2>1. /\ <<>> \in Jobs /\ <<>> \in Seq(Events) /\ <<>> \in Seq(Reports) /\ Len(<<>>) = 0
    BY DEF Jobs
  <2>2. perio \in PerioStates /\ mux \in [pc : {"idle", "notify", "exit"}, sr : Reports \cup {NoSr}]
    BY DEF Init, PerioStates
  <2>3. mux.pc # "notify" /\ ~called
    BY DEF Init
  <2>4. q \in 0..QLen /\ far \in Actions /\ kernel \subseteq Urrs /\ closed \subseteq {"evtCh", "srCh"}
    BY ReportAssumption DEF Init, Actions
  <2>5. known \in [Urrs -> Periods \cup {None, NoPerio}] /\ groups \in [Periods -> SUBSET Urrs]
        /\ ticker \in [Periods -> {"off", "wait", "send"}]
    BY DEF Init
  <2>6. late \in BOOLEAN /\ stage \in {"run", "stop", "close", "done"} /\ todo \in Jobs
    BY <2>1 DEF Init
  <2>7. /\ evtCh \in Seq(Events) /\ Len(evtCh) <= EvtLen
        /\ srCh \in Seq(Reports) /\ Len(srCh) <= SrLen
    BY <2>1, ReportAssumption DEF Init
  <2> QED  BY <2>2, <2>3, <2>4, <2>5, <2>6, <2>7, Zenon DEF Types
<1>2. Closing
  BY DEF Init, Closing, Live
<1>3. Tickers
  BY DEF Init, Tickers, TickerPerGroup
<1>4. Buffer
  BY DEF Init, Buffer, Set, Step
<1>5. Timers
  <2>1. DOMAIN evtCh = {} /\ \A p \in Periods : groups[p] = {}
    BY DEF Init
  <2>2. \A u \in Urrs : known[u] = None /\ ~Asked(u)
    BY DEF Init, Asked
  <2> QED  BY <2>1, <2>2, ReportAssumption DEF Timers, Timer
<1> QED  BY <1>1, <1>2, <1>3, <1>4, <1>5 DEF ReportInv

(* The invariant is inductive.                                               *)
LEMMA ReportInvHolds == Spec => []ReportInv
<1>1. ReportInv /\ [Next]_vars => ReportInv'
  BY NextTypes, ClosingKept, TickersKept, BufferKept, TimersKept DEF ReportInv
<1> QED  BY <1>1, InitHolds, PTL DEF Spec

(* The shape of the state, with the buffer and the channels within their     *)
(* bounds, for every set of URRs and every length of the channels.           *)
THEOREM TypeCorrect == Spec => []TypeOK
<1>1. ReportInv => TypeOK
  <2> SUFFICES ASSUME Types PROVE TypeOK
    BY DEF ReportInv
  <2>1. Len(todo) <= 3
    BY JobLength, Zenon DEF Types
  <2>2. perio.pc \in {"range", "stop", "query", "reply", "notify", "close", "exit"}
        /\ mux.pc \in {"idle", "notify", "exit"}
    BY DEF Types, PerioStates
  <2> QED  BY <2>1, <2>2, Zenon DEF Types, TypeOK, Actions
<1> QED  BY <1>1, ReportInvHolds, PTL

(* A period has a ticker goroutine exactly while one of its URRs needs it or *)
(* perio is about to stop it: none leaks and none is missing.                *)
THEOREM TickerPerGroupHolds == Spec => []TickerPerGroup
<1>1. ReportInv => TickerPerGroup
  BY DEF ReportInv, Tickers
<1> QED  BY <1>1, ReportInvHolds, PTL

(* A FAR that stops buffering leaves no packet behind but those pushed later.*)
THEOREM NoPacketLeftBehindHolds == Spec => []NoPacketLeftBehind
<1>1. ReportInv => NoPacketLeftBehind
  BY DEF ReportInv, Buffer, NoPacketLeftBehind
<1> QED  BY <1>1, ReportInvHolds, PTL

(* Only the first step of a job can be an order to perio.                    *)
LEMMA JobRest ==
    \A j \in Jobs : \A k \in 2..Len(j) : j[k].op \notin {"add", "del"}
  BY DEF Jobs, Step, Get, Pop, Set

(* What is under way: evtCh, then what main has to do.                       *)
LEMMA UnderWayIs ==
    ASSUME Types
    PROVE  /\ DOMAIN UnderWay = 1..(Len(evtCh) + Len(todo))
           /\ \A i \in DOMAIN evtCh : i \in DOMAIN UnderWay /\ UnderWay[i] = evtCh[i]
           /\ \A i \in DOMAIN UnderWay \ DOMAIN evtCh :
                 /\ i - Len(evtCh) \in 1..Len(todo) /\ i > Len(evtCh)
                 /\ UnderWay[i].type = todo[i - Len(evtCh)].op
                 /\ UnderWay[i].u = todo[i - Len(evtCh)].u
                 /\ UnderWay[i].p = todo[i - Len(evtCh)].p
<1> DEFINE t == [i \in 1..Len(todo) |-> Ev(todo[i].op, todo[i].u, todo[i].p)]
           S == Events \cup {t[i] : i \in 1..Len(todo)}
<1>1. Len(todo) \in Nat
  BY JobLength DEF Types
<1>2. t \in Seq(S) /\ Len(t) = Len(todo) /\ evtCh \in Seq(S)
  BY <1>1 DEF Types
<1>3. \A i \in 1..Len(todo) : t[i].type = todo[i].op /\ t[i].u = todo[i].u /\ t[i].p = todo[i].p
  BY DEF Ev
<1>4. UnderWay = evtCh \o t
  BY DEF UnderWay
<1> HIDE DEF t, S
<1>5. /\ Len(evtCh \o t) = Len(evtCh) + Len(t) /\ evtCh \o t \in Seq(S)
      /\ \A i \in 1..Len(evtCh) + Len(t) : (evtCh \o t)[i] = IF i <= Len(evtCh) THEN evtCh[i] ELSE t[i - Len(evtCh)]
  BY <1>2, ConcatProperties
<1>6. DOMAIN evtCh = 1..Len(evtCh) /\ Len(evtCh) \in Nat /\ DOMAIN (evtCh \o t) = 1..Len(evtCh \o t)
  BY <1>2, <1>5
<1> QED  BY <1>1, <1>2, <1>3, <1>4, <1>5, <1>6

(* Working off what is under way makes the periodic reports those the        *)
(* sessions asked for.                                                       *)
THEOREM PerioFollowsHolds == Spec => []PerioFollows
<1>1. ASSUME ReportInv, Live, NEW u \in Urrs
      PROVE  /\ \A i \in DOMAIN UnderWay :
                   /\ Order(UnderWay[i], u)
                   /\ \A j \in DOMAIN UnderWay : j > i => ~Order(UnderWay[j], u)
                   => Orders(UnderWay[i], known[u])
             /\ (\A i \in DOMAIN UnderWay : ~Order(UnderWay[i], u)) =>
                   \A p \in Periods : u \in groups[p] <=> known[u] = p
  <2>0. Types /\ Timer(u) /\ Len(todo) \in 0..3 /\ todo \in Jobs /\ DOMAIN evtCh = 1..Len(evtCh) /\ Len(evtCh) \in Nat
    BY <1>1, JobLength DEF ReportInv, Timers, Types
  <2>1. Asked(u) => /\ Len(evtCh) + 1 \in DOMAIN UnderWay /\ Order(UnderWay[Len(evtCh) + 1], u)
                    /\ Len(evtCh) + 1 \notin DOMAIN evtCh
    <3>1. ASSUME Asked(u)
          PROVE  Len(todo) > 0 /\ Head(todo) = todo[1]
      BY <2>0, <3>1 DEF Asked, Jobs
    <3> QED  BY <2>0, <3>1, UnderWayIs DEF Asked, Order
  <2>2. ASSUME NEW i \in DOMAIN UnderWay \ DOMAIN evtCh, Order(UnderWay[i], u)
        PROVE  /\ Asked(u) /\ UnderWay[i].type = Now.type /\ UnderWay[i].p = Now.p
    <3> DEFINE k == i - Len(evtCh)
    <3>1. k \in 1..Len(todo) /\ UnderWay[i].type = todo[k].op /\ UnderWay[i].u = todo[k].u /\ UnderWay[i].p = todo[k].p
      BY <2>0, <2>2, UnderWayIs
    <3> HIDE DEF k
    <3>2. k = 1
      BY <2>0, <2>2, <3>1, JobRest DEF Order
    <3>3. todo # <<>> /\ Head(todo) = todo[1]
      BY <2>0, <3>1, <3>2 DEF Jobs
    <3> QED  BY <2>2, <3>1, <3>2, <3>3 DEF Asked, Order, Now, Ev
  <2>3. ASSUME NEW i \in DOMAIN UnderWay, Order(UnderWay[i], u),
               \A j \in DOMAIN UnderWay : j > i => ~Order(UnderWay[j], u)
        PROVE  Orders(UnderWay[i], known[u])
    <3>1. CASE i \in DOMAIN evtCh
      <4>1. ~Asked(u)
        BY <2>0, <2>1, <2>3, <3>1
      <4>2. LastAt(i, u) /\ UnderWay[i] = evtCh[i]
        BY <2>0, <2>3, <3>1, UnderWayIs DEF LastAt, At
      <4> QED  BY <2>0, <3>1, <4>1, <4>2 DEF Timer
    <3>2. CASE i \notin DOMAIN evtCh
      BY <2>0, <2>2, <2>3, <3>2 DEF Timer, Orders
    <3> QED  BY <3>1, <3>2
  <2>4. ASSUME \A i \in DOMAIN UnderWay : ~Order(UnderWay[i], u), NEW p \in Periods
        PROVE  u \in groups[p] <=> known[u] = p
    <3>1. NoneAt(u) /\ ~Asked(u)
      BY <2>0, <2>1, <2>4, UnderWayIs DEF NoneAt, At
    <3> QED  BY <1>1, <2>0, <3>1 DEF Timer
  <2> QED  BY <2>3, <2>4
<1>2. ReportInv => PerioFollows
  BY <1>1 DEF PerioFollows, Live
<1> QED  BY <1>2, ReportInvHolds, PTL
=============================================================================
