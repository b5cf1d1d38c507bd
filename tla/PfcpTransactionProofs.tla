----------------------- MODULE PfcpTransactionProofs -----------------------
(***************************************************************************)
(* The PFCP transactions of the UPF implement PfcpService, for any timers, *)
(* delays and numbers of requests: PfcpAssumption says that an answer is   *)
(* kept longer than its request can still arrive.                          *)
(*                                                                         *)
(* The argument is one of time.  While an answer is kept, its timer runs   *)
(* longer than the SMF will repeat the request and longer than any copy of *)
(* it is under way; so when the timer fires there is no copy left, and the *)
(* request cannot be taken for a new one.                                  *)
(***************************************************************************)
EXTENDS PfcpTransaction, TLAPS

-----------------------------------------------------------------------------
(* The inductive invariant.                                                  *)

Packets == [kind : {"req", "rsp"}, seq : Reqs, age : 0..MaxDelay]
           \cup [kind : {"rpt", "rptRsp"}, seq : Rpts, age : 0..MaxDelay]
Expired == [type : {"RX"}, id : Reqs] \cup [type : {"TX"}, id : Rpts]

(* TypeOK, with the sequence numbers told apart by the kind of packet.       *)
Shape ==
    /\ net \subseteq Packets
    /\ peer \in [Reqs -> [st : {"idle", "wait", "answered"}, left : 0..PeerSpan]]
    /\ rxTrans \in [Reqs -> [live : BOOLEAN, buf : BOOLEAN, timer : Timers]]
    /\ txSeq \in 0..MaxTx
    /\ txTrans \in [Rpts -> [st : {"none", "open", "answered", "gaveup"},
                             cnt : 0..MaxRetrans, timer : Timers]]
    /\ trToCh \subseteq Expired
    /\ served \in [Reqs -> Nat] /\ received \subseteq Rpts /\ up \in BOOLEAN

(* Copies of request s, and whether the SMF may still make one.              *)
Copies(s) == {m \in net : m.kind = "req" /\ m.seq = s}
Repeating(s) == peer[s].st = "wait" /\ peer[s].left > 0

(* A request is served at most once.                                         *)
Once(s) == served[s] \in {0, 1}

(* A request that was not served has no transaction and no answer.           *)
Unserved(s) ==
    served[s] = 0 =>
        /\ rxTrans[s] = NoRx
        /\ peer[s].st # "answered"
        /\ \A m \in net : ~(m.kind = "rsp" /\ m.seq = s)
        /\ [type |-> "RX", id |-> s] \notin trToCh

(* A request that was never sent has neither copies nor been served.         *)
Unsent(s) == peer[s].st = "idle" => served[s] = 0 /\ Copies(s) = {}

(* The timer of a served request outlives its copies.                        *)
Outlived(s) ==
    up /\ served[s] = 1 =>
        IF rxTrans[s].live /\ rxTrans[s].timer # Off
        THEN /\ Repeating(s) => peer[s].left + MaxDelay < rxTrans[s].timer
             /\ \A m \in Copies(s) : MaxDelay < rxTrans[s].timer + m.age
        ELSE ~Repeating(s) /\ Copies(s) = {}

(* An expired timer does not run.                                            *)
Fired(s) == [type |-> "RX", id |-> s] \in trToCh => rxTrans[s].timer = Off

(* The numbers of the reports of the UPF.                                    *)
Numbered ==
    /\ \A i \in Rpts : i >= txSeq => txTrans[i].st = "none"
    /\ \A m \in net : m.kind \in {"rpt", "rptRsp"} => txTrans[m.seq].st # "none"

OnTime == \A s \in Reqs : Once(s) /\ Unserved(s) /\ Unsent(s) /\ Outlived(s) /\ Fired(s)
IInv == Shape /\ OnTime /\ Numbered

-----------------------------------------------------------------------------
(* The constants.                                                            *)

LEMMA Delays ==
    /\ MaxTx \in Nat \ {0} /\ SeqMod \in Nat \ {0} /\ RetransTimeout \in Nat \ {0}
    /\ MaxRetrans \in Nat /\ MaxDelay \in Nat \ {0} /\ PeerSpan \in Nat
    /\ RxTimeout \in Nat /\ Off \in Nat
    /\ PeerSpan + MaxDelay < RxTimeout
    /\ RxTimeout < Off /\ RetransTimeout < Off /\ 0 < Off
<1>1. RetransTimeout * (MaxRetrans + 1) \in Nat
  BY PfcpAssumption
<1> QED
  BY <1>1, PfcpAssumption DEF RxTimeout, Off

LEMMA CountDown ==
    ASSUME NEW t \in Timers
    PROVE  /\ Down(t) \in Timers
           /\ t = Off => Down(t) = Off
           /\ t = 0 => Down(t) = 0
           /\ t # Off /\ t > 0 => Down(t) = t - 1
  BY Delays DEF Down, Timers

LEMMA WireRange ==
    ASSUME NEW i \in Rpts
    PROVE  /\ Wire(i) \in Rpts
           /\ MaxTx <= SeqMod => Wire(i) = i
<1>1. i \in Nat /\ i < MaxTx
  BY Delays DEF Rpts
<1>2. i % SeqMod \in 0..(SeqMod - 1)
  BY <1>1, Delays
<1>3. i < SeqMod => i % SeqMod = i
  BY <1>1, Delays
<1>4. i >= SeqMod => i % SeqMod <= i
  BY <1>1, <1>2, Delays
<1> QED
  BY <1>1, <1>2, <1>3, <1>4, Delays DEF Wire, Rpts

-----------------------------------------------------------------------------
(* The shape of the state.                                                   *)

LEMMA InitShape == Init => Shape
  BY Delays DEF Init, Shape, NoRx, Timers, Rpts

LEMMA NewPackets ==
    /\ \A s \in Reqs : Pkt("req", s) \in Packets /\ Pkt("rsp", s) \in Packets
    /\ \A i \in Rpts : Pkt("rpt", i) \in Packets /\ Pkt("rptRsp", i) \in Packets
  BY Delays DEF Pkt, Packets

LEMMA TickShape == Shape /\ Tick => Shape'
<1> SUFFICES ASSUME Shape, Tick PROVE Shape'
  OBVIOUS
<1>1. net' \subseteq Packets
  <2> SUFFICES ASSUME NEW m \in net PROVE [m EXCEPT !.age = @ + 1] \in Packets
    BY DEF Tick
  <2>1. m \in Packets /\ m.age < MaxDelay
    BY DEF Shape, Tick
  <2> QED
    BY <2>1, Delays DEF Packets
<1>2. peer' \in [Reqs -> [st : {"idle", "wait", "answered"}, left : 0..PeerSpan]]
  <2>1. \A s \in Reqs : Down(peer[s].left) \in 0..PeerSpan
    BY Delays DEF Shape, Down
  <2> QED
    BY <2>1 DEF Shape, Tick
<1>3. rxTrans' \in [Reqs -> [live : BOOLEAN, buf : BOOLEAN, timer : Timers]]
  BY CountDown DEF Shape, Tick
<1>4. txTrans' \in [Rpts -> [st : {"none", "open", "answered", "gaveup"},
                             cnt : 0..MaxRetrans, timer : Timers]]
  BY CountDown DEF Shape, Tick
<1> QED
  BY <1>1, <1>2, <1>3, <1>4 DEF Shape, Tick

LEMMA ArriveShape ==
    ASSUME Shape, NEW m \in net, NEW dup \in BOOLEAN, Arrive(m, dup)
    PROVE  Shape'
<1>1. m \in Packets
  BY DEF Shape
<1>2. m.kind \in {"req", "rsp"} => m.seq \in Reqs
  BY <1>1 DEF Packets
<1>3. m.kind \in {"rpt", "rptRsp"} => m.seq \in Rpts
  BY <1>1 DEF Packets
<1>4. CASE PeerGetsAnswer(m, dup)
  BY <1>2, <1>4 DEF Shape, PeerGetsAnswer, Consume
<1>5. CASE PeerAnswers(m, dup)
  BY <1>3, <1>5, NewPackets DEF Shape, PeerAnswers, ConsumeAndSend
<1>6. ASSUME NEW ans \in BOOLEAN, NewRxTransaction(m, ans, dup)
      PROVE  Shape'
  <2>1. net' \subseteq Packets
    BY <1>2, <1>6, NewPackets DEF Shape, NewRxTransaction, Consume, ConsumeAndSend
  <2>2. RxTimeout \in Timers
    BY Delays DEF Timers
  <2> QED
    BY <1>2, <1>6, <2>1, <2>2 DEF Shape, NewRxTransaction
<1>7. CASE RxRecv(m, dup)
  BY <1>2, <1>7, NewPackets DEF Shape, RxRecv, Consume, ConsumeAndSend
<1>8. CASE TxRecv(m, dup)
  <2>1. m.seq \in Rpts /\ Wire(m.seq) \in Rpts
    BY <1>3, <1>8, WireRange DEF TxRecv
  <2>2. Off \in Timers
    BY Delays DEF Timers
  <2>3. txTrans' \in [Rpts -> [st : {"none", "open", "answered", "gaveup"},
                               cnt : 0..MaxRetrans, timer : Timers]]
    BY <1>8, <2>1, <2>2 DEF Shape, TxRecv
  <2> QED
    BY <1>8, <2>1, <2>3 DEF Shape, TxRecv, Consume
<1> QED
  BY <1>4, <1>5, <1>6, <1>7, <1>8 DEF Arrive

LEMMA TimeoutShape ==
    ASSUME Shape, NEW e \in trToCh, HandleTimeout(e)
    PROVE  Shape'
<1>1. e \in Expired
  BY DEF Shape
<1>2. CASE e.type = "TX" /\ TxTimeout(e.id) /\ UNCHANGED rxTrans
  <2>1. e.id \in Rpts
    BY <1>1, <1>2 DEF Expired
  <2>2. RetransTimeout \in Timers /\ MaxRetrans \in Nat
    BY Delays DEF Timers
  <2>3. net' \subseteq Packets
    BY <1>2, <2>1, NewPackets DEF Shape, TxTimeout
  <2>4. txTrans' \in [Rpts -> [st : {"none", "open", "answered", "gaveup"},
                               cnt : 0..MaxRetrans, timer : Timers]]
    BY <1>2, <2>1, <2>2 DEF Shape, TxTimeout
  <2> QED
    BY <1>2, <2>3, <2>4 DEF Shape, HandleTimeout
<1>3. CASE e.type = "RX" /\ RxTimeoutHandler(e.id) /\ UNCHANGED <<txTrans, net>>
  <2>1. NoRx \in [live : BOOLEAN, buf : BOOLEAN, timer : Timers]
    BY Delays DEF NoRx, Timers
  <2> QED
    BY <1>3, <2>1 DEF Shape, HandleTimeout, RxTimeoutHandler
<1> QED
  BY <1>2, <1>3 DEF HandleTimeout

LEMMA NextShape == Shape /\ [Next]_vars => Shape'
<1> SUFFICES ASSUME Shape, [Next]_vars PROVE Shape'
  OBVIOUS
<1>1. CASE UNCHANGED vars
  BY <1>1 DEF Shape, vars
<1>2. ASSUME NEW m \in net, Lose(m) PROVE Shape'
  BY <1>2 DEF Shape, Lose
<1>3. ASSUME NEW m \in net, NEW dup \in BOOLEAN, Arrive(m, dup) PROVE Shape'
  BY <1>3, ArriveShape
<1>4. CASE Tick
  BY <1>4, TickShape
<1>5. CASE FireTimer
  <2>1. Off \in Timers
    BY Delays DEF Timers
  <2> QED
    BY <1>5, <2>1 DEF Shape, FireTimer, Fire, Expired
<1>6. ASSUME NEW e \in trToCh, HandleTimeout(e) PROVE Shape'
  BY <1>6, TimeoutShape
<1>7. CASE sendReqTo
  <2>1. txSeq \in Rpts /\ txSeq + 1 \in 0..MaxTx
    BY <1>7, Delays DEF Shape, sendReqTo, Rpts
  <2>2. RetransTimeout \in Timers /\ 0 \in 0..MaxRetrans
    BY Delays DEF Timers
  <2> QED
    BY <1>7, <2>1, <2>2, NewPackets DEF Shape, sendReqTo
<1>8. CASE stopTrTimers
  <2>1. Off \in Timers
    BY Delays DEF Timers
  <2> QED
    BY <1>8, <2>1 DEF Shape, stopTrTimers
<1>9. ASSUME NEW s \in Reqs, PeerSend(s) PROVE Shape'
  <2>1. PeerSpan \in 0..PeerSpan
    BY Delays
  <2> QED
    BY <1>9, <2>1, NewPackets DEF Shape, PeerSend
<1> QED
  BY <1>1, <1>2, <1>3, <1>4, <1>5, <1>6, <1>7, <1>8, <1>9 DEF Next, Network, HandleTimeouts

LEMMA ShapeTypeOK == Shape => TypeOK
  BY DEF Shape, TypeOK, Packets, Expired

(* The state of the transactions keeps its type, for any timers and delays:  *)
(* the timers stay below Off, and no retransmission is counted beyond        *)
(* MaxRetrans (TxTransaction.handleTimeout).                                 *)
THEOREM TransactionTypes == Spec => []TypeOK
  BY InitShape, NextShape, ShapeTypeOK, PTL DEF Spec

-----------------------------------------------------------------------------
(* Requests are served once, and the timers outlive their copies.            *)

LEMMA InitOnTime == Init => OnTime /\ Numbered
  BY Delays DEF Init, OnTime, Once, Unserved, Unsent, Outlived, Fired, Numbered,
     NoRx, Copies, Repeating, Rpts

(* A step that adds no copy of a request, and leaves the requests and their  *)
(* transactions alone.                                                       *)
LEMMA QuietOnTime ==
    ASSUME OnTime, UNCHANGED <<peer, rxTrans, trToCh, served, up>>,
           \A p \in net' : p.kind = "req" => p \in net,
           \A p \in net' : p.kind = "rsp" => p \in net \/ served[p.seq] # 0
    PROVE  OnTime'
<1> SUFFICES ASSUME NEW s \in Reqs
             PROVE  (Once(s) /\ Unserved(s) /\ Unsent(s) /\ Outlived(s) /\ Fired(s))'
  BY DEF OnTime
<1>1. Once(s) /\ Unserved(s) /\ Unsent(s) /\ Outlived(s) /\ Fired(s)
  BY DEF OnTime
<1>2. Copies(s)' \subseteq Copies(s)
  BY DEF Copies
<1>3. Once(s)' /\ Fired(s)'
  BY <1>1 DEF Once, Fired
<1>4. Unserved(s)'
  BY <1>1 DEF Unserved
<1>5. Unsent(s)'
  BY <1>1, <1>2 DEF Unsent
<1>6. Outlived(s)'
  BY <1>1, <1>2 DEF Outlived, Repeating
<1> QED
  BY <1>3, <1>4, <1>5, <1>6

LEMMA TickOnTime == Shape /\ OnTime /\ Tick => OnTime'
<1> SUFFICES ASSUME Shape, OnTime, Tick, NEW s \in Reqs
             PROVE  (Once(s) /\ Unserved(s) /\ Unsent(s) /\ Outlived(s) /\ Fired(s))'
  BY DEF OnTime
<1>1. Once(s) /\ Unserved(s) /\ Unsent(s) /\ Outlived(s) /\ Fired(s)
  BY DEF OnTime
<1>2. /\ rxTrans[s].timer \in Timers
      /\ rxTrans'[s].live = rxTrans[s].live /\ rxTrans'[s].buf = rxTrans[s].buf
      /\ rxTrans'[s].timer = Down(rxTrans[s].timer)
  BY DEF Shape, Tick
<1>3. /\ peer[s].left \in 0..PeerSpan
      /\ peer'[s].st = peer[s].st /\ peer'[s].left = Down(peer[s].left)
  BY DEF Shape, Tick
<1>4. peer[s].left \in Timers /\ peer[s].left # Off
  BY <1>3, Delays DEF Timers
<1>5. ASSUME NEW p \in net'
      PROVE  \E m \in net : /\ p.kind = m.kind /\ p.seq = m.seq /\ p.age = m.age + 1
                            /\ m.age \in 0..MaxDelay /\ m.age < MaxDelay
  <2>1. PICK m \in net : p = [m EXCEPT !.age = @ + 1]
    BY DEF Tick
  <2>2. m \in Packets
    BY DEF Shape
  <2>3. m.age \in 0..MaxDelay /\ p.kind = m.kind /\ p.seq = m.seq /\ p.age = m.age + 1
    BY <2>1, <2>2 DEF Packets
  <2> QED
    BY <2>3 DEF Tick
<1>6. Copies(s) = {} => Copies(s)' = {}
  BY <1>5 DEF Copies
<1>7. Once(s)' /\ Fired(s)'
  BY <1>1, <1>2, CountDown DEF Once, Fired, Tick
<1>8. Unserved(s)'
  <2>1. rxTrans[s] = NoRx => rxTrans'[s] = NoRx
    BY CountDown, Delays DEF Tick, NoRx, Timers
  <2> QED
    BY <1>1, <1>3, <1>5, <2>1 DEF Unserved, Tick
<1>9. Unsent(s)'
  BY <1>1, <1>3, <1>6 DEF Unsent, Tick
<1>10. Outlived(s)'
  <2> SUFFICES ASSUME up, served[s] = 1 PROVE Outlived(s)'
    BY DEF Outlived, Tick
  <2>1. Repeating(s)' => Repeating(s) /\ peer'[s].left = peer[s].left - 1
    BY <1>3, <1>4, CountDown, Delays DEF Repeating
  <2>2. CASE rxTrans[s].live /\ rxTrans[s].timer # Off /\ rxTrans[s].timer > 0
    <3>1. rxTrans'[s].timer = rxTrans[s].timer - 1 /\ rxTrans'[s].timer # Off
      BY <1>2, <2>2, CountDown, Delays DEF Timers
    <3>2. Repeating(s)' => peer'[s].left + MaxDelay < rxTrans'[s].timer
      BY <1>1, <1>2, <1>3, <2>1, <2>2, <3>1, Delays DEF Outlived, Timers
    <3>3. \A p \in Copies(s)' : MaxDelay < rxTrans'[s].timer + p.age
      BY <1>1, <1>2, <1>5, <2>2, <3>1, Delays DEF Outlived, Copies, Timers
    <3> QED
      BY <1>2, <2>2, <3>1, <3>2, <3>3 DEF Outlived
  <2>3. CASE rxTrans[s].live /\ rxTrans[s].timer = 0
    <3>1. ~Repeating(s)
      BY <1>1, <1>3, <2>3, Delays DEF Outlived, Repeating
    <3>2. Copies(s) = {}
      <4> SUFFICES ASSUME NEW m \in Copies(s) PROVE FALSE
        OBVIOUS
      <4>1. m.age \in 0..MaxDelay
        BY DEF Shape, Copies, Packets
      <4>2. MaxDelay < 0 + m.age
        BY <1>1, <2>3, Delays DEF Outlived
      <4> QED
        BY <4>1, <4>2, Delays
    <3> QED
      BY <1>6, <2>1, <3>1, <3>2 DEF Outlived
  <2>4. CASE ~(rxTrans[s].live /\ rxTrans[s].timer # Off)
    <3>1. ~(rxTrans[s].live /\ rxTrans[s].timer # Off)'
      BY <1>2, <2>4, CountDown
    <3> QED
      BY <1>1, <1>6, <2>1, <2>4, <3>1 DEF Outlived
  <2> QED
    BY <1>2, <2>2, <2>3, <2>4, Delays DEF Timers
<1> QED
  BY <1>7, <1>8, <1>9, <1>10

(* A new request is one that was not served: had it been, its transaction    *)
(* would still be there, or no copy would be.                                *)
LEMMA NewIsUnserved ==
    ASSUME Shape, OnTime, NEW m \in net, NEW ans \in BOOLEAN, NEW dup \in BOOLEAN,
           NewRxTransaction(m, ans, dup)
    PROVE  m.seq \in Reqs /\ served[m.seq] = 0
<1>1. m.seq \in Reqs /\ m \in Copies(m.seq)
  BY DEF Shape, Packets, NewRxTransaction, Copies
<1>2. Once(m.seq) /\ Outlived(m.seq)
  BY <1>1 DEF OnTime
<1> QED
  BY <1>1, <1>2 DEF Once, Outlived, NewRxTransaction

LEMMA NewRxOnTime ==
    ASSUME Shape, OnTime, NEW m \in net, NEW ans \in BOOLEAN, NEW dup \in BOOLEAN,
           NewRxTransaction(m, ans, dup)
    PROVE  OnTime'
<1> SUFFICES ASSUME NEW s \in Reqs
             PROVE  (Once(s) /\ Unserved(s) /\ Unsent(s) /\ Outlived(s) /\ Fired(s))'
  BY DEF OnTime
<1>1. Once(s) /\ Unserved(s) /\ Unsent(s) /\ Outlived(s) /\ Fired(s)
  BY DEF OnTime
<1>2. m.seq \in Reqs /\ served[m.seq] = 0
  BY NewIsUnserved
<1>3. UNCHANGED <<peer, trToCh, up>> /\ up /\ m.kind = "req"
  BY DEF NewRxTransaction
<1>4. \A p \in net' : p \in net \/ p = Pkt("rsp", m.seq)
  BY DEF NewRxTransaction, Consume, ConsumeAndSend
<1>5. Copies(s)' \subseteq Copies(s)
  BY <1>4 DEF Copies, Pkt
<1>6. CASE s = m.seq
  <2>1. rxTrans'[s] = [live |-> TRUE, buf |-> ans, timer |-> RxTimeout] /\ served'[s] = 1
    BY <1>2, <1>6 DEF Shape, NewRxTransaction
  <2>2. peer[s].st # "idle"
    BY <1>1, <1>3, <1>6 DEF Unsent, Copies
  <2>3. Once(s)' /\ Unserved(s)' /\ Unsent(s)'
    BY <1>3, <2>1, <2>2 DEF Once, Unserved, Unsent
  <2>4. Fired(s)'
    BY <1>1, <1>2, <1>3, <1>6 DEF Fired, Unserved
  <2>5. Repeating(s)' => peer'[s].left + MaxDelay < RxTimeout
    BY <1>3, Delays DEF Shape, Repeating
  <2>6. \A p \in Copies(s)' : MaxDelay < RxTimeout + p.age
    <3> SUFFICES ASSUME NEW p \in Copies(s) PROVE MaxDelay < RxTimeout + p.age
      BY <1>5
    <3>1. p.age \in 0..MaxDelay
      BY DEF Shape, Copies, Packets
    <3> QED
      BY <3>1, Delays
  <2>7. Outlived(s)'
    BY <2>1, <2>5, <2>6, Delays DEF Outlived
  <2> QED
    BY <2>3, <2>4, <2>7
<1>7. CASE s # m.seq
  <2>1. rxTrans'[s] = rxTrans[s] /\ served'[s] = served[s]
    BY <1>2, <1>7 DEF Shape, NewRxTransaction
  <2>2. Once(s)' /\ Fired(s)'
    BY <1>1, <1>3, <2>1 DEF Once, Fired
  <2>3. Unserved(s)'
    BY <1>1, <1>3, <1>4, <1>7, <2>1 DEF Unserved, Pkt
  <2>4. Unsent(s)'
    BY <1>1, <1>3, <1>5, <2>1 DEF Unsent
  <2>5. Outlived(s)'
    BY <1>1, <1>3, <1>5, <2>1 DEF Outlived, Repeating
  <2> QED
    BY <2>2, <2>3, <2>4, <2>5
<1> QED
  BY <1>6, <1>7

LEMMA ArriveOnTime ==
    ASSUME Shape, OnTime, NEW m \in net, NEW dup \in BOOLEAN, Arrive(m, dup)
    PROVE  OnTime'
<1>1. /\ m.kind \in {"req", "rsp"} => m.seq \in Reqs
      /\ m.kind \in {"rpt", "rptRsp"} => m.seq \in Rpts
  BY DEF Shape, Packets
<1>2. CASE PeerGetsAnswer(m, dup)
  <2> SUFFICES ASSUME NEW s \in Reqs
               PROVE  (Once(s) /\ Unserved(s) /\ Unsent(s) /\ Outlived(s) /\ Fired(s))'
    BY DEF OnTime
  <2>1. Once(s) /\ Unserved(s) /\ Unsent(s) /\ Outlived(s) /\ Fired(s)
    BY DEF OnTime
  <2>2. /\ m.seq \in Reqs /\ m.kind = "rsp" /\ net' \subseteq net
        /\ UNCHANGED <<rxTrans, trToCh, served, up>>
    BY <1>1, <1>2 DEF PeerGetsAnswer, Consume
  <2>3. /\ s = m.seq => peer'[s].st = "answered"
        /\ s # m.seq => peer'[s] = peer[s]
    BY <1>2, <2>2 DEF Shape, PeerGetsAnswer
  <2>4. served[m.seq] # 0
    BY <2>2 DEF OnTime, Unserved
  <2>5. Once(s)' /\ Fired(s)'
    BY <2>1, <2>2 DEF Once, Fired
  <2>6. Unserved(s)'
    BY <2>1, <2>2, <2>3, <2>4 DEF Unserved
  <2>7. Copies(s)' \subseteq Copies(s)
    BY <2>2 DEF Copies
  <2>8. Unsent(s)'
    BY <2>1, <2>2, <2>3, <2>7 DEF Unsent
  <2>9. Repeating(s)' => Repeating(s) /\ peer'[s] = peer[s]
    BY <2>3 DEF Repeating
  <2>10. Outlived(s)'
    BY <2>1, <2>2, <2>7, <2>9 DEF Outlived
  <2> QED
    BY <2>5, <2>6, <2>8, <2>10
<1>3. CASE PeerAnswers(m, dup)
  BY <1>3, QuietOnTime DEF PeerAnswers, ConsumeAndSend, Pkt
<1>4. ASSUME NEW ans \in BOOLEAN, NewRxTransaction(m, ans, dup) PROVE OnTime'
  BY <1>4, NewRxOnTime
<1>5. CASE RxRecv(m, dup)
  <2>1. m.seq \in Reqs /\ rxTrans[m.seq].live
    BY <1>1, <1>5 DEF RxRecv
  <2>2. served[m.seq] # 0
    <3>1. Unserved(m.seq)
      BY <2>1 DEF OnTime
    <3> QED
      BY <2>1, <3>1 DEF Unserved, NoRx
  <2>3. \A p \in net' : p \in net \/ p = Pkt("rsp", m.seq)
    BY <1>5 DEF RxRecv, Consume, ConsumeAndSend
  <2> QED
    BY <1>5, <2>2, <2>3, QuietOnTime DEF RxRecv, Pkt
<1>6. CASE TxRecv(m, dup)
  BY <1>6, QuietOnTime DEF TxRecv, Consume
<1> QED
  BY <1>2, <1>3, <1>4, <1>5, <1>6 DEF Arrive

LEMMA PeerSendOnTime ==
    ASSUME Shape, OnTime, NEW r \in Reqs, PeerSend(r)
    PROVE  OnTime'
<1> SUFFICES ASSUME NEW s \in Reqs
             PROVE  (Once(s) /\ Unserved(s) /\ Unsent(s) /\ Outlived(s) /\ Fired(s))'
  BY DEF OnTime
<1>1. Once(s) /\ Unserved(s) /\ Unsent(s) /\ Outlived(s) /\ Fired(s)
  BY DEF OnTime
<1>2. net' = net \cup {Pkt("req", r)} /\ UNCHANGED <<rxTrans, trToCh, served, up>>
  BY DEF PeerSend
<1>3. s # r => peer'[s] = peer[s]
  BY DEF Shape, PeerSend
<1>4. peer'[r].st = "wait"
  BY DEF Shape, PeerSend
<1>5. s # r => Copies(s)' = Copies(s)
  BY <1>2 DEF Copies, Pkt
<1>6. Once(s)' /\ Fired(s)'
  BY <1>1, <1>2 DEF Once, Fired
<1>7. Unserved(s)'
  BY <1>1, <1>2, <1>3, <1>4 DEF Unserved, Pkt
<1>8. Unsent(s)'
  BY <1>1, <1>2, <1>3, <1>4, <1>5 DEF Unsent
<1>9. Outlived(s)'
  <2>1. CASE s # r
    BY <1>1, <1>2, <1>3, <1>5, <2>1 DEF Outlived, Repeating
  <2>2. CASE s = r
    <3> SUFFICES ASSUME up, served[s] = 1 PROVE Outlived(s)'
      BY <1>2 DEF Outlived
    <3>1. Repeating(s) /\ peer' = peer
      BY <1>1, <2>2 DEF PeerSend, Unsent, Repeating
    <3>2. /\ rxTrans[s].live /\ rxTrans[s].timer # Off
          /\ peer[s].left + MaxDelay < rxTrans[s].timer
          /\ \A m \in Copies(s) : MaxDelay < rxTrans[s].timer + m.age
      BY <1>1, <3>1 DEF Outlived
    <3>3. peer[s].left \in Nat /\ rxTrans[s].timer \in Nat
      BY Delays DEF Shape, Timers
    <3>4. Copies(s)' \subseteq Copies(s) \cup {Pkt("req", s)}
      BY <1>2, <2>2 DEF Copies
    <3>5. MaxDelay < rxTrans[s].timer + Pkt("req", s).age
      BY <3>2, <3>3, Delays DEF Pkt
    <3> QED
      BY <1>2, <3>1, <3>2, <3>4, <3>5 DEF Outlived, Repeating
  <2> QED
    BY <2>1, <2>2
<1> QED
  BY <1>6, <1>7, <1>8, <1>9

LEMMA FireOnTime == Shape /\ OnTime /\ FireTimer => OnTime'
<1> SUFFICES ASSUME Shape, OnTime, FireTimer, NEW s \in Reqs
             PROVE  (Once(s) /\ Unserved(s) /\ Unsent(s) /\ Outlived(s) /\ Fired(s))'
  BY DEF OnTime
<1>1. Once(s) /\ Unserved(s) /\ Unsent(s) /\ Outlived(s) /\ Fired(s)
  BY DEF OnTime
<1>2. UNCHANGED <<net, peer, served, up>> /\ Copies(s)' = Copies(s)
  BY DEF FireTimer, Copies
<1>3. CASE /\ rxTrans[s].timer = 0
           /\ rxTrans' = [rxTrans EXCEPT ![s].timer = Off]
           /\ trToCh' = trToCh \cup {[type |-> "RX", id |-> s]}
  <2>1. served[s] # 0
    BY <1>1, <1>3, Delays DEF Unserved, NoRx
  <2>2. rxTrans'[s].timer = Off
    BY <1>3 DEF Shape
  <2>3. Once(s)' /\ Unserved(s)' /\ Unsent(s)' /\ Fired(s)'
    BY <1>1, <1>2, <2>1, <2>2 DEF Once, Unserved, Unsent, Fired
  <2>4. up /\ served[s] = 1 => ~Repeating(s) /\ Copies(s) = {}
    <3> SUFFICES ASSUME up, served[s] = 1 PROVE ~Repeating(s) /\ Copies(s) = {}
      OBVIOUS
    <3>1. CASE rxTrans[s].live
      <4>1. /\ Repeating(s) => peer[s].left + MaxDelay < 0
            /\ \A m \in Copies(s) : MaxDelay < 0 + m.age
        BY <1>1, <1>3, <3>1, Delays DEF Outlived
      <4>2. peer[s].left \in Nat /\ \A m \in Copies(s) : m.age \in 0..MaxDelay
        BY DEF Shape, Copies, Packets
      <4> QED
        BY <4>1, <4>2, Delays
    <3>2. CASE ~rxTrans[s].live
      BY <1>1, <3>2 DEF Outlived
    <3> QED
      BY <3>1, <3>2
  <2>5. Outlived(s)'
    BY <1>2, <2>2, <2>4 DEF Outlived, Repeating
  <2> QED
    BY <2>3, <2>5
<1>4. CASE /\ rxTrans'[s] = rxTrans[s]
           /\ [type |-> "RX", id |-> s] \in trToCh' => [type |-> "RX", id |-> s] \in trToCh
  BY <1>1, <1>2, <1>4 DEF Once, Unserved, Unsent, Outlived, Repeating, Fired
<1>5. ASSUME NEW r \in Reqs, r # s,
             rxTrans' = [rxTrans EXCEPT ![r].timer = Off],
             trToCh' = trToCh \cup {[type |-> "RX", id |-> r]}
      PROVE  /\ rxTrans'[s] = rxTrans[s]
             /\ [type |-> "RX", id |-> s] \in trToCh' => [type |-> "RX", id |-> s] \in trToCh
  BY <1>5 DEF Shape
<1>6. ASSUME NEW i \in Rpts, UNCHANGED rxTrans,
             trToCh' = trToCh \cup {[type |-> "TX", id |-> i]}
      PROVE  /\ rxTrans'[s] = rxTrans[s]
             /\ [type |-> "RX", id |-> s] \in trToCh' => [type |-> "RX", id |-> s] \in trToCh
  BY <1>6
<1> QED
  BY <1>3, <1>4, <1>5, <1>6 DEF FireTimer, Fire

LEMMA TimeoutOnTime ==
    ASSUME Shape, OnTime, NEW e \in trToCh, HandleTimeout(e)
    PROVE  OnTime'
<1> SUFFICES ASSUME NEW s \in Reqs
             PROVE  (Once(s) /\ Unserved(s) /\ Unsent(s) /\ Outlived(s) /\ Fired(s))'
  BY DEF OnTime
<1>1. Once(s) /\ Unserved(s) /\ Unsent(s) /\ Outlived(s) /\ Fired(s)
  BY DEF OnTime
<1>2. UNCHANGED <<peer, served, up>> /\ trToCh' \subseteq trToCh
  BY DEF HandleTimeout
<1>3. CASE e.type = "TX" /\ TxTimeout(e.id) /\ UNCHANGED rxTrans
  <2>1. \A p \in net' : p.kind \in {"req", "rsp"} => p \in net
    BY <1>3 DEF TxTimeout, Pkt
  <2>2. Copies(s)' \subseteq Copies(s)
    BY <2>1 DEF Copies
  <2>3. Once(s)' /\ Fired(s)'
    BY <1>1, <1>2, <1>3 DEF Once, Fired
  <2>4. Unserved(s)'
    BY <1>1, <1>2, <1>3, <2>1 DEF Unserved
  <2>5. Unsent(s)'
    BY <1>1, <1>2, <2>2 DEF Unsent
  <2>6. Outlived(s)'
    BY <1>1, <1>2, <1>3, <2>2 DEF Outlived, Repeating
  <2> QED
    BY <2>3, <2>4, <2>5, <2>6
<1>4. CASE e.type = "RX" /\ RxTimeoutHandler(e.id) /\ UNCHANGED <<txTrans, net>>
  <2>1. e = [type |-> "RX", id |-> e.id] /\ e.id \in Reqs
    BY <1>4 DEF Shape, Expired
  <2>2. Copies(s)' = Copies(s)
    BY <1>4 DEF Copies
  <2>3. CASE s = e.id
    <3>1. rxTrans'[s] = NoRx /\ rxTrans[s].timer = Off
      BY <1>1, <1>4, <2>1, <2>3 DEF Shape, RxTimeoutHandler, Fired
    <3>2. Once(s)' /\ Unserved(s)' /\ Unsent(s)' /\ Fired(s)'
      BY <1>1, <1>2, <1>4, <2>2, <3>1 DEF Once, Unserved, Unsent, Fired, NoRx
    <3>3. Outlived(s)'
      BY <1>1, <1>2, <2>2, <3>1 DEF Outlived, Repeating, NoRx
    <3> QED
      BY <3>2, <3>3
  <2>4. CASE s # e.id
    <3>1. rxTrans'[s] = rxTrans[s]
      BY <1>4, <2>1, <2>4 DEF Shape, RxTimeoutHandler
    <3> QED
      BY <1>1, <1>2, <1>4, <2>2, <3>1 DEF Once, Unserved, Unsent, Outlived, Repeating, Fired
  <2> QED
    BY <2>3, <2>4
<1> QED
  BY <1>3, <1>4 DEF HandleTimeout

LEMMA StopOnTime == Shape /\ OnTime /\ stopTrTimers => OnTime'
<1> SUFFICES ASSUME Shape, OnTime, stopTrTimers, NEW s \in Reqs
             PROVE  (Once(s) /\ Unserved(s) /\ Unsent(s) /\ Outlived(s) /\ Fired(s))'
  BY DEF OnTime
<1>1. Once(s) /\ Unserved(s) /\ Unsent(s) /\ Outlived(s) /\ Fired(s)
  BY DEF OnTime
<1>2. /\ UNCHANGED <<net, peer, trToCh, served>> /\ ~up' /\ rxTrans'[s].timer = Off
      /\ rxTrans[s] = NoRx => rxTrans'[s] = NoRx
  <2>1. rxTrans'[s] = [rxTrans[s] EXCEPT !.timer = Off]
    BY DEF stopTrTimers
  <2>2. rxTrans[s] \in [live : BOOLEAN, buf : BOOLEAN, timer : Timers]
    BY DEF Shape
  <2> QED
    BY <2>1, <2>2 DEF stopTrTimers, NoRx
<1> QED
  BY <1>1, <1>2 DEF Once, Unserved, Unsent, Outlived, Fired, Copies

LEMMA NextOnTime == Shape /\ OnTime /\ [Next]_vars => OnTime'
<1> SUFFICES ASSUME Shape, OnTime, [Next]_vars PROVE OnTime'
  OBVIOUS
<1>1. CASE UNCHANGED vars
  BY <1>1, QuietOnTime DEF vars
<1>2. ASSUME NEW m \in net, Lose(m) PROVE OnTime'
  BY <1>2, QuietOnTime DEF Lose
<1>3. ASSUME NEW m \in net, NEW dup \in BOOLEAN, Arrive(m, dup) PROVE OnTime'
  BY <1>3, ArriveOnTime
<1>4. CASE sendReqTo
  BY <1>4, QuietOnTime DEF sendReqTo, Pkt
<1>5. ASSUME NEW e \in trToCh, HandleTimeout(e) PROVE OnTime'
  BY <1>5, TimeoutOnTime
<1>6. ASSUME NEW s \in Reqs, PeerSend(s) PROVE OnTime'
  BY <1>6, PeerSendOnTime
<1> QED
  BY <1>1, <1>2, <1>3, <1>4, <1>5, <1>6, TickOnTime, FireOnTime, StopOnTime
  DEF Next, Network, HandleTimeouts

-----------------------------------------------------------------------------
(* The numbers of the reports.                                               *)

LEMMA ArriveNumbered ==
    ASSUME Shape, Numbered, NEW m \in net, NEW dup \in BOOLEAN, Arrive(m, dup)
    PROVE  Numbered'
<1>1. m.kind \in {"rpt", "rptRsp"} => m.seq \in Rpts /\ txTrans[m.seq].st # "none"
  BY DEF Shape, Packets, Numbered
<1>2. CASE PeerGetsAnswer(m, dup)
  BY <1>2 DEF Numbered, PeerGetsAnswer, Consume
<1>3. CASE PeerAnswers(m, dup)
  BY <1>1, <1>3 DEF Numbered, PeerAnswers, ConsumeAndSend, Pkt
<1>4. ASSUME NEW ans \in BOOLEAN, NewRxTransaction(m, ans, dup) PROVE Numbered'
  BY <1>4 DEF Numbered, NewRxTransaction, Consume, ConsumeAndSend, Pkt
<1>5. CASE RxRecv(m, dup)
  BY <1>5 DEF Numbered, RxRecv, Consume, ConsumeAndSend, Pkt
<1>6. CASE TxRecv(m, dup)
  <2>1. \A i \in Rpts : txTrans'[i].st = "none" <=> txTrans[i].st = "none"
    BY <1>1, <1>6, WireRange DEF Shape, TxRecv
  <2>2. net' \subseteq net /\ txSeq' = txSeq
    BY <1>6 DEF TxRecv, Consume
  <2>3. \A p \in net' : p.kind \in {"rpt", "rptRsp"} => p.seq \in Rpts
    BY <2>2 DEF Shape, Packets
  <2> QED
    BY <2>1, <2>2, <2>3 DEF Numbered
<1> QED
  BY <1>2, <1>3, <1>4, <1>5, <1>6 DEF Arrive

LEMMA NextNumbered == Shape /\ Numbered /\ [Next]_vars => Numbered'
<1> SUFFICES ASSUME Shape, Numbered, [Next]_vars PROVE Numbered'
  OBVIOUS
<1>0. \A m \in net : m.kind \in {"rpt", "rptRsp"} => m.seq \in Rpts
  BY DEF Shape, Packets
<1>1. CASE UNCHANGED vars
  BY <1>1 DEF Numbered, vars
<1>2. ASSUME NEW m \in net, Lose(m) PROVE Numbered'
  BY <1>2 DEF Numbered, Lose
<1>3. ASSUME NEW m \in net, NEW dup \in BOOLEAN, Arrive(m, dup) PROVE Numbered'
  BY <1>3, ArriveNumbered
<1>4. CASE Tick
  <2>1. \A i \in Rpts : txTrans'[i].st = txTrans[i].st
    BY <1>4 DEF Shape, Tick
  <2>2. \A p \in net' : \E m \in net : p.kind = m.kind /\ p.seq = m.seq
    <3> SUFFICES ASSUME NEW m \in net
                 PROVE  [m EXCEPT !.age = @ + 1].kind = m.kind
                        /\ [m EXCEPT !.age = @ + 1].seq = m.seq
      BY <1>4 DEF Tick
    <3> QED
      BY DEF Shape, Packets
  <2> QED
    BY <1>0, <1>4, <2>1, <2>2 DEF Numbered, Tick
<1>5. CASE FireTimer
  <2>1. \A i \in Rpts : txTrans'[i].st = txTrans[i].st
    BY <1>5 DEF Shape, FireTimer, Fire
  <2> QED
    BY <1>0, <1>5, <2>1 DEF Numbered, FireTimer
<1>6. ASSUME NEW e \in trToCh, HandleTimeout(e) PROVE Numbered'
  <2>1. CASE e.type = "TX" /\ TxTimeout(e.id) /\ UNCHANGED rxTrans
    <3>1. e.id \in Rpts
      BY <2>1 DEF Shape, Expired
    <3>2. \A i \in Rpts : txTrans'[i].st = "none" <=> txTrans[i].st = "none"
      BY SMTT(30), <2>1, <3>1 DEF Shape, TxTimeout
    <3>3. \A p \in net' : p \in net \/ (p = Pkt("rpt", e.id) /\ txTrans[e.id].st = "open")
      BY <2>1 DEF TxTimeout
    <3>4. txSeq' = txSeq
      BY <1>6 DEF HandleTimeout
    <3> QED
      BY <1>0, <3>1, <3>2, <3>3, <3>4 DEF Numbered, Pkt
  <2>2. CASE UNCHANGED <<txTrans, net>>
    BY <1>6, <2>2 DEF Numbered, HandleTimeout
  <2> QED
    BY <1>6, <2>1, <2>2 DEF HandleTimeout
<1>7. CASE sendReqTo
  <2>1. txSeq \in Rpts /\ txSeq' = txSeq + 1
    BY <1>7, Delays DEF Shape, sendReqTo, Rpts
  <2>2. /\ txTrans'[txSeq].st = "open"
        /\ \A i \in Rpts : i # txSeq => txTrans'[i] = txTrans[i]
    BY <1>7, <2>1 DEF Shape, sendReqTo
  <2>3. \A p \in net' : p \in net \/ p = Pkt("rpt", txSeq)
    BY <1>7 DEF sendReqTo
  <2>4. \A i \in Rpts : i >= txSeq + 1 => i >= txSeq /\ i # txSeq
    BY <2>1 DEF Rpts
  <2> QED
    BY <1>0, <2>1, <2>2, <2>3, <2>4 DEF Numbered, Pkt
<1>8. CASE stopTrTimers
  <2>1. \A i \in Rpts : txTrans'[i].st = txTrans[i].st
    BY <1>8 DEF Shape, stopTrTimers
  <2> QED
    BY <1>0, <1>8, <2>1 DEF Numbered, stopTrTimers
<1>9. ASSUME NEW s \in Reqs, PeerSend(s) PROVE Numbered'
  BY <1>9 DEF Numbered, PeerSend, Pkt
<1> QED
  BY <1>1, <1>2, <1>3, <1>4, <1>5, <1>6, <1>7, <1>8, <1>9 DEF Next, Network, HandleTimeouts

LEMMA Inductive == Spec => []IInv
<1>1. Init => IInv
  BY InitShape, InitOnTime DEF IInv
<1>2. IInv /\ [Next]_vars => IInv'
  BY NextShape, NextOnTime, NextNumbered DEF IInv
<1> QED
  BY <1>1, <1>2, PTL DEF Spec

-----------------------------------------------------------------------------
(* The refinement.                                                           *)

LEMMA InitService == Init => Service!Init
  BY DEF Init, Service!Init

LEMMA ArriveService ==
    ASSUME IInv, MaxTx <= SeqMod, NEW m \in net, NEW dup \in BOOLEAN, Arrive(m, dup)
    PROVE  [Service!Next]_Service!svars
<1>1. /\ m.kind \in {"req", "rsp"} => m.seq \in Reqs
      /\ m.kind \in {"rpt", "rptRsp"} => m.seq \in Rpts
  BY DEF IInv, Shape, Packets
<1>2. CASE PeerGetsAnswer(m, dup)
  <2>1. m.seq \in Reqs /\ Once(m.seq) /\ Unserved(m.seq)
    BY <1>1, <1>2 DEF IInv, OnTime, PeerGetsAnswer
  <2>2. served[m.seq] = 1
    BY <1>2, <2>1 DEF Once, Unserved, PeerGetsAnswer
  <2>3. {s \in Reqs : peer[s].st = "answered"}'
          = {s \in Reqs : peer[s].st = "answered"} \cup {m.seq}
    BY <1>2, <2>1 DEF IInv, Shape, PeerGetsAnswer
  <2>4. Service!Reply(m.seq)
    BY <1>2, <2>2, <2>3 DEF Service!Reply, PeerGetsAnswer
  <2> QED
    BY <2>1, <2>4 DEF Service!Next
<1>3. CASE PeerAnswers(m, dup)
  BY <1>3 DEF PeerAnswers, Service!svars
<1>4. ASSUME NEW ans \in BOOLEAN, NewRxTransaction(m, ans, dup)
      PROVE  [Service!Next]_Service!svars
  <2>1. m.seq \in Reqs /\ served[m.seq] = 0
    BY <1>4, NewIsUnserved DEF IInv
  <2>2. served' = [served EXCEPT ![m.seq] = 1]
    BY <1>4, <2>1 DEF NewRxTransaction
  <2>3. Service!Serve(m.seq)
    BY <1>4, <2>1, <2>2 DEF Service!Serve, NewRxTransaction
  <2> QED
    BY <2>1, <2>3 DEF Service!Next
<1>5. CASE RxRecv(m, dup)
  BY <1>5 DEF RxRecv, Service!svars
<1>6. CASE TxRecv(m, dup)
  <2>1. m.seq \in Rpts /\ Wire(m.seq) = m.seq /\ txTrans[m.seq].st # "none"
    BY <1>1, <1>6, WireRange DEF IInv, Numbered, TxRecv
  <2>2. [i \in Rpts |-> txTrans[i].st]'
          = [[i \in Rpts |-> txTrans[i].st] EXCEPT ![m.seq] = IF @ = "open" THEN "answered" ELSE @]
    BY <1>6, <2>1 DEF IInv, Shape, TxRecv
  <2>3. Service!Receive(m.seq)
    BY <1>6, <2>1, <2>2 DEF Service!Receive, TxRecv
  <2> QED
    BY <2>1, <2>3 DEF Service!Next
<1> QED
  BY <1>2, <1>3, <1>4, <1>5, <1>6 DEF Arrive

LEMMA NextService ==
    ASSUME IInv, MaxTx <= SeqMod, [Next]_vars
    PROVE  [Service!Next]_Service!svars
<1>1. CASE UNCHANGED vars
  BY <1>1 DEF vars, Service!svars
<1>2. ASSUME NEW m \in net, Lose(m) PROVE [Service!Next]_Service!svars
  BY <1>2 DEF Lose, Service!svars
<1>3. ASSUME NEW m \in net, NEW dup \in BOOLEAN, Arrive(m, dup)
      PROVE  [Service!Next]_Service!svars
  BY <1>3, ArriveService
<1>4. CASE Tick
  <2>1. /\ \A i \in Rpts : txTrans'[i].st = txTrans[i].st
        /\ \A s \in Reqs : peer'[s].st = peer[s].st
    BY <1>4 DEF IInv, Shape, Tick
  <2> QED
    BY <1>4, <2>1 DEF Tick, Service!svars
<1>5. CASE FireTimer
  <2>1. \A i \in Rpts : txTrans'[i].st = txTrans[i].st
    BY <1>5 DEF IInv, Shape, FireTimer, Fire
  <2> QED
    BY <1>5, <2>1 DEF FireTimer, Service!svars
<1>6. ASSUME NEW e \in trToCh, HandleTimeout(e) PROVE [Service!Next]_Service!svars
  <2>1. CASE e.type = "TX" /\ TxTimeout(e.id) /\ UNCHANGED rxTrans
    <3>1. e.id \in Rpts
      BY <2>1 DEF IInv, Shape, Expired
    <3>2. CASE /\ txTrans[e.id].st = "open"
               /\ txTrans' = [txTrans EXCEPT ![e.id].st = "gaveup"]
      <4>1. [i \in Rpts |-> txTrans[i].st]'
              = [[i \in Rpts |-> txTrans[i].st] EXCEPT ![e.id] = "gaveup"]
        BY <3>1, <3>2 DEF IInv, Shape
      <4>2. Service!GiveUp(e.id)
        BY <1>6, <3>1, <3>2, <4>1 DEF Service!GiveUp, HandleTimeout
      <4> QED
        BY <3>1, <4>2 DEF Service!Next
    <3>3. CASE \A i \in Rpts : txTrans'[i].st = txTrans[i].st
      BY <1>6, <3>3 DEF HandleTimeout, Service!svars
    <3> QED
      BY <2>1, <3>1, <3>2, <3>3 DEF TxTimeout, IInv, Shape
  <2>2. CASE UNCHANGED <<txTrans, net>>
    BY <1>6, <2>2 DEF HandleTimeout, Service!svars
  <2> QED
    BY <1>6, <2>1, <2>2 DEF HandleTimeout
<1>7. CASE sendReqTo
  <2>1. txSeq \in Rpts
    BY <1>7, Delays DEF IInv, Shape, sendReqTo, Rpts
  <2>2. txTrans[txSeq].st = "none"
    BY <2>1 DEF IInv, Numbered, Rpts
  <2>3. [i \in Rpts |-> txTrans[i].st]'
          = [[i \in Rpts |-> txTrans[i].st] EXCEPT ![txSeq] = "open"]
    BY <1>7, <2>1 DEF IInv, Shape, sendReqTo
  <2>4. PICK i \in Rpts : i = txSeq
    BY <2>1
  <2>5. Service!Ask(i)
    BY <1>7, <2>1, <2>2, <2>3, <2>4 DEF Service!Ask, sendReqTo
  <2> QED
    BY <2>5 DEF Service!Next
<1>8. CASE stopTrTimers
  <2>1. \A i \in Rpts : txTrans'[i].st = txTrans[i].st
    BY <1>8 DEF IInv, Shape, stopTrTimers
  <2> QED
    BY <1>8, <2>1 DEF stopTrTimers, Service!svars
<1>9. ASSUME NEW s \in Reqs, PeerSend(s) PROVE [Service!Next]_Service!svars
  <2>1. \A r \in Reqs : peer'[r].st = "answered" <=> peer[r].st = "answered"
    BY <1>9 DEF IInv, Shape, PeerSend
  <2> QED
    BY <1>9, <2>1 DEF PeerSend, Service!svars
<1> QED
  BY <1>1, <1>2, <1>3, <1>4, <1>5, <1>6, <1>7, <1>8, <1>9 DEF Next, Network, HandleTimeouts

(* Whatever the network does, and for any timers and delays, the             *)
(* transactions of the UPF implement PfcpService, as long as the sequence    *)
(* numbers of the reports do not wrap: a request of the SMF is dispatched at *)
(* most once (PfcpServer.main finds its RxTransaction), and a report ends    *)
(* once, answered or given up.                                               *)
THEOREM TransactionsImplementService ==
    ASSUME MaxTx <= SeqMod
    PROVE  Spec => ImplementsService
<1>1. IInv /\ [Next]_vars => [Service!Next]_Service!svars
  BY NextService
<1> QED
  BY <1>1, Inductive, InitService, PTL DEF Spec, ImplementsService, Service!Spec
=============================================================================
