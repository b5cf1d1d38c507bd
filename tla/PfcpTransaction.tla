-------------------------- MODULE PfcpTransaction --------------------------
(***************************************************************************)
(* The PFCP transactions of the UPF over UDP.  RxTransactions remember the *)
(* answers to the requests of the SMF, TxTransactions repeat the requests  *)
(* of the UPF (session reports) until they are answered.  Packets, reports *)
(* and expired timers reach the one goroutine of PfcpServer.main, so each  *)
(* of its cases is a step.                                                 *)
(*                                                                         *)
(* Time is discrete.  A timer counts down and, once at zero, may fire at   *)
(* any moment: time.AfterFunc and the channel trToCh only make it later.   *)
(* A packet takes at most MaxDelay, its stay in rcvCh included, or is      *)
(* lost, and may arrive more than once.                                    *)
(***************************************************************************)
EXTENDS Naturals

CONSTANTS
    Reqs,           \* sequence numbers of the SMF's requests
    MaxTx,          \* bound: requests of the UPF
    SeqMod,         \* sequence numbers on the wire (2^24)
    RetransTimeout, \* cfg.Pfcp.RetransTimeout, in ticks
    MaxRetrans,     \* cfg.Pfcp.MaxRetrans
    MaxDelay,       \* the longest a packet takes
    PeerSpan        \* how long the SMF repeats a request

Rpts == 0..(MaxTx - 1)

(* Faulty variant: one interval too few.                                     *)
RxTimeout_OneLess == RetransTimeout * MaxRetrans

(* NewRxTransaction: how long an answer is kept.                             *)
RxTimeout == RetransTimeout * (MaxRetrans + 1)

ASSUME PfcpAssumption ==
    /\ MaxTx \in Nat \ {0} /\ SeqMod \in Nat \ {0} /\ RetransTimeout \in Nat \ {0}
    /\ MaxRetrans \in Nat /\ MaxDelay \in Nat \ {0} /\ PeerSpan \in Nat
    /\ PeerSpan + MaxDelay < RetransTimeout * (MaxRetrans + 1)

VARIABLES
    net,      \* packets under way: [kind, seq, age]
    peer,     \* the SMF's requests: [st, left], left the time it still repeats one
    rxTrans,  \* RxTransactions by sequence number: [live, buf, timer]
    txSeq,    \* the next sequence number of the UPF
    txTrans,  \* TxTransactions by the number they were made with: [st, cnt, timer]
    trToCh,   \* expired timers main has not seen, in trToCh or about to enter it
    served,   \* how often each request was dispatched
    received, \* requests of the UPF whose answer main has taken from rcvCh
    up        \* TRUE until main ends

vars == <<net, peer, rxTrans, txSeq, txTrans, trToCh, served, received, up>>

Off == RxTimeout + RetransTimeout + 1     \* the value of a timer that does not run
NoRx == [live |-> FALSE, buf |-> FALSE, timer |-> Off]
Pkt(k, n) == [kind |-> k, seq |-> n, age |-> 0]
Wire(i) == i % SeqMod                     \* the 24 bits of a sequence number in a header

Init ==
    /\ net = {}
    /\ peer = [s \in Reqs |-> [st |-> "idle", left |-> 0]]
    /\ rxTrans = [s \in Reqs |-> NoRx]
    /\ txSeq = 0
    /\ txTrans = [i \in Rpts |-> [st |-> "none", cnt |-> 0, timer |-> Off]]
    /\ trToCh = {}
    /\ served = [s \in Reqs |-> 0]
    /\ received = {}
    /\ up = TRUE

-----------------------------------------------------------------------------
(* The network and the clock.                                                *)

(* A packet is consumed, or stays for a second arrival.                      *)
Consume(m, dup) == net' = IF dup THEN net ELSE net \ {m}
ConsumeAndSend(m, dup, p) == net' = (IF dup THEN net ELSE net \ {m}) \cup {p}

Lose(m) == /\ net' = net \ {m}
           /\ UNCHANGED <<peer, rxTrans, txSeq, txTrans, trToCh, served, received, up>>

Down(t) == IF t \in 1..(Off - 1) THEN t - 1 ELSE t
Tick ==
    /\ \A m \in net : m.age < MaxDelay
    /\ net' = {[m EXCEPT !.age = @ + 1] : m \in net}
    /\ peer' = [s \in Reqs |-> [peer[s] EXCEPT !.left = Down(@)]]
    /\ rxTrans' = [s \in Reqs |-> [rxTrans[s] EXCEPT !.timer = Down(@)]]
    /\ txTrans' = [i \in Rpts |-> [txTrans[i] EXCEPT !.timer = Down(@)]]
    /\ UNCHANGED <<txSeq, trToCh, served, received, up>>

-----------------------------------------------------------------------------
(* The SMF's side of the wire.                                               *)

(* A request is sent, and repeated for PeerSpan while there is no answer.    *)
PeerSend(s) ==
    /\ \/ peer[s].st = "idle" /\ peer' = [peer EXCEPT ![s] = [st |-> "wait", left |-> PeerSpan]]
       \/ peer[s].st = "wait" /\ peer[s].left > 0 /\ UNCHANGED peer
    /\ net' = net \cup {Pkt("req", s)}
    /\ UNCHANGED <<rxTrans, txSeq, txTrans, trToCh, served, received, up>>

PeerGetsAnswer(m, dup) ==
    /\ m.kind = "rsp"
    /\ peer' = [peer EXCEPT ![m.seq].st = "answered"]
    /\ Consume(m, dup)
    /\ UNCHANGED <<rxTrans, txSeq, txTrans, trToCh, served, received, up>>

PeerAnswers(m, dup) ==
    /\ m.kind = "rpt"
    /\ ConsumeAndSend(m, dup, Pkt("rptRsp", m.seq))
    /\ UNCHANGED <<peer, rxTrans, txSeq, txTrans, trToCh, served, received, up>>

-----------------------------------------------------------------------------
(* PfcpServer.main: a request from rcvCh.  A new one makes an RxTransaction  *)
(* with its timer and is dispatched; the handler answers through sendRspTo,  *)
(* or returns without an answer.                                             *)
NewRxTransaction(m, ans, dup) ==
    /\ up /\ m.kind = "req" /\ ~rxTrans[m.seq].live
    /\ rxTrans' = [rxTrans EXCEPT ![m.seq] = [live |-> TRUE, buf |-> ans, timer |-> RxTimeout]]
    /\ served' = [served EXCEPT ![m.seq] = @ + 1]
    /\ IF ans THEN ConsumeAndSend(m, dup, Pkt("rsp", m.seq)) ELSE Consume(m, dup)
    /\ UNCHANGED <<peer, txSeq, txTrans, trToCh, received, up>>

(* RxTransaction.recv of a repeated request: the kept answer is sent again.  *)
RxRecv(m, dup) ==
    /\ up /\ m.kind = "req" /\ rxTrans[m.seq].live
    /\ IF rxTrans[m.seq].buf THEN ConsumeAndSend(m, dup, Pkt("rsp", m.seq)) ELSE Consume(m, dup)
    /\ UNCHANGED <<peer, rxTrans, txSeq, txTrans, trToCh, served, received, up>>

(* sendReqTo: the key of txTrans is the whole of txSeq; the packet, known    *)
(* here by the same number, carries Wire of it, and so does its answer.      *)
(* Fewer than SeqMod requests are open at a time.                            *)
sendReqTo ==
    /\ up /\ txSeq < MaxTx
    /\ \A i \in Rpts : txTrans[i].st = "open" => Wire(i) # Wire(txSeq)
    /\ txSeq' = txSeq + 1
    /\ txTrans' = [txTrans EXCEPT ![txSeq] = [st |-> "open", cnt |-> 0, timer |-> RetransTimeout]]
    /\ net' = net \cup {Pkt("rpt", txSeq)}
    /\ UNCHANGED <<peer, rxTrans, trToCh, served, received, up>>

(* An answer from rcvCh: TxTransaction.recv stops the timer, which may have  *)
(* fired already, and rspDispacher runs; without a transaction it is dropped. *)
TxRecv(m, dup) ==
    LET i == Wire(m.seq)
    IN  /\ up /\ m.kind = "rptRsp"
        /\ Consume(m, dup)
        /\ txTrans' = IF txTrans[i].st = "open"
                      THEN [txTrans EXCEPT ![i].st = "answered", ![i].timer = Off] ELSE txTrans
        /\ received' = received \cup {m.seq}
        /\ UNCHANGED <<peer, rxTrans, txSeq, trToCh, served, up>>

(* A timer fires: NotifyTransTimeout in a goroutine of its own.              *)
Fire == \/ \E s \in Reqs : /\ rxTrans[s].timer = 0
                           /\ rxTrans' = [rxTrans EXCEPT ![s].timer = Off]
                           /\ trToCh' = trToCh \cup {[type |-> "RX", id |-> s]}
                           /\ UNCHANGED txTrans
        \/ \E i \in Rpts : /\ txTrans[i].timer = 0
                           /\ txTrans' = [txTrans EXCEPT ![i].timer = Off]
                           /\ trToCh' = trToCh \cup {[type |-> "TX", id |-> i]}
                           /\ UNCHANGED rxTrans

FireTimer == Fire /\ UNCHANGED <<net, peer, txSeq, served, received, up>>

(* Faulty variant: the retransmission does not start the timer again.        *)
TxTimeout_NoTimer(i) ==
    \/ /\ txTrans[i].st = "open" /\ txTrans[i].cnt < MaxRetrans
       /\ txTrans' = [txTrans EXCEPT ![i].cnt = @ + 1]
       /\ net' = net \cup {Pkt("rpt", i)}
    \/ /\ txTrans[i].st = "open" /\ txTrans[i].cnt >= MaxRetrans
       /\ txTrans' = [txTrans EXCEPT ![i].st = "gaveup"]
       /\ UNCHANGED net
    \/ txTrans[i].st # "open" /\ UNCHANGED <<txTrans, net>>

(* Faulty variant: one retransmission too many.                              *)
TxTimeout_OneMore(i) ==
    \/ /\ txTrans[i].st = "open" /\ txTrans[i].cnt <= MaxRetrans
       /\ txTrans' = [txTrans EXCEPT ![i].cnt = @ + 1, ![i].timer = RetransTimeout]
       /\ net' = net \cup {Pkt("rpt", i)}
    \/ txTrans[i].st # "open" /\ UNCHANGED <<txTrans, net>>

(* TxTransaction.handleTimeout; a transaction that ended meanwhile is gone.  *)
TxTimeout(i) ==
    \/ /\ txTrans[i].st = "open" /\ txTrans[i].cnt < MaxRetrans
       /\ txTrans' = [txTrans EXCEPT ![i].cnt = @ + 1, ![i].timer = RetransTimeout]
       /\ net' = net \cup {Pkt("rpt", i)}
    \/ /\ txTrans[i].st = "open" /\ txTrans[i].cnt >= MaxRetrans
       /\ txTrans' = [txTrans EXCEPT ![i].st = "gaveup"]
       /\ UNCHANGED net
    \/ txTrans[i].st # "open" /\ UNCHANGED <<txTrans, net>>

(* RxTransaction.handleTimeout.                                              *)
RxTimeoutHandler(s) == rxTrans' = [rxTrans EXCEPT ![s] = NoRx]

(* main takes an expired timer from trToCh.                                  *)
HandleTimeout(e) ==
    /\ up
    /\ trToCh' = trToCh \ {e}
    /\ \/ e.type = "TX" /\ TxTimeout(e.id) /\ UNCHANGED rxTrans
       \/ e.type = "RX" /\ RxTimeoutHandler(e.id) /\ UNCHANGED <<txTrans, net>>
    /\ UNCHANGED <<peer, txSeq, served, received, up>>

(* main ends when the receiver does, and stopTrTimers stops every timer that *)
(* has not fired.                                                            *)
stopTrTimers ==
    /\ up
    /\ up' = FALSE
    /\ rxTrans' = [s \in Reqs |-> [rxTrans[s] EXCEPT !.timer = Off]]
    /\ txTrans' = [i \in Rpts |-> [txTrans[i] EXCEPT !.timer = Off]]
    /\ UNCHANGED <<net, peer, txSeq, trToCh, served, received>>

-----------------------------------------------------------------------------
Arrive(m, dup) == \/ PeerGetsAnswer(m, dup) \/ PeerAnswers(m, dup)
                  \/ \E ans \in BOOLEAN : NewRxTransaction(m, ans, dup)
                  \/ RxRecv(m, dup) \/ TxRecv(m, dup)
Network == \E m \in net : Lose(m) \/ \E dup \in BOOLEAN : Arrive(m, dup)
HandleTimeouts == \E e \in trToCh : HandleTimeout(e)

Next == \/ Network \/ Tick \/ FireTimer \/ HandleTimeouts \/ sendReqTo \/ stopTrTimers
        \/ \E s \in Reqs : PeerSend(s)

(* A packet does not stay under way for ever, time passes, timers fire and   *)
(* main's select serves trToCh.  Nothing obliges the SMF to send, or the     *)
(* network to deliver.                                                       *)
Due == \E m \in net : m.age = MaxDelay /\ (Lose(m) \/ Arrive(m, FALSE))
Fairness == WF_vars(Due) /\ WF_vars(Tick) /\ WF_vars(FireTimer) /\ WF_vars(HandleTimeouts)
Spec == Init /\ [][Next]_vars
FairSpec == Spec /\ Fairness

-----------------------------------------------------------------------------
(* The shape of the state.                                                   *)
Timers == 0..Off
TypeOK ==
    /\ net \subseteq [kind : {"req", "rsp", "rpt", "rptRsp"},
                      seq : Reqs \cup Rpts, age : 0..MaxDelay]
    /\ peer \in [Reqs -> [st : {"idle", "wait", "answered"}, left : 0..PeerSpan]]
    /\ rxTrans \in [Reqs -> [live : BOOLEAN, buf : BOOLEAN, timer : Timers]]
    /\ txSeq \in 0..MaxTx
    /\ txTrans \in [Rpts -> [st : {"none", "open", "answered", "gaveup"},
                             cnt : 0..MaxRetrans, timer : Timers]]
    /\ trToCh \subseteq [type : {"RX", "TX"}, id : Reqs \cup Rpts]
    /\ served \in [Reqs -> Nat] /\ received \subseteq Rpts /\ up \in BOOLEAN

(* The transactions implement the service: whatever is lost, repeated or     *)
(* late, a request is handled at most once, an answer follows a handling,    *)
(* and a report ends once, never given up after its answer was received.     *)
Service == INSTANCE PfcpService
    WITH Rpts <- Rpts, got <- {s \in Reqs : peer[s].st = "answered"},
         outcome <- [i \in Rpts |-> txTrans[i].st]
ImplementsService == Service!Spec

(* Every transaction ends, unless the UPF does: a report is answered or      *)
(* given up, so that a lost answer or a race of the timer with the answer    *)
(* leaves none without a timer, and an answer kept for retransmission is     *)
(* given back again and again, so rxTrans does not grow for ever.            *)
TransactionsEnd ==
    /\ \A i \in Rpts : txTrans[i].st = "open" ~> txTrans[i].st # "open" \/ ~up
    /\ \A s \in Reqs : rxTrans[s].live ~> ~rxTrans[s].live \/ ~up
=============================================================================
