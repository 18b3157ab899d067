-------------------------- MODULE IpvsSocketProofs --------------------------
(***************************************************************************)
(* Proofs about IpvsSocket, for any number of goroutines, any width of the *)
(* sequence number and dumps of any length.                                *)
(***************************************************************************)
EXTENDS IpvsSocket, TLAPS, SequenceTheorems

SeqNumber == 0..SeqSpace - 1

(* How many requests after the first one a number is given out, also       *)
(* across the wrap-around.                                                 *)
Place(s) == IF s >= FirstSeq THEN s - FirstSeq ELSE s - FirstSeq + SeqSpace

GivenOut(s) == 0 < Place(s) /\ Place(s) <= Place(seq)

(* Numbers under way are distinct, and the queue holds answers to requests *)
(* that were sent, beside stray datagrams; what ends a command tells what  *)
(* the kernel did with it.                                                 *)
NumbersDistinct ==
  /\ Place(seq) <= Place(LastSeq)
  /\ \A c \in Callers : pc[c] # "idle" => req[c] \in SeqNumber /\ GivenOut(req[c])
  /\ \A c, d \in Callers : c # d /\ pc[c] # "idle" /\ pc[d] # "idle" => req[c] # req[d]

QueueTrue ==
  /\ \A i \in 1..Len(rxq) : rxq[i].pid = "own" => GivenOut(rxq[i].seq)
  /\ \A c \in Callers, i \in 1..Len(rxq) :
       rxq[i].pid = "own" /\ rxq[i].seq = req[c] =>
         /\ pc[c] # "send"
         /\ pc[c] = "receive" /\ Ends(rxq[i]) => (rxq[i].type = "ERROR" <=> truth[c] = "refused")

(* A command that receives was sent.                                       *)
Sent == \A c \in Callers : pc[c] = "receive" => truth[c] \in Outcomes

Inv == TypeOK /\ NumbersDistinct /\ QueueTrue /\ Sent /\ ResultIsTrue

(* Places are numbers below SeqSpace, and no two sequence numbers have the *)
(* same one.                                                               *)
LEMMA PlaceInjective ==
  /\ \A s \in SeqNumber : Place(s) \in SeqNumber
  /\ \A s, t \in SeqNumber : Place(s) = Place(t) => s = t
  /\ Place(FirstSeq) = 0
BY SocketAssumption DEF SocketAssumption, SeqNumber, Place

(* atomic.AddUint32 goes to the next place, until the bound is reached.    *)
LEMMA NextNumber ==
  ASSUME NEW s \in SeqNumber, s # LastSeq, Place(s) <= Place(LastSeq)
  PROVE  /\ (s + 1) % SeqSpace \in SeqNumber
         /\ Place((s + 1) % SeqSpace) = Place(s) + 1
         /\ Place(s) + 1 <= Place(LastSeq)
<1>1. SeqSpace \in Nat /\ SeqSpace > 1 /\ FirstSeq \in SeqNumber /\ LastSeq \in SeqNumber
  BY SocketAssumption DEF SocketAssumption, SeqNumber
<1>2. Place(s) # Place(LastSeq) /\ Place(s) \in SeqNumber /\ Place(LastSeq) \in SeqNumber
  BY <1>1, PlaceInjective
<1>3. CASE s + 1 < SeqSpace
  <2>1. (s + 1) % SeqSpace = s + 1
    BY <1>1, <1>3 DEF SeqNumber
  <2> QED
    BY <1>1, <1>2, <1>3, <2>1 DEF SeqNumber, Place
<1>4. CASE s + 1 = SeqSpace
  <2>1. (s + 1) % SeqSpace = 0
    BY <1>1, <1>4 DEF SeqNumber
  <2> QED
    BY <1>1, <1>2, <1>4, <2>1 DEF SeqNumber, Place
<1> QED
  BY <1>1, <1>3, <1>4 DEF SeqNumber

(* An answer consists of an error alone exactly when the kernel refused;   *)
(* nothing that ends a command is more than one datagram before its end.   *)
LEMMA AnswerShape ==
  ASSUME NEW cmd \in Commands, NEW outcome \in Outcomes, NEW types \in Answers(cmd, outcome)
  PROVE  /\ types \in Seq({"data", "part", "DONE", "ACK", "ERROR"})
         /\ \A i \in 1..Len(types) : types[i] # "part" =>
              (types[i] = "ERROR" <=> outcome = "refused") /\ Len(types) - i <= 1
<1>1. \/ outcome = "refused" /\ types = <<"ERROR">>
      \/ outcome = "ok" /\ types \in {<<"ACK">>, <<"data", "ACK">>}
      \/ outcome = "ok" /\ \E k \in 0..MaxParts : types = Append([i \in 1..k |-> "part"], "DONE")
  BY DEF Answers, Commands, Outcomes
<1>2. ASSUME NEW k \in 0..MaxParts, types = Append([i \in 1..k |-> "part"], "DONE"), outcome = "ok"
      PROVE  /\ types \in Seq({"data", "part", "DONE", "ACK", "ERROR"})
             /\ \A i \in 1..Len(types) : types[i] # "part" =>
                  (types[i] = "ERROR" <=> outcome = "refused") /\ Len(types) - i <= 1
  <2> DEFINE Parts == [i \in 1..k |-> "part"]
             Type == {"data", "part", "DONE", "ACK", "ERROR"}
  <2>1. k \in Nat
    BY SocketAssumption DEF SocketAssumption
  <2>2. Parts \in Seq(Type) /\ Len(Parts) = k /\ \A i \in 1..k : Parts[i] = "part"
    BY <2>1
  <2>3. /\ types \in Seq(Type) /\ Len(types) = k + 1
        /\ \A i \in 1..k : types[i] = "part"
        /\ types[k + 1] = "DONE"
    BY <1>2, <2>2, AppendProperties
  <2>4. ASSUME NEW i \in 1..Len(types), types[i] # "part"
        PROVE  i = k + 1
    BY <2>1, <2>3, <2>4
  <2> QED
    BY <1>2, <2>1, <2>3, <2>4
<1>3. CASE outcome = "refused" /\ types = <<"ERROR">>
  BY <1>3
<1>4. CASE outcome = "ok" /\ types = <<"ACK">>
  BY <1>4
<1>5. CASE outcome = "ok" /\ types = <<"data", "ACK">>
  BY <1>5
<1> QED
  BY <1>1, <1>2, <1>3, <1>4, <1>5

(* What Send puts into the queue.                                          *)
LEMMA SendQueue ==
  ASSUME TypeOK, NEW s \in SeqNumber, NEW types \in Seq({"data", "part", "DONE", "ACK", "ERROR"})
  PROVE  /\ rxq \o Reply(s, types) \in Seq(Message)
         /\ Len(rxq \o Reply(s, types)) = Len(rxq) + Len(types)
         /\ \A i \in 1..Len(rxq) : (rxq \o Reply(s, types))[i] = rxq[i]
         /\ \A i \in Len(rxq) + 1..Len(rxq) + Len(types) :
              (rxq \o Reply(s, types))[i] = [seq |-> s, type |-> types[i - Len(rxq)], pid |-> "own"]
<1>1. \A i \in 1..Len(types) : types[i] \in {"data", "part", "DONE", "ACK", "ERROR"}
  BY ElementOfSeq
<1>2. Len(types) \in Nat
  OBVIOUS
<1>3. \A i \in 1..Len(types) : [seq |-> s, type |-> types[i], pid |-> "own"] \in Message
  BY <1>1 DEF Message, SeqNumber
<1> DEFINE R == Reply(s, types)
<1>4. /\ R \in [1..Len(types) -> Message]
      /\ \A i \in 1..Len(types) : R[i] = [seq |-> s, type |-> types[i], pid |-> "own"]
  BY <1>3 DEF Reply
<1> HIDE DEF R
<1>5. R \in Seq(Message) /\ Len(R) = Len(types)
  BY <1>2, <1>4
<1>6. rxq \in Seq(Message)
  BY DEF TypeOK
<1>7. /\ rxq \o R \in Seq(Message) /\ Len(rxq \o R) = Len(rxq) + Len(R)
      /\ \A i \in 1..Len(rxq) + Len(R) : (rxq \o R)[i] = IF i <= Len(rxq) THEN rxq[i] ELSE R[i - Len(rxq)]
  BY <1>6, <1>5, ConcatProperties
<1>8. Len(rxq) \in Nat
  BY <1>6
<1>9. ASSUME NEW i \in Len(rxq) + 1..Len(rxq) + Len(types)
      PROVE  (rxq \o R)[i] = [seq |-> s, type |-> types[i - Len(rxq)], pid |-> "own"]
  <2>1. i \in 1..Len(rxq) + Len(R) /\ ~(i <= Len(rxq)) /\ i - Len(rxq) \in 1..Len(types)
    BY <1>2, <1>5, <1>8
  <2> QED
    BY <1>4, <1>7, <2>1
<1>10. \A i \in 1..Len(rxq) : (rxq \o R)[i] = rxq[i]
  BY <1>2, <1>5, <1>7, <1>8
<1> QED
  BY <1>5, <1>7, <1>9, <1>10 DEF R

(* What a failed receive leaves, and what a stray datagram adds.           *)
LEMMA Prefix ==
  ASSUME TypeOK, NEW n \in 0..Len(rxq)
  PROVE  /\ SubSeq(rxq, 1, n) \in Seq(Message) /\ Len(SubSeq(rxq, 1, n)) = n
         /\ \A i \in 1..n : i \in 1..Len(rxq) /\ SubSeq(rxq, 1, n)[i] = rxq[i]
<1>1. rxq \in Seq(Message) /\ Len(rxq) \in Nat /\ n \in Nat /\ n <= Len(rxq)
  BY DEF TypeOK
<1> QED
  BY <1>1, SubSeqProperties

LEMMA StrayQueue ==
  ASSUME TypeOK, Stray
  PROVE  /\ rxq' \in Seq(Message) /\ Len(rxq') = Len(rxq) + 1
         /\ \A i \in 1..Len(rxq) : rxq'[i] = rxq[i]
         /\ rxq'[Len(rxq) + 1].pid = "other"
<1>1. PICK s \in 0..SeqSpace - 1 : rxq' = Append(rxq, [seq |-> s, type |-> "data", pid |-> "other"])
  BY DEF Stray
<1> DEFINE m == [seq |-> s, type |-> "data", pid |-> "other"]
<1>2. m \in Message /\ m.pid = "other" /\ rxq' = Append(rxq, m)
  BY <1>1 DEF Message
<1>3. rxq \in Seq(Message)
  BY DEF TypeOK
<1> HIDE DEF m
<1> QED
  BY <1>2, <1>3, AppendProperties

LEMMA TypeInductive == TypeOK /\ NumbersDistinct /\ [Next]_vars => TypeOK'
<1> SUFFICES ASSUME TypeOK, NumbersDistinct, [Next]_vars PROVE TypeOK'
  OBVIOUS
<1>0. Fault => faults' \in 0..MaxFaults
  BY SocketAssumption DEF Fault, TypeOK, SocketAssumption
<1>1. ASSUME NEW c \in Callers, NumberRequest(c)
      PROVE  TypeOK'
  <2>1. (seq + 1) % SeqSpace \in SeqNumber
    BY <1>1, NextNumber DEF NumberRequest, TypeOK, NumbersDistinct, SeqNumber
  <2> QED
    BY <1>1, <2>1 DEF NumberRequest, TypeOK, SeqNumber
<1>2. ASSUME NEW c \in Callers, Send(c)
      PROVE  TypeOK'
  <2>1. req[c] \in SeqNumber
    BY <1>2 DEF Send, NumbersDistinct
  <2>2. ASSUME Executed(c)
        PROVE  rxq' \in Seq(Message) /\ truth' \in [Callers -> Outcomes \cup {"none"}]
    <3>1. PICK cmd \in Commands, outcome \in Outcomes : \E types \in Answers(cmd, outcome) :
            rxq' = rxq \o Reply(req[c], types) /\ truth' = [truth EXCEPT ![c] = outcome]
      BY <2>2 DEF Executed
    <3>2. PICK types \in Answers(cmd, outcome) : rxq' = rxq \o Reply(req[c], types)
      BY <3>1
    <3>3. rxq' \in Seq(Message)
      BY <2>1, <3>2, AnswerShape, SendQueue
    <3> QED
      BY <3>1, <3>3 DEF TypeOK
  <2>3. CASE Executed(c) /\ pc' = [pc EXCEPT ![c] = "receive"] /\ UNCHANGED <<req, result, faults, seq>>
    BY <2>2, <2>3 DEF TypeOK
  <2>4. CASE /\ Fault /\ truth' = [truth EXCEPT ![c] = "none"] /\ Return(c, "error")
             /\ UNCHANGED <<rxq, seq>>
    BY <1>0, <2>4 DEF TypeOK, Return
  <2>5. CASE Fault /\ Executed(c) /\ Return(c, "error") /\ UNCHANGED seq
    BY <1>0, <2>2, <2>5 DEF TypeOK, Return
  <2> QED
    BY <1>2, <2>3, <2>4, <2>5 DEF Send
<1>3. ASSUME NEW c \in Callers, Receive(c) \/ ReceiveFails(c)
      PROVE  TypeOK'
  <2>1. rxq' \in Seq(Message)
    <3>1. CASE Receive(c)
      BY <3>1, HeadTailProperties DEF Receive, TypeOK
    <3>2. CASE ReceiveFails(c)
      BY <3>2, Prefix DEF ReceiveFails
    <3> QED
      BY <1>3, <3>1, <3>2
  <2>2. faults' \in 0..MaxFaults
    BY <1>0, <1>3 DEF Receive, ReceiveFails, TypeOK
  <2>3. UNCHANGED <<seq, truth>>
    BY <1>3 DEF Receive, ReceiveFails
  <2>4. UNCHANGED <<pc, req, result>> \/ \E r \in Outcomes \cup {"error"} : Return(c, r)
    BY <1>3 DEF Receive, ReceiveFails, Outcomes
  <2> QED
    BY <2>1, <2>2, <2>3, <2>4 DEF TypeOK, Return
<1>4. ASSUME NEW c \in Callers, ReceiveTimesOut(c)
      PROVE  TypeOK'
  BY <1>4 DEF ReceiveTimesOut, vars, TypeOK
<1>5. CASE Stray
  BY <1>0, <1>5, StrayQueue DEF Stray, TypeOK
<1>6. CASE UNCHANGED vars
  BY <1>6 DEF vars, TypeOK
<1> QED
  BY <1>1, <1>2, <1>3, <1>4, <1>5, <1>6 DEF Next

LEMMA DistinctInductive == TypeOK /\ NumbersDistinct /\ [Next]_vars => NumbersDistinct'
<1> SUFFICES ASSUME TypeOK, NumbersDistinct, [Next]_vars PROVE NumbersDistinct'
  OBVIOUS
<1>1. ASSUME NEW c \in Callers, NumberRequest(c)
      PROVE  NumbersDistinct'
  <2> DEFINE n == (seq + 1) % SeqSpace
  <2>1. /\ n \in SeqNumber /\ Place(n) = Place(seq) + 1 /\ Place(n) <= Place(LastSeq)
        /\ seq' = n /\ req' = [req EXCEPT ![c] = n] /\ pc' = [pc EXCEPT ![c] = "send"]
    BY <1>1, NextNumber DEF NumberRequest, TypeOK, NumbersDistinct, SeqNumber
  <2> HIDE DEF n
  <2>2. \A s \in SeqNumber : Place(s) \in Nat
    BY PlaceInjective, SocketAssumption DEF SeqNumber, SocketAssumption
  <2>3. seq \in SeqNumber
    BY DEF TypeOK, SeqNumber
  <2>4. ASSUME NEW s \in SeqNumber, GivenOut(s)
        PROVE  0 < Place(s) /\ Place(s) <= Place(n) /\ s # n
    BY <2>1, <2>2, <2>3, <2>4 DEF GivenOut
  <2>5. 0 < Place(n) /\ Place(n) <= Place(n)
    BY <2>1, <2>2, <2>3
  <2>6. ASSUME NEW d \in Callers, pc'[d] # "idle", d # c
        PROVE  req'[d] = req[d] /\ req[d] \in SeqNumber /\ GivenOut(req[d]) /\ pc[d] # "idle"
    BY <2>1, <2>6 DEF TypeOK, NumbersDistinct
  <2>7. req'[c] = n
    BY <2>1 DEF TypeOK
  <2>8. ASSUME NEW d \in Callers, pc'[d] # "idle"
        PROVE  req'[d] \in SeqNumber /\ 0 < Place(req'[d]) /\ Place(req'[d]) <= Place(n)
    <3>1. CASE d = c
      BY <2>1, <2>5, <2>7, <3>1
    <3>2. CASE d # c
      BY <2>4, <2>6, <2>8, <3>2
    <3> QED
      BY <3>1, <3>2
  <2>9. ASSUME NEW d \in Callers, NEW e \in Callers, d # e, pc'[d] # "idle", pc'[e] # "idle"
        PROVE  req'[d] # req'[e]
    <3>1. CASE d # c /\ e # c
      BY <2>6, <2>9, <3>1 DEF NumbersDistinct
    <3>2. CASE d = c \/ e = c
      BY <2>4, <2>6, <2>7, <2>9, <3>2
    <3> QED
      BY <3>1, <3>2
  <2>10. Place(seq)' = Place(n)
    BY <2>1 DEF Place
  <2>11. ASSUME NEW d \in Callers, pc'[d] # "idle"
         PROVE  GivenOut(req[d])'
    BY <2>8, <2>10, <2>11 DEF GivenOut, Place
  <2> QED
    BY <2>1, <2>8, <2>9, <2>10, <2>11 DEF NumbersDistinct, Place
<1>2. ASSUME NEW c \in Callers, Send(c) \/ Receive(c) \/ ReceiveFails(c)
      PROVE  NumbersDistinct'
  <2>1. /\ seq' = seq
        /\ \A d \in Callers : pc'[d] # "idle" => pc[d] # "idle" /\ req'[d] = req[d]
    BY <1>2 DEF Send, Receive, ReceiveFails, Return, TypeOK
  <2> QED
    BY <2>1 DEF NumbersDistinct, GivenOut, Place
<1>3. CASE (\E c \in Callers : ReceiveTimesOut(c)) \/ Stray \/ UNCHANGED vars
  BY <1>3 DEF ReceiveTimesOut, Stray, vars, NumbersDistinct, GivenOut, Place
<1> QED
  BY <1>1, <1>2, <1>3 DEF Next

(* Under the invariant, what ends a command tells what became of it.       *)
LEMMA QueueInductive ==
  ASSUME TypeOK, NumbersDistinct, QueueTrue, Sent, ResultIsTrue, [Next]_vars
  PROVE  QueueTrue' /\ ResultIsTrue'
<1> DEFINE Q == 1..Len(rxq)
<1>0. Len(rxq) \in Nat /\ (\A i \in Q : rxq[i] \in Message) /\ rxq \in Seq(Message)
  BY ElementOfSeq DEF TypeOK
<1>1. ASSUME NEW c \in Callers, NumberRequest(c)
      PROVE  QueueTrue' /\ ResultIsTrue'
  <2> DEFINE n == (seq + 1) % SeqSpace
  <2>1. /\ n \in SeqNumber /\ Place(n) = Place(seq) + 1
        /\ seq' = n /\ req' = [req EXCEPT ![c] = n] /\ pc' = [pc EXCEPT ![c] = "send"]
        /\ UNCHANGED <<rxq, truth, result>>
    BY <1>1, NextNumber DEF NumberRequest, TypeOK, NumbersDistinct, SeqNumber
  <2> HIDE DEF n
  <2>2. \A s \in SeqNumber : Place(s) \in Nat
    BY PlaceInjective, SocketAssumption DEF SeqNumber, SocketAssumption
  <2>3. ASSUME NEW i \in Q, rxq[i].pid = "own"
        PROVE  0 < Place(rxq[i].seq) /\ Place(rxq[i].seq) <= Place(n) /\ rxq[i].seq # n
    <3>1. rxq[i].seq \in SeqNumber /\ seq \in SeqNumber /\ GivenOut(rxq[i].seq)
      BY <1>0, <2>3 DEF Message, SeqNumber, TypeOK, QueueTrue
    <3> QED
      BY <2>1, <2>2, <3>1 DEF GivenOut
  <2>4. \A i \in Q : rxq[i].pid = "own" => GivenOut(rxq[i].seq)'
    BY <2>1, <2>3 DEF GivenOut, Place
  <2>5. ASSUME NEW d \in Callers, NEW i \in Q, rxq[i].pid = "own", rxq[i].seq = req'[d]
        PROVE  d # c /\ req'[d] = req[d] /\ pc'[d] = pc[d]
    BY <2>1, <2>3, <2>5 DEF TypeOK
  <2>6. QueueTrue'
    BY <2>1, <2>4, <2>5 DEF QueueTrue, Ends
  <2>7. ResultIsTrue'
    BY <2>1 DEF TypeOK, ResultIsTrue
  <2> QED
    BY <2>6, <2>7
<1>2. ASSUME NEW c \in Callers, Send(c), Executed(c)
      PROVE  QueueTrue' /\ ResultIsTrue'
  <2>1. PICK cmd \in Commands, outcome \in Outcomes : \E types \in Answers(cmd, outcome) :
          rxq' = rxq \o Reply(req[c], types) /\ truth' = [truth EXCEPT ![c] = outcome]
    BY <1>2 DEF Executed
  <2>2. PICK types \in Answers(cmd, outcome) : rxq' = rxq \o Reply(req[c], types)
    BY <2>1
  <2>3. req[c] \in SeqNumber /\ GivenOut(req[c]) /\ pc[c] = "send"
    BY <1>2 DEF Send, NumbersDistinct
  <2>4. /\ seq' = seq /\ truth' = [truth EXCEPT ![c] = outcome]
        /\ \A d \in Callers \ {c} : pc'[d] = pc[d] /\ req'[d] = req[d] /\ result'[d] = result[d]
        /\ \/ pc'[c] = "receive" /\ req'[c] = req[c]
           \/ pc'[c] = "idle" /\ result'[c] = "error"
    BY <1>2, <2>1 DEF Send, Return, TypeOK
  <2>5. /\ types \in Seq({"data", "part", "DONE", "ACK", "ERROR"})
        /\ \A i \in 1..Len(types) : types[i] # "part" => (types[i] = "ERROR" <=> outcome = "refused")
    BY AnswerShape
  <2> DEFINE longer == rxq \o Reply(req[c], types)
  <2>6. /\ Len(longer) = Len(rxq) + Len(types)
        /\ \A i \in 1..Len(rxq) : longer[i] = rxq[i]
        /\ \A i \in Len(rxq) + 1..Len(rxq) + Len(types) :
             longer[i] = [seq |-> req[c], type |-> types[i - Len(rxq)], pid |-> "own"]
    BY <2>3, <2>5, SendQueue DEF SeqNumber
  <2>7. rxq' = longer /\ Len(types) \in Nat
    BY <2>2, <2>5
  <2> HIDE DEF longer
  <2>8. /\ Len(rxq') = Len(rxq) + Len(types) /\ Len(types) \in Nat
        /\ \A i \in Q : rxq'[i] = rxq[i]
        /\ \A i \in Len(rxq) + 1..Len(rxq) + Len(types) :
             rxq'[i].seq = req[c] /\ rxq'[i].type = types[i - Len(rxq)]
    <3>1. ASSUME NEW i \in Len(rxq) + 1..Len(rxq) + Len(types)
          PROVE  rxq'[i].seq = req[c] /\ rxq'[i].type = types[i - Len(rxq)]
      <4> DEFINE s == req[c]
                 t == types[i - Len(rxq)]
      <4>1. rxq'[i] = [seq |-> s, type |-> t, pid |-> "own"]
        BY <2>6, <2>7
      <4> HIDE DEF s, t
      <4>2. rxq'[i].seq = s /\ rxq'[i].type = t
        BY <4>1
      <4> QED
        BY <4>2 DEF s, t
    <3>2. /\ Len(rxq') = Len(rxq) + Len(types) /\ Len(types) \in Nat
          /\ \A i \in Q : rxq'[i] = rxq[i]
      BY <2>6, <2>7
    <3> QED
      BY <3>1, <3>2
  <2>9. ASSUME NEW i \in 1..Len(rxq'), rxq'[i].pid = "own"
        PROVE  GivenOut(rxq'[i].seq)
    <3>1. CASE i \in Q
      BY <2>8, <2>9, <3>1 DEF QueueTrue
    <3>2. CASE i \in Len(rxq) + 1..Len(rxq) + Len(types)
      BY <2>3, <2>8, <3>2
    <3> QED
      BY <1>0, <2>8, <3>1, <3>2
  <2>10. ASSUME NEW d \in Callers, NEW i \in 1..Len(rxq'), rxq'[i].pid = "own", rxq'[i].seq = req'[d]
        PROVE  /\ pc'[d] # "send"
               /\ pc'[d] = "receive" /\ Ends(rxq'[i]) => (rxq'[i].type = "ERROR" <=> truth'[d] = "refused")
    <3>0. CASE d = c /\ pc'[c] = "idle"
      BY <3>0
    <3>1. CASE i \in Q /\ req'[d] = req[d]
      <4>1. d # c
        BY <2>3, <2>8, <2>10, <3>1 DEF QueueTrue
      <4>2. truth'[d] = truth[d] /\ pc'[d] = pc[d] /\ rxq'[i] = rxq[i]
        BY <2>4, <2>8, <3>1, <4>1 DEF TypeOK
      <4>3. /\ pc[d] # "send"
            /\ pc[d] = "receive" /\ Ends(rxq[i]) => (rxq[i].type = "ERROR" <=> truth[d] = "refused")
        BY <2>10, <3>1, <4>2 DEF QueueTrue
      <4> QED
        BY <4>2, <4>3
    <3>2. CASE i \in Len(rxq) + 1..Len(rxq) + Len(types) /\ req'[d] = req[d]
      <4>1. i - Len(rxq) \in 1..Len(types)
        BY <1>0, <2>8, <3>2
      <4>2. rxq'[i].seq = req[c] /\ rxq'[i].type = types[i - Len(rxq)]
        BY <2>8, <3>2
      <4>3. CASE d = c
        BY <2>4, <2>5, <4>1, <4>2, <4>3 DEF TypeOK, Ends
      <4>4. CASE d # c
        <5>1. pc[d] = "idle"
          BY <2>3, <2>10, <3>2, <4>2, <4>4 DEF NumbersDistinct
        <5> QED
          BY <2>4, <4>4, <5>1
      <4> QED
        BY <4>3, <4>4
    <3> QED
      BY <1>0, <2>4, <2>8, <3>0, <3>1, <3>2
  <2>11. QueueTrue'
    BY <2>4, <2>9, <2>10 DEF QueueTrue, GivenOut, Place
  <2>12. ResultIsTrue'
    BY <2>4 DEF TypeOK, ResultIsTrue
  <2> QED
    BY <2>11, <2>12
<1>3. ASSUME NEW c \in Callers, NEW f,
             /\ \A i \in 1..Len(rxq') : f[i] \in Q /\ rxq'[i] = rxq[f[i]]
             /\ seq' = seq
             /\ \A d \in Callers :
                  /\ d # c => truth'[d] = truth[d]
                  /\ pc'[d] # "idle" => pc'[d] = pc[d] /\ req'[d] = req[d] /\ truth'[d] = truth[d]
                  /\ pc'[d] = "idle" /\ result'[d] # "error" => result'[d] = truth'[d]
      PROVE  QueueTrue' /\ ResultIsTrue'
  <2>1. \A i \in 1..Len(rxq') : rxq'[i].pid = "own" => GivenOut(rxq'[i].seq)
    BY <1>3 DEF QueueTrue
  <2>2. ASSUME NEW d \in Callers, NEW i \in 1..Len(rxq'), rxq'[i].pid = "own", rxq'[i].seq = req'[d]
        PROVE  /\ pc'[d] # "send"
               /\ pc'[d] = "receive" /\ Ends(rxq'[i]) => (rxq'[i].type = "ERROR" <=> truth'[d] = "refused")
    <3>1. CASE pc'[d] = "idle"
      BY <3>1
    <3>2. CASE pc'[d] # "idle"
      BY <1>3, <2>2, <3>2 DEF QueueTrue
    <3> QED
      BY <3>1, <3>2
  <2>3. QueueTrue'
    BY <1>3, <2>1, <2>2 DEF QueueTrue, GivenOut, Place
  <2> QED
    BY <1>3, <2>3 DEF ResultIsTrue
<1>4. ASSUME NEW c \in Callers, Receive(c)
      PROVE  QueueTrue' /\ ResultIsTrue'
  <2>1. rxq # <<>> /\ rxq' = Tail(rxq) /\ Head(rxq) = rxq[1] /\ UNCHANGED <<seq, truth>> /\ pc[c] = "receive"
    BY <1>4 DEF Receive
  <2>2. Len(rxq) > 0 /\ Len(rxq') = Len(rxq) - 1 /\ \A i \in 1..Len(rxq') : rxq'[i] = rxq[i + 1]
    BY <1>0, <2>1
  <2> DEFINE f == [i \in 1..Len(rxq') |-> i + 1]
  <2>3. \A i \in 1..Len(rxq') : f[i] \in Q /\ rxq'[i] = rxq[f[i]]
    BY <1>0, <2>2
  <2>4. ASSUME NEW d \in Callers
        PROVE  /\ pc'[d] # "idle" => pc'[d] = pc[d] /\ req'[d] = req[d]
               /\ pc'[d] = "idle" /\ result'[d] # "error" => result'[d] = truth[d]
    <3>1. CASE UNCHANGED <<pc, req, result>>
      BY <3>1 DEF ResultIsTrue
    <3>2. CASE Return(c, "error")
      BY <3>2 DEF TypeOK, ResultIsTrue, Return
    <3>3. CASE /\ ForCaller(c, rxq[1]) /\ rxq[1].pid = "own" /\ Ends(rxq[1])
               /\ Return(c, IF rxq[1].type = "ERROR" THEN "refused" ELSE "ok")
      <4>1. rxq[1].type = "ERROR" <=> truth[c] = "refused"
        BY <1>0, <2>1, <2>2, <3>3 DEF QueueTrue, ForCaller
      <4>2. truth[c] \in {"ok", "refused"}
        BY <2>1 DEF Sent, Outcomes
      <4> QED
        BY <3>3, <4>1, <4>2 DEF TypeOK, ResultIsTrue, Return
    <3> QED
      BY <1>4, <2>1, <3>1, <3>2, <3>3 DEF Receive
  <2> HIDE DEF f
  <2> QED
    BY <1>3, <2>1, <2>3, <2>4
<1>5. ASSUME NEW c \in Callers, ReceiveFails(c)
      PROVE  QueueTrue' /\ ResultIsTrue'
  <2>1. PICK n \in 0..Len(rxq) : rxq' = SubSeq(rxq, 1, n)
    BY <1>5 DEF ReceiveFails
  <2> DEFINE f == [i \in 1..Len(rxq') |-> i]
  <2>2. \A i \in 1..Len(rxq') : f[i] \in Q /\ rxq'[i] = rxq[f[i]]
    BY <2>1, Prefix
  <2>3. /\ UNCHANGED <<seq, truth>>
        /\ \A d \in Callers :
             /\ pc'[d] # "idle" => pc'[d] = pc[d] /\ req'[d] = req[d]
             /\ pc'[d] = "idle" /\ result'[d] # "error" => result'[d] = truth[d]
    BY <1>5 DEF ReceiveFails, Return, TypeOK, ResultIsTrue
  <2> HIDE DEF f
  <2> QED
    BY <1>3, <2>2, <2>3
<1>6. ASSUME NEW c \in Callers, Send(c), ~Executed(c)
      PROVE  QueueTrue' /\ ResultIsTrue'
  <2>1. truth' = [truth EXCEPT ![c] = "none"] /\ Return(c, "error") /\ UNCHANGED <<rxq, seq>>
    BY <1>6 DEF Send
  <2> DEFINE f == [i \in 1..Len(rxq') |-> i]
  <2>2. \A i \in 1..Len(rxq') : f[i] \in Q /\ rxq'[i] = rxq[f[i]]
    BY <2>1
  <2>3. \A d \in Callers :
          /\ d # c => truth'[d] = truth[d]
          /\ pc'[d] # "idle" => pc'[d] = pc[d] /\ req'[d] = req[d] /\ truth'[d] = truth[d]
          /\ pc'[d] = "idle" /\ result'[d] # "error" => result'[d] = truth'[d]
    BY <2>1 DEF Return, TypeOK, ResultIsTrue
  <2> HIDE DEF f
  <2> QED
    BY <1>3, <2>1, <2>2, <2>3
<1>7. CASE Stray
  <2>1. /\ Len(rxq') = Len(rxq) + 1 /\ rxq'[Len(rxq) + 1].pid = "other"
        /\ \A i \in Q : rxq'[i] = rxq[i]
        /\ UNCHANGED <<seq, pc, req, truth, result>>
    BY <1>7, StrayQueue DEF Stray
  <2>2. \A i \in 1..Len(rxq') : rxq'[i].pid = "own" => i \in Q
    BY <1>0, <2>1
  <2> QED
    BY <2>1, <2>2 DEF QueueTrue, ResultIsTrue, GivenOut, Place, Ends
<1>8. CASE (\E c \in Callers : ReceiveTimesOut(c)) \/ UNCHANGED vars
  BY <1>8 DEF ReceiveTimesOut, vars, QueueTrue, ResultIsTrue, GivenOut, Place, Ends
<1> QED
  BY <1>1, <1>2, <1>4, <1>5, <1>6, <1>7, <1>8 DEF Next

LEMMA SentInductive == TypeOK /\ Sent /\ [Next]_vars => Sent'
<1> SUFFICES ASSUME TypeOK, Sent, [Next]_vars PROVE Sent'
  OBVIOUS
<1>1. ASSUME NEW c \in Callers, NumberRequest(c) PROVE Sent'
  BY <1>1 DEF NumberRequest, Sent, TypeOK
<1>2. ASSUME NEW c \in Callers, Send(c) PROVE Sent'
  BY <1>2 DEF Send, Executed, Return, Sent, TypeOK
<1>3. ASSUME NEW c \in Callers, Receive(c) \/ ReceiveFails(c) PROVE Sent'
  BY <1>3 DEF Receive, ReceiveFails, Return, Sent, TypeOK
<1>4. CASE Stray \/ (\E c \in Callers : ReceiveTimesOut(c)) \/ UNCHANGED vars
  BY <1>4 DEF Stray, ReceiveTimesOut, vars, Sent
<1> QED
  BY <1>1, <1>2, <1>3, <1>4 DEF Next

LEMMA InitInv == Init => Inv
<1> SUFFICES ASSUME Init PROVE Inv
  OBVIOUS
<1>1. TypeOK
  BY SocketAssumption DEF Init, TypeOK, Outcomes, Message, SocketAssumption
<1>2. NumbersDistinct
  BY PlaceInjective, SocketAssumption DEF Init, NumbersDistinct, SeqNumber, SocketAssumption
<1>3. QueueTrue
  BY DEF Init, QueueTrue
<1> QED
  BY <1>1, <1>2, <1>3 DEF Init, Inv, Sent, ResultIsTrue

LEMMA InvInductive == Inv /\ [Next]_vars => Inv'
BY TypeInductive, DistinctInductive, QueueInductive, SentInductive DEF Inv

(* The counter, the requests and the datagrams keep their types, across    *)
(* the wrap-around too.                                                    *)
THEOREM TypeCorrect == Spec => []TypeOK
<1>1. Inv => TypeOK
  BY DEF Inv
<1> QED
  BY <1>1, InitInv, InvInductive, PTL DEF Spec

(* However many goroutines use the handle at the same time and whatever    *)
(* calls on the socket fail, a command that returns no error of the socket *)
(* returns what the kernel did with that very request, as long as no       *)
(* sequence number is given out twice.                                     *)
THEOREM ResultsTrue == Spec => []ResultIsTrue
<1>1. Inv => ResultIsTrue
  BY DEF Inv
<1> QED
  BY <1>1, InitInv, InvInductive, PTL DEF Spec
=============================================================================
