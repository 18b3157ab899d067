----------------------------- MODULE IpvsSocket -----------------------------
(***************************************************************************)
(* The netlink conversation of internal/ipvs: doCmdwithResponse and        *)
(* execute.  One Handle has one socket; the kernel answers a request while *)
(* it is sent, so the answer is in the socket's queue when Send returns.   *)
(* Every goroutine with a command under way takes datagrams from that same *)
(* queue and drops those that are not for it.                              *)
(*                                                                         *)
(* Requests carry NLM_F_ACK.  A change is answered by one NLMSG_ERROR      *)
(* message, with errno 0 or not; a GetService by the data and then an      *)
(* acknowledgement, or by an error alone; a dump by parts with NLM_F_MULTI *)
(* and then NLMSG_DONE.                                                    *)
(*                                                                         *)
(* The calls on the socket itself may fail as well, before the kernel has  *)
(* seen the request or after it has executed it; the command then returns  *)
(* an error at once and leaves what there is of its answer in the queue.   *)
(***************************************************************************)
EXTENDS Integers, Sequences

CONSTANTS
  Callers,   \* goroutines that may use the handle at the same time
  SeqSpace,  \* 2^32: the sequence number is a uint32
  MaxParts,  \* bound on the parts of a dump
  FirstSeq,  \* the number of the last request before the behaviour begins
  LastSeq,   \* bound: no request follows this number
  MaxFaults, \* bound on failing socket calls and stray datagrams
  NoSeq      \* no request sent

ASSUME SocketAssumption ==
  /\ SeqSpace \in Nat \ {0, 1}
  /\ FirstSeq \in 0..SeqSpace - 1 /\ LastSeq \in 0..SeqSpace - 1
  /\ MaxParts \in Nat /\ MaxFaults \in Nat
  /\ NoSeq \notin Nat

VARIABLES
  seq,     \* Handle.seq
  rxq,     \* datagrams in the socket's receive queue
  pc,      \* caller -> "idle", "send" or "receive"
  req,     \* caller -> the sequence number of its request
  truth,   \* caller -> what the kernel did with its request, "none" if it was not sent
  result,  \* caller -> what its last command returned
  faults   \* failing socket calls and stray datagrams so far

vars == <<seq, rxq, pc, req, truth, result, faults>>

Commands == {"change", "get", "dump"}
Outcomes == {"ok", "refused"}
Message == [seq : 0..SeqSpace - 1, type : {"data", "part", "DONE", "ACK", "ERROR"}, pid : {"own", "other"}]

TypeOK ==
  /\ seq \in 0..SeqSpace - 1
  /\ rxq \in Seq(Message)
  /\ pc \in [Callers -> {"idle", "send", "receive"}]
  /\ req \in [Callers -> 0..SeqSpace - 1 \cup {NoSeq}]
  /\ truth \in [Callers -> Outcomes \cup {"none"}]
  /\ result \in [Callers -> Outcomes \cup {"error"}]
  /\ faults \in 0..MaxFaults

(* A new handle, or one that has carried any number of commands: between   *)
(* commands nothing else of it matters.                                    *)
Init ==
  /\ seq = FirstSeq
  /\ rxq = <<>>
  /\ pc = [c \in Callers |-> "idle"]
  /\ req = [c \in Callers |-> NoSeq]
  /\ truth = [c \in Callers |-> "ok"]
  /\ result = [c \in Callers |-> "ok"]
  /\ faults = 0

-----------------------------------------------------------------------------
(* The datagrams with which the kernel answers request number s.           *)
Reply(s, types) == [i \in 1..Len(types) |-> [seq |-> s, type |-> types[i], pid |-> "own"]]

Answers(cmd, outcome) ==
  IF outcome = "refused" THEN {<<"ERROR">>}
  ELSE CASE cmd = "change" -> {<<"ACK">>}
         [] cmd = "get" -> {<<"data", "ACK">>}
         [] cmd = "dump" -> {Append([i \in 1..k |-> "part"], "DONE") : k \in 0..MaxParts}

(* atomic.AddUint32(&i.seq, 1)                                             *)
NumberUnwrapped(c) ==
  /\ pc[c] = "idle"
  /\ seq # LastSeq
  /\ seq' = seq + 1
  /\ req' = [req EXCEPT ![c] = seq']
  /\ pc' = [pc EXCEPT ![c] = "send"]
  /\ UNCHANGED <<rxq, truth, result, faults>>

NumberRequest(c) ==
  /\ pc[c] = "idle"
  /\ seq # LastSeq
  /\ seq' = (seq + 1) % SeqSpace
  /\ req' = [req EXCEPT ![c] = seq']
  /\ pc' = [pc EXCEPT ![c] = "send"]
  /\ UNCHANGED <<rxq, truth, result, faults>>

Fault == faults < MaxFaults /\ faults' = faults + 1

Return(c, r) ==
  /\ result' = [result EXCEPT ![c] = r]
  /\ req' = [req EXCEPT ![c] = NoSeq]
  /\ pc' = [pc EXCEPT ![c] = "idle"]

(* The kernel executes the request and queues its answer.                  *)
Executed(c) ==
  \E cmd \in Commands, outcome \in Outcomes : \E types \in Answers(cmd, outcome) :
    /\ rxq' = rxq \o Reply(req[c], types)
    /\ truth' = [truth EXCEPT ![c] = outcome]

(* Send and GetPid, each of which may fail.                                *)
Send(c) ==
  /\ pc[c] = "send"
  /\ \/ Executed(c) /\ pc' = [pc EXCEPT ![c] = "receive"] /\ UNCHANGED <<req, result, faults>>
     \/ Fault /\ truth' = [truth EXCEPT ![c] = "none"] /\ Return(c, "error") /\ UNCHANGED rxq
     \/ Fault /\ Executed(c) /\ Return(c, "error")
  /\ UNCHANGED seq

(* The message ends the command of the caller it is for.                   *)
EndsWithoutAck(m) == m.type \notin {"part", "ACK"}
Ends(m) == m.type # "part"

TakeAny(c, m) == TRUE
ForCaller(c, m) == m.seq = req[c]

(* One datagram: dropped when the sequence number is another's; an error  *)
(* when the process number is; collected when more parts follow, else the  *)
(* end of the command.                                                     *)
Receive(c) ==
  /\ pc[c] = "receive"
  /\ rxq # <<>>
  /\ rxq' = Tail(rxq)
  /\ LET m == Head(rxq) IN
       \/ ~ForCaller(c, m) /\ UNCHANGED <<pc, req, result>>
       \/ ForCaller(c, m) /\ m.pid # "own" /\ Return(c, "error")
       \/ ForCaller(c, m) /\ m.pid = "own" /\ ~Ends(m) /\ UNCHANGED <<pc, req, result>>
       \/ /\ ForCaller(c, m) /\ m.pid = "own" /\ Ends(m)
          /\ Return(c, IF m.type = "ERROR" THEN "refused" ELSE "ok")
  /\ UNCHANGED <<seq, truth, faults>>

(* Any error of recvfrom but EAGAIN ends the command: a signal, a closed   *)
(* socket, or a full receive buffer, for which the last datagrams found no *)
(* room.                                                                   *)
ReceiveFails(c) ==
  /\ pc[c] = "receive"
  /\ Fault
  /\ \E n \in 0..Len(rxq) : rxq' = SubSeq(rxq, 1, n)
  /\ Return(c, "error")
  /\ UNCHANGED <<seq, truth>>

(* The receive timeout of the socket fires: EAGAIN, and the loop goes on.  *)
ReceiveTimesOut(c) ==
  /\ pc[c] = "receive"
  /\ rxq = <<>>
  /\ UNCHANGED vars

(* A datagram with another process number in its header, which is all that *)
(* execute would look at beside the sequence number.                       *)
Stray ==
  /\ Fault
  /\ \E s \in 0..SeqSpace - 1 : rxq' = Append(rxq, [seq |-> s, type |-> "data", pid |-> "other"])
  /\ UNCHANGED <<seq, pc, req, truth, result>>

Next ==
  \/ \E c \in Callers : NumberRequest(c) \/ Send(c) \/ Receive(c) \/ ReceiveFails(c) \/ ReceiveTimesOut(c)
  \/ Stray

Spec == Init /\ [][Next]_vars

(* Every goroutine goes on with the command it has begun.                  *)
FairSpec == Spec /\ \A c \in Callers : WF_vars(Send(c)) /\ WF_vars(Receive(c))

-----------------------------------------------------------------------------
(* Properties *)

(* What a command returns, unless it is an error of the socket, is what    *)
(* the kernel did with that very request, although acknowledgements of     *)
(* earlier requests and all of the answers to failed commands are left in  *)
(* the queue and sequence numbers come around.                             *)
ResultIsTrue ==
  \A c \in Callers : pc[c] = "idle" /\ result[c] # "error" => result[c] = truth[c]

(* Every command comes to an end.                                          *)
CommandsEnd == \A c \in Callers : pc[c] = "receive" ~> pc[c] = "idle"

Overlap == \E c, d \in Callers : c # d /\ pc[c] # "idle" /\ pc[d] # "idle"
AllIdle == \A c \in Callers : pc[c] = "idle"

(* The datagrams of answers that nobody has read.                          *)
Unread == {i \in 1..Len(rxq) : rxq[i].pid = "own"}

(* As long as the goroutines take turns, every command comes to an end,    *)
(* and leftovers do not pile up: between commands that met no error of the *)
(* socket at most the acknowledgement of the last GetService is in the     *)
(* queue, since they have also drained what failed ones left there.        *)
TakingTurnsWorks ==
  ([]~Overlap) =>
    /\ CommandsEnd
    /\ [](AllIdle /\ (\A c \in Callers : result[c] # "error") => \A i, j \in Unread : i = j)
=============================================================================
