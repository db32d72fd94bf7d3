----------------------------- MODULE PostOffice -----------------------------
(***************************************************************************)
(* Machines that exchange mail: the simulated network device               *)
(* (machine/network.cc), the post office with its worker thread, its       *)
(* interrupt handlers and its mailboxes (network/post.cc), and the lists   *)
(* that the mailboxes are (threads/synchlist.cc).                          *)
(*                                                                         *)
(* The processor can be taken away in P and nowhere else in these calls.   *)
(* Lock has empty bodies and Condition::Wait is an assertion that fails    *)
(* (threads/synch.cc), so the lock of Send does nothing and Receive from   *)
(* an empty box stops the machine.  Lengths are legal and left out.        *)
(***************************************************************************)
EXTENDS Naturals, Sequences

CONSTANTS Node,      \* machines
          Client,    \* their threads that send and receive
          Home,      \* the machine of each client
          Box,       \* mailboxes of each machine
          MaxMail,   \* bound on the number of messages sent
          NULL

ASSUME PostOfficeAssumption ==
  /\ Home \in [Client -> Node]
  /\ MaxMail \in Nat

\* A message with its headers; "id" numbers the messages.
Mail == [id : 1 .. MaxMail, from : Node, to : Node, box : Box]

ASSUME NullAssumption == NULL \notin Mail

VARIABLES
  socket,       \* the packets on the wire to each machine
  inHdr,        \* Network::inHdr and inbox: the packet that has arrived, or NULL
  sending,      \* pending interrupts of packets that are being sent
  available,    \* the value of PostOffice::messageAvailable
  sent,         \* the value of PostOffice::messageSent
  worker,       \* the postal worker: "P", or "deliver" after it
  boxes,        \* PostOffice::boxes
  clientPc,     \* "idle", or "sending" while a client waits in Send
  up,           \* FALSE for a machine that an assertion stopped
  mails,        \* history: the number of messages sent
  wire,         \* history: packets to each machine that were not dropped
  arrived,      \* history: messages put into the boxes of each machine
  taken         \* history: messages clients took from each box

net == <<socket, inHdr, sending>>
office == <<available, sent, worker, boxes>>
history == <<mails, wire, arrived, taken>>
poVars == <<net, office, clientPc, up, history>>

POTypeOK ==
  /\ socket \in [Node -> Seq(Mail)]
  /\ inHdr \in [Node -> Mail \cup {NULL}]
  /\ sending \in [Node -> 0 .. MaxMail]
  /\ available \in [Node -> 0 .. 1]
  /\ sent \in [Node -> 0 .. MaxMail]
  /\ worker \in [Node -> {"P", "deliver"}]
  /\ boxes \in [Node -> [Box -> Seq(Mail)]]
  /\ clientPc \in [Client -> {"idle", "sending"}]
  /\ up \in [Node -> BOOLEAN]
  /\ mails \in 0 .. MaxMail
  /\ wire \in [Node -> Seq(Mail)] /\ arrived \in [Node -> Seq(Mail)]
  /\ taken \in [Node -> [Box -> Seq(Mail)]]

POInit ==
  /\ socket = [n \in Node |-> << >>]
  /\ inHdr = [n \in Node |-> NULL]
  /\ sending = [n \in Node |-> 0]
  /\ available = [n \in Node |-> 0]
  /\ sent = [n \in Node |-> 0]
  /\ worker = [n \in Node |-> "P"]
  /\ boxes = [n \in Node |-> [b \in Box |-> << >>]]
  /\ clientPc = [c \in Client |-> "idle"]
  /\ up = [n \in Node |-> TRUE]
  /\ mails = 0
  /\ wire = [n \in Node |-> << >>]
  /\ arrived = [n \in Node |-> << >>]
  /\ taken = [n \in Node |-> [b \in Box |-> << >>]]
-----------------------------------------------------------------------------
(* The network device *)

\* Network::Send: the interrupt comes whether or not the packet is dropped.
NetworkSend(n, mail) ==
  /\ sending' = [sending EXCEPT ![n] = @ + 1]
  /\ \/ /\ socket' = [socket EXCEPT ![mail.to] = Append(@, mail)]
        /\ wire' = [wire EXCEPT ![mail.to] = Append(@, mail)]
     \/ UNCHANGED <<socket, wire>>

\* Mutant: a lost packet does not give an interrupt.
SendDoneIfOnWire(n) ==
  /\ up[n] /\ sending[n] > 0
  /\ sending' = [sending EXCEPT ![n] = @ - 1]
  /\ sent' = [sent EXCEPT ![n] = IF \E m \in Node : socket[m] # << >> THEN @ + 1 ELSE @]
  /\ UNCHANGED <<socket, inHdr, available, worker, boxes, clientPc, up, history>>

\* Network::SendDone and PostOffice::PacketSent.
SendDone(n) ==
  /\ up[n] /\ sending[n] > 0
  /\ sending' = [sending EXCEPT ![n] = @ - 1]
  /\ sent' = [sent EXCEPT ![n] = @ + 1]
  /\ UNCHANGED <<socket, inHdr, available, worker, boxes, clientPc, up, history>>

\* Mutant: the poll does not look whether a packet is buffered already.
CheckPktOverwrites(n) ==
  /\ up[n] /\ socket[n] # << >>
  /\ inHdr' = [inHdr EXCEPT ![n] = Head(socket[n])]
  /\ socket' = [socket EXCEPT ![n] = Tail(@)]
  /\ available' = [available EXCEPT ![n] = @ + 1]
  /\ UNCHANGED <<sending, sent, worker, boxes, clientPc, up, history>>

\* Mutant: the handler is not called for a packet that comes while the worker
\* is busy.
CheckPktNoSignal(n) ==
  /\ up[n] /\ inHdr[n] = NULL /\ socket[n] # << >>
  /\ inHdr' = [inHdr EXCEPT ![n] = Head(socket[n])]
  /\ socket' = [socket EXCEPT ![n] = Tail(@)]
  /\ available' = [available EXCEPT ![n] = IF arrived[n] = << >> THEN @ + 1 ELSE @]
  /\ UNCHANGED <<sending, sent, worker, boxes, clientPc, up, history>>

\* Network::CheckPktAvail and PostOffice::IncomingPacket: the poll that finds
\* a packet.  (One that finds none, or one buffered, only polls again.)
CheckPktAvail(n) ==
  /\ up[n] /\ inHdr[n] = NULL /\ socket[n] # << >>
  /\ inHdr' = [inHdr EXCEPT ![n] = Head(socket[n])]
  /\ socket' = [socket EXCEPT ![n] = Tail(@)]
  /\ available' = [available EXCEPT ![n] = @ + 1]
  /\ UNCHANGED <<sending, sent, worker, boxes, clientPc, up, history>>
-----------------------------------------------------------------------------
(* The postal worker *)

\* PostalDelivery passes messageAvailable->P().
WorkerWakes(n) ==
  /\ up[n] /\ worker[n] = "P" /\ available[n] > 0
  /\ available' = [available EXCEPT ![n] = @ - 1]
  /\ worker' = [worker EXCEPT ![n] = "deliver"]
  /\ UNCHANGED <<net, sent, boxes, clientPc, up, history>>

\* Mutant: the message goes to the front of the list.
DeliverPrepends(n) ==
  /\ up[n] /\ worker[n] = "deliver" /\ inHdr[n] # NULL
  /\ boxes' = [boxes EXCEPT ![n][inHdr[n].box] = <<inHdr[n]>> \o @]
  /\ arrived' = [arrived EXCEPT ![n] = Append(@, inHdr[n])]
  /\ inHdr' = [inHdr EXCEPT ![n] = NULL]
  /\ worker' = [worker EXCEPT ![n] = "P"]
  /\ UNCHANGED <<socket, sending, available, sent, clientPc, up, mails, wire, taken>>

\* Network::Receive, and Put into the box of the mail header.  There is a packet
\* in the device then: see OneSignalPerPacket.
Deliver(n) ==
  /\ up[n] /\ worker[n] = "deliver" /\ inHdr[n] # NULL
  /\ boxes' = [boxes EXCEPT ![n][inHdr[n].box] = Append(@, inHdr[n])]
  /\ arrived' = [arrived EXCEPT ![n] = Append(@, inHdr[n])]
  /\ inHdr' = [inHdr EXCEPT ![n] = NULL]
  /\ worker' = [worker EXCEPT ![n] = "P"]
  /\ UNCHANGED <<socket, sending, available, sent, clientPc, up, mails, wire, taken>>
-----------------------------------------------------------------------------
(* Clients *)

\* PostOffice::Send as far as messageSent->P(), of a mail that fits a packet to a
\* box that there is: Send and PostalDelivery assert both.
Send(c, to, b) ==
  LET n == Home[c]
      mail == [id |-> mails + 1, from |-> n, to |-> to, box |-> b]
  IN  /\ up[n] /\ clientPc[c] = "idle"
      /\ mails < MaxMail
      /\ NetworkSend(n, mail)
      /\ mails' = mails + 1
      /\ clientPc' = [clientPc EXCEPT ![c] = "sending"]
      /\ UNCHANGED <<inHdr, office, up, arrived, taken>>

\* Send returns.
SendReturns(c) ==
  /\ up[Home[c]] /\ clientPc[c] = "sending" /\ sent[Home[c]] > 0
  /\ sent' = [sent EXCEPT ![Home[c]] = @ - 1]
  /\ clientPc' = [clientPc EXCEPT ![c] = "idle"]
  /\ UNCHANGED <<net, available, worker, boxes, up, history>>

\* PostOffice::Receive from a box that has mail.
Receive(c, b) ==
  LET n == Home[c]
  IN  /\ up[n] /\ clientPc[c] = "idle"
      /\ boxes[n][b] # << >>
      /\ boxes' = [boxes EXCEPT ![n][b] = Tail(@)]
      /\ taken' = [taken EXCEPT ![n][b] = Append(@, Head(boxes[n][b]))]
      /\ UNCHANGED <<net, available, sent, worker, clientPc, up, mails, wire, arrived>>

\* Receive from an empty box: Condition::Wait fails.
ReceiveFails(c, b) ==
  LET n == Home[c]
  IN  /\ up[n] /\ clientPc[c] = "idle"
      /\ boxes[n][b] = << >>
      /\ up' = [up EXCEPT ![n] = FALSE]
      /\ UNCHANGED <<net, office, clientPc, history>>

PONext ==
  \/ \E n \in Node : SendDone(n) \/ CheckPktAvail(n) \/ WorkerWakes(n) \/ Deliver(n)
  \/ \E c \in Client : \/ SendReturns(c)
                       \/ \E b \in Box : \/ Receive(c, b) \/ ReceiveFails(c, b)
                                         \/ \E n \in Node : Send(c, n, b)

POSpec == POInit /\ [][PONext]_poVars

\* Pending interrupts come, the poll schedules itself again each time, and
\* threads that can run do.
POFairness ==
  /\ \A n \in Node : /\ WF_poVars(SendDone(n)) /\ WF_poVars(CheckPktAvail(n))
                     /\ WF_poVars(WorkerWakes(n)) /\ WF_poVars(Deliver(n))
  /\ \A c \in Client : WF_poVars(SendReturns(c))

POFairSpec == POSpec /\ POFairness
-----------------------------------------------------------------------------
(* Correctness *)

Buffered(n) == IF inHdr[n] = NULL THEN << >> ELSE <<inHdr[n]>>

\* network.h:46-47: the network delivers "in order but unreliably".  A packet
\* that is not dropped on sending goes into a box exactly once and in the
\* order of sending, although the device has room for one packet and the
\* worker empties it some time after the interrupt.
DeliveredInOrder == \A n \in Node : arrived[n] \o Buffered(n) \o socket[n] = wire[n]

\* q is the mail for box b in s: one message for each, in the order of s.
MailFor(q, s, b) ==
  \E at \in [DOMAIN q -> {i \in DOMAIN s : s[i].box = b}] :
    /\ \A k \in DOMAIN q : q[k] = s[at[k]]
    /\ \A j, k \in DOMAIN q : j < k => at[j] < at[k]
    /\ \A i \in DOMAIN s : s[i].box = b => \E k \in DOMAIN q : at[k] = i

\* What clients take from a box, and what is still in it, is the mail that
\* came for this box, in order.
BoxInOrder ==
  \A n \in Node, b \in Box : MailFor(taken[n][b] \o boxes[n][b], arrived[n], b)

\* The worker is woken once for each packet: when it is past P there is a
\* packet in the device, and when one is there it has been or will be woken.
OneSignalPerPacket ==
  \A n \in Node : available[n] + (IF worker[n] = "deliver" THEN 1 ELSE 0) = Len(Buffered(n))

\* What makes these inductive: a message is being sent or has been sent at most
\* once.
POInv == /\ POTypeOK
         /\ DeliveredInOrder
         /\ OneSignalPerPacket
         /\ \A n \in Node : sending[n] + sent[n] <= mails

\* A packet that is not dropped gets into a box, unless the machine stops.
MailArrives ==
  \A n \in Node : \A i \in 1 .. MaxMail :
    Len(wire[n]) >= i ~> Len(arrived[n]) >= i \/ ~ up[n]

\* Send returns, also when the packet is dropped.
SendsReturn == \A c \in Client : clientPc[c] = "sending" ~> clientPc[c] = "idle" \/ ~ up[Home[c]]
=============================================================================
