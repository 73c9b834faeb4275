------------------------------ MODULE NcsiBus ------------------------------
(***************************************************************************)
(* The card: two chips run the same firmware image behind one shared       *)
(* RMII/RBT sideband and form one package with two channels (README "Board *)
(* context", "How package/channel addressing works").  Each chip is an     *)
(* instance of NcsiResponder with its own channel number, fed through its  *)
(* own RX interrupt and main loop; the Management Controller is external.  *)
(***************************************************************************)
EXTENDS Integers, FiniteSets

CONSTANTS PackageId, MaxFilters, MaxMacNumber, Macs, ZeroMac, Words,
          StatModulus, Requests, None

VARIABLES
  selected0, port0, nic0, link0, rx0, tx0,  \* the chip strapped as channel 0
  selected1, port1, nic1, link1, rx1, tx1,  \* the chip strapped as channel 1
  pending,      \* gRxPending and gRxFrame of each chip: a frame, or None
  outstanding,  \* external: the command the MC waits for, or None
  answers,      \* external: the answers to it, with the chip each came from
  acked         \* external: the last command, once it is known to be complete

chip0 == <<selected0, port0, nic0, link0, rx0, tx0>>
chip1 == <<selected1, port1, nic1, link1, rx1, tx1>>
mc    == <<outstanding, answers, acked>>
vars  == <<chip0, chip1, pending, mc>>

C0 == INSTANCE NcsiResponder WITH
        ChannelId <- 0, selected <- selected0, port <- port0, nic <- nic0,
        linkUp <- link0, rx <- rx0, tx <- tx0
C1 == INSTANCE NcsiResponder WITH
        ChannelId <- 1, selected <- selected1, port <- port1, nic <- nic1,
        linkUp <- link1, rx <- rx1, tx <- tx1

\* What NcsiResponder assumes of its constants.
ASSUME BusAssumption ==
  /\ PackageId \in 0..7
  /\ MaxFilters \in Nat \ {0}
  /\ MaxMacNumber \in Nat /\ MaxFilters <= MaxMacNumber
  /\ ZeroMac \in Macs
  /\ Words \subseteq Nat /\ 0 \in Words
  /\ StatModulus \in Nat \ {0}
  /\ Requests \subseteq C0!ControlFrame
  /\ None \notin C0!ControlFrame /\ None \notin C0!Response
  /\ None \notin Macs /\ None \notin (0..7) \X Macs

\* external: the MC can tell which of its commands an answer is for.
ASSUME InstancesTellApart ==
  \A f, g \in Requests :
    f.command = g.command /\ f.channel = g.channel /\ f.instance = g.instance => f = g

Chips == {0, 1}

----------------------------------------------------------------------------
(* The receive path of a chip *)

\* NCSI_RxOk_ISR() of both chips.  A chip that still has the buffer of an earlier
\* frame misses the frame, whether that one waits for the main loop or is being
\* handled and perhaps answered already; with a second buffer the new frame
\* replaces one that waits.
NCSI_RxOk_ISR(f) ==
  \E heard \in SUBSET Chips :
    pending' = [c \in Chips |-> IF c \in heard THEN f ELSE pending[c]]

\* external: an answer reaches the MC, which keeps it if it waits for it.
Deliver(c, answer) ==
  answers' = IF /\ answer # None /\ answer.sent
                /\ outstanding # None
                /\ answer.command = outstanding.command
                /\ answer.channel = outstanding.channel
                /\ answer.instance = outstanding.instance
               THEN answers \cup {[chip |-> c, code |-> answer.code]}
               ELSE answers

\* NCSI_PollRx(): the pending flag is cleared, then the frame is handled.
TakePending(c) ==
  /\ pending[c] # None
  /\ pending' = [pending EXCEPT ![c] = None]

NCSI_PollRx0 ==
  /\ TakePending(0)
  /\ C0!handleNCSIFrame(pending[0])
  /\ Deliver(0, tx0')
  /\ UNCHANGED <<chip1, outstanding, acked>>

NCSI_PollRx1 ==
  /\ TakePending(1)
  /\ C1!handleNCSIFrame(pending[1])
  /\ Deliver(1, tx1')
  /\ UNCHANGED <<chip0, outstanding, acked>>

----------------------------------------------------------------------------
(* external: the Management Controller keeps one command outstanding,      *)
(* repeats it until it has an answer, and goes on after that.  A repetition *)
(* and an answer may cross.                                                *)

McSend(f) ==
  /\ outstanding = None
  /\ outstanding' = f /\ answers' = {} /\ acked' = None
  /\ NCSI_RxOk_ISR(f)
  /\ UNCHANGED <<chip0, chip1>>

McRepeat ==
  /\ outstanding # None
  /\ NCSI_RxOk_ISR(outstanding)
  /\ UNCHANGED <<chip0, chip1, mc>>

McAccept ==
  /\ outstanding # None /\ answers # {}
  /\ acked' = IF \A a \in answers : a.code = "COMPLETE" THEN outstanding ELSE None
  /\ outstanding' = None
  /\ UNCHANGED <<chip0, chip1, pending, answers>>

Init ==
  /\ C0!Init /\ C1!Init
  /\ link0 = TRUE /\ link1 = TRUE
  /\ pending = [c \in Chips |-> None]
  /\ outstanding = None /\ answers = {} /\ acked = None

Next ==
  \/ NCSI_PollRx0
  \/ NCSI_PollRx1
  \/ \E f \in Requests : McSend(f)
  \/ McRepeat
  \/ McAccept

Spec == Init /\ [][Next]_vars

\* Both main loops run, and a chip that keeps answering is heard in the end:
\* Network_TxFrame() does not fail for ever.  The MC repeats and accepts, and a
\* chip does not miss every repetition: it gives its buffer back each time.
Fairness ==
  /\ WF_vars(NCSI_PollRx0) /\ WF_vars(NCSI_PollRx1)
  /\ SF_vars(NCSI_PollRx0 /\ tx0' # None /\ tx0'.sent)
  /\ SF_vars(NCSI_PollRx1 /\ tx1' # None /\ tx1'.sent)
  /\ \A c \in Chips : SF_vars(McRepeat /\ pending'[c] = outstanding)
  /\ WF_vars(McAccept)

FairSpec == Spec /\ Fairness

----------------------------------------------------------------------------
(* Properties *)

\* What is pending or outstanding is a command of the MC, and every answer comes
\* from one of the two chips.
MailTypeOK ==
  /\ pending \in [Chips -> Requests \cup {None}]
  /\ outstanding \in Requests \cup {None}
  /\ acked \in Requests \cup {None}
  /\ \A a \in answers : a.chip \in Chips

\* The type invariant of the card: both chips keep the types of a responder,
\* whatever the bus hands them, and so do the mailboxes and the MC.
BusTypeOK == C0!TypeOK /\ C1!TypeOK /\ MailTypeOK

Answering == {a.chip : a \in answers}

\* A command addressed to a channel is answered by no chip but the one that
\* owns the channel, however often the MC repeats it and in whatever order the
\* two main loops run.
OneChannelResponder ==
  outstanding # None /\ outstanding.channel \in Chips =>
    Answering \subseteq {outstanding.channel}

\* README.md:226: "two chips both responding to one BMC query would break it".
OneResponder == Cardinality(Answering) <= 1

\* What the MC was told is complete stays in force in the chip that owns the
\* channel until the MC sends the next command: a copy of the command that was
\* sent before the answer arrived and is still pending does not undo it.
AcknowledgedHolds ==
  acked # None =>
    /\ acked.channel = 0 => C0!InForce(acked, port0, nic0)
    /\ acked.channel = 1 => C1!InForce(acked, port1, nic1)

\* A frame for one channel leaves no trace in the chip of the other channel.
NoCrossTalk ==
  [][/\ pending[0] # None /\ pending[0].channel = 1 /\ pending'[0] = None =>
          port0' = port0 /\ selected0' = selected0 /\ nic0' = nic0
     /\ pending[1] # None /\ pending[1].channel = 0 /\ pending'[1] = None =>
          port1' = port1 /\ selected1' = selected1 /\ nic1' = nic1]_vars

\* Every command gets an answer in the end, although answers are lost and
\* commands missed or overwritten before the main loop looks at them.
EveryCommandAnswered == (outstanding # None) ~> (outstanding = None)
============================================================================
