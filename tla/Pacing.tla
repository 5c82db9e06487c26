------------------------------- MODULE Pacing -------------------------------
(***************************************************************************)
(* The pacer (pacing.go) and the senders that ask it: writers in           *)
(* awaitSendCredit, which draw a batch later, when they send it; flushLost *)
(* with its timer; and onPTO, which draws without asking.                  *)
(*                                                                         *)
(* Time is in ticks and the rate in whole bytes a tick.  The rate comes    *)
(* from the window and the RTT, here any of Rates: unpaced until there is  *)
(* an RTT sample, finite from then on, the RTT of a real path not being 0. *)
(***************************************************************************)
EXTENDS Integers, FiniteSets, FiniteSetsExt, Functions

CONSTANTS
    PacedWriters,
    DatagramSize,        \* MaxDatagramSize
    BurstPackets,        \* PacingBurstPackets
    MinPacingDelay,      \* in ticks
    BatchMax,            \* sendBatchMax
    Rates,               \* bytes a tick
    MaxPTOs              \* bound: packets onPTO sends

ASSUME PacingAssumption ==
    /\ DatagramSize \in Nat \ {0} /\ BurstPackets \in Nat \ {0} /\ MinPacingDelay \in Nat \ {0}
    /\ BatchMax \in Nat \ {0} /\ Rates \subseteq Nat \ {0} /\ MaxPTOs \in Nat
    /\ IsFiniteSet(PacedWriters)

Unpaced == 0
Never == -1
NoTimer == -1

VARIABLES
    rate,               \* or Unpaced
    budgetAtLastSend,
    idle,               \* ticks since the last send, or Never
    cleared,            \* packets each writer may send and has not drawn
    lostTimer,          \* ticks until flushLost runs again, or NoTimer
    unhindered,         \* since it was set nothing was drawn and the rate did not fall
    repriced,           \* the rate fell under a writer that was cleared
    probed              \* packets onPTO has drawn

pacingVars == <<rate, budgetAtLastSend, idle, cleared, lostTimer, unhindered, repriced, probed>>

PacingInit ==
    /\ rate = Unpaced /\ budgetAtLastSend = 0 /\ idle = Never
    /\ cleared = [w \in PacedWriters |-> 0]
    /\ lostTimer = NoTimer /\ unhindered = FALSE /\ repriced = FALSE /\ probed = 0

maxBurst == Max({BurstPackets * DatagramSize, rate * MinPacingDelay})

budget == IF idle = Never THEN maxBurst ELSE Min({budgetAtLastSend + rate * idle, maxBurst})

\* Mutant: the wait is rounded down.
TimeUntilSend_Floor ==
    LET short == DatagramSize - budget
    IN IF rate = Unpaced \/ short <= 0 THEN 0 ELSE Max({short \div rate, MinPacingDelay})

\* Mutant: any credit will do for a datagram.
TimeUntilSend_AnyCredit ==
    IF rate = Unpaced \/ budget >= 0 THEN 0
    ELSE Max({(rate - 1 - budget) \div rate, MinPacingDelay})

\* The wait is rounded up, and at least MinPacingDelay.
TimeUntilSend ==
    LET short == DatagramSize - budget
    IN IF rate = Unpaced \/ short <= 0 THEN 0
       ELSE Max({(short + rate - 1) \div rate, MinPacingDelay})

\* OnPacketSent, of a full datagram.
Draw ==
    IF rate = Unpaced THEN UNCHANGED <<budgetAtLastSend, idle>>
    ELSE budgetAtLastSend' = budget - DatagramSize /\ idle' = 0

\* The budget of the time since the last send is at the new rate too.
UpdateRate(r) ==
    /\ rate' = r
    /\ repriced' = (repriced \/ (r < rate /\ \E w \in PacedWriters : cleared[w] > 0))
    /\ unhindered' = (unhindered /\ r >= rate)
    /\ UNCHANGED <<budgetAtLastSend, idle, cleared, lostTimer, probed>>

\* awaitSendCredit finds the pacer ready; the writer sends up to a batch.
WriterCleared(w, n) ==
    /\ cleared[w] = 0 /\ TimeUntilSend = 0
    /\ cleared' = [cleared EXCEPT ![w] = n]
    /\ UNCHANGED <<rate, budgetAtLastSend, idle, lostTimer, unhindered, repriced, probed>>

WriterDraws(w) ==
    /\ cleared[w] > 0
    /\ cleared' = [cleared EXCEPT ![w] = @ - 1]
    /\ Draw
    /\ unhindered' = FALSE
    /\ UNCHANGED <<rate, lostTimer, repriced, probed>>

\* flushLost, by an ACK or its timer: it sends, or sets the timer.
pacedFlushLost ==
    /\ IF TimeUntilSend = 0
       THEN Draw /\ lostTimer' = NoTimer /\ unhindered' = FALSE
       ELSE /\ lostTimer' = TimeUntilSend /\ unhindered' = TRUE
            /\ UNCHANGED <<budgetAtLastSend, idle>>
    /\ UNCHANGED <<rate, cleared, repriced, probed>>

\* onPTO's packet is drawn from the budget and does not wait for it.
PtoDraws ==
    /\ probed < MaxPTOs
    /\ probed' = probed + 1
    /\ Draw
    /\ unhindered' = FALSE
    /\ UNCHANGED <<rate, cleared, lostTimer, repriced>>

\* At any rate the budget is full: more ticks make no difference.
Rested ==
    idle = Never \/ \A r \in Rates :
        budgetAtLastSend + r * idle >= Max({BurstPackets * DatagramSize, r * MinPacingDelay})

\* A tick; a timer that is due runs first.
Tick ==
    /\ lostTimer # 0
    /\ idle' = IF Rested THEN idle ELSE idle + 1
    /\ lostTimer' = IF lostTimer = NoTimer THEN NoTimer ELSE lostTimer - 1
    /\ UNCHANGED <<rate, budgetAtLastSend, cleared, unhindered, repriced, probed>>

PacingNext ==
    \/ \E r \in Rates : UpdateRate(r)
    \/ \E w \in PacedWriters, n \in 1..BatchMax : WriterCleared(w, n)
    \/ \E w \in PacedWriters : WriterDraws(w)
    \/ pacedFlushLost
    \/ PtoDraws
    \/ Tick

PacingSpec == PacingInit /\ [][PacingNext]_pacingVars

-----------------------------------------------------------------------------
PacingTypeOK ==
    /\ rate \in Rates \cup {Unpaced} /\ budgetAtLastSend \in Int
    /\ idle \in Nat \cup {Never}
    /\ cleared \in [PacedWriters -> 0..BatchMax]
    /\ lostTimer \in Int /\ unhindered \in BOOLEAN /\ repriced \in BOOLEAN
    /\ probed \in 0..MaxPTOs

\* The wait flushLost is told is enough: if nothing else is sent and the rate
\* does not fall before its timer fires, the pacer lets it send then.
WaitSuffices == lostTimer = 0 /\ unhindered => TimeUntilSend = 0

\* Senders that saw the same budget (awaitSendCredit) and draw on it together
\* (OnPacketSent, a packet at a time) leave a debt of no more than a batch for
\* each writer, a datagram for flushLost and the probes that did not ask, the
\* first datagram being covered; as long as the rate has not fallen under a
\* writer that was cleared, for then UpdateRate takes back what it was promised.
DebtBounded ==
    rate # Unpaced /\ ~repriced =>
        budget - DatagramSize * SumFunction(cleared)
            >= DatagramSize * (-(Cardinality(PacedWriters) * BatchMax) - probed)

=============================================================================
