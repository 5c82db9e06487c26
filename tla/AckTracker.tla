----------------------------- MODULE AckTracker -----------------------------
(***************************************************************************)
(* The acknowledging side of a connection: recvTracker, a ring of bits     *)
(* over the last ackHistory sequence numbers (ack_tracker.go), and the     *)
(* policy that decides when an ACK goes out, with its timer                *)
(* (noteReceived, takeAckLocked and ackTimerFired in connection.go).       *)
(*                                                                         *)
(* A timer's callback runs in a goroutine of its own: once it has fired it *)
(* can no longer be stopped, and it waits for ackMu like everyone else.    *)
(***************************************************************************)
EXTENDS AckFrames

CONSTANTS
    AckElicitingThreshold,
    Timers,                \* time.Timer objects
    None,                  \* no timer: nil
    MaxSeq                 \* bound: sequence numbers used

ASSUME TrackerAssumption ==
    /\ ackHistory \in Nat \ {0}
    /\ MaxSeq \in Nat
    /\ AckElicitingThreshold \in Nat \ {0}
    /\ None \notin Timers

VARIABLES
    any, largest,   \* whether anything has arrived, and the largest sequence
    bits,           \* the ring: bit s % ackHistory stands for sequence s
    ackPending,     \* packets not yet acknowledged
    ackTimer,       \* the ACK timer, or None
    timer,          \* what each timer object is doing
    arrived         \* history: every sequence that has arrived

ringVars == <<any, largest, bits>>
timerVars == <<ackTimer, timer>>
ackVars == <<ringVars, ackPending, timerVars, arrived>>

Seqs == 0..MaxSeq
slot(s) == s % ackHistory

-----------------------------------------------------------------------------
has(s) ==
    /\ any
    /\ s <= largest
    /\ largest - s < ackHistory
    /\ bits[slot(s)]

\* Mutant: the slots skipped over keep what they said of older sequences.
addedBits_KeepsGap(s) ==
    IF any /\ s < largest /\ largest - s >= ackHistory THEN bits
    ELSE [bits EXCEPT ![slot(s)] = TRUE]

\* The ring after add(s).  Slots between the old largest and s are reused for
\* sequences that have not arrived, so they must read as missing.
addedBits(s) ==
    LET skipped == {slot(t) : t \in (largest + 1)..(s - 1)}
    IN  IF any /\ s < largest /\ largest - s >= ackHistory
        THEN bits
        ELSE [i \in DOMAIN bits |->
                \/ i = slot(s)
                \/ /\ bits[i]
                   /\ any /\ s > largest => s - largest < ackHistory /\ i \notin skipped]

\* What add(s) returns.
addedOutOfOrder(s) ==
    /\ any
    /\ \/ s > largest + 1
       \/ s < largest /\ (largest - s >= ackHistory \/ ~has(s))

-----------------------------------------------------------------------------
AckInit ==
    /\ any = FALSE /\ largest = 0
    /\ bits = [i \in 0..(ackHistory - 1) |-> FALSE]
    /\ ackPending = 0
    /\ ackTimer = None
    /\ timer = [t \in Timers |-> "idle"]
    /\ arrived = {}

\* Stop has no effect on a timer that has fired.
Stopped == [t \in Timers |-> IF t = ackTimer /\ timer[t] = "armed" THEN "idle" ELSE timer[t]]

takeAckLocked ==
    /\ ackPending' = 0
    /\ ackTimer' = None
    /\ timer' = Stopped

AckNow(s, edge) == addedOutOfOrder(s) \/ edge \/ ackPending + 1 >= AckElicitingThreshold

\* A data packet arrives, in order or not; edge is a SYN, a FIN or a probe.
noteReceived(s, edge) ==
    /\ any' = TRUE
    /\ largest' = IF any /\ s <= largest THEN largest ELSE s
    /\ bits' = addedBits(s)
    /\ arrived' = arrived \cup {s}
    /\ \/ /\ AckNow(s, edge)
          /\ takeAckLocked
       \/ /\ ~AckNow(s, edge)
          /\ ackPending' = ackPending + 1
          /\ \/ ackTimer # None /\ UNCHANGED timerVars
             \/ /\ ackTimer = None
                /\ \E t \in Timers :
                    /\ timer[t] = "idle"
                    /\ ackTimer' = t
                    /\ timer' = [timer EXCEPT ![t] = "armed"]

TimerExpires(t) ==
    /\ timer[t] = "armed"
    /\ timer' = [timer EXCEPT ![t] = "fired"]
    /\ UNCHANGED <<ringVars, ackPending, ackTimer, arrived>>

\* Mutant: the expired timer still counts as armed.
ackTimerFired_Kept(t) ==
    /\ timer[t] = "fired"
    /\ timer' = [timer EXCEPT ![t] = "idle"]
    /\ ackPending' = 0
    /\ UNCHANGED <<ringVars, ackTimer, arrived>>

\* Mutant: the callback restarts the timer instead of flushing.
ackTimerFired_Rearms(t) ==
    /\ timer[t] = "fired"
    /\ timer' = [timer EXCEPT ![t] = "armed"]
    /\ ackTimer' = t
    /\ UNCHANGED <<ringVars, ackPending, arrived>>

\* The callback of a timer that fired gets ackMu.  It clears ackTimer even
\* when that has come to name another timer.
ackTimerFired(t) ==
    /\ timer[t] = "fired"
    /\ timer' = [timer EXCEPT ![t] = "idle"]
    /\ ackTimer' = None
    /\ ackPending' = 0
    /\ UNCHANGED <<ringVars, arrived>>

AckNext ==
    \/ \E s \in Seqs, edge \in BOOLEAN : noteReceived(s, edge)
    \/ \E t \in Timers : TimerExpires(t) \/ ackTimerFired(t)

AckSpec == AckInit /\ [][AckNext]_ackVars

\* The runtime fires an armed timer and runs its callback.
AckFairSpec == AckSpec /\ \A t \in Timers : WF_ackVars(TimerExpires(t)) /\ WF_ackVars(ackTimerFired(t))

-----------------------------------------------------------------------------
(***************************************************************************)
(* Properties.                                                             *)
(***************************************************************************)
AckTypeOK ==
    /\ any \in BOOLEAN /\ largest \in Seqs
    /\ bits \in [0..(ackHistory - 1) -> BOOLEAN]
    /\ ackPending \in 0..(AckElicitingThreshold - 1)
    /\ ackTimer \in Timers \cup {None}
    /\ timer \in [Timers -> {"idle", "armed", "fired"}]
    /\ arrived \subseteq Seqs

\* The ring remembers exactly what arrived within its reach, through every
\* reuse of a slot: a bit left over from a sequence ackHistory earlier would
\* acknowledge a packet that was lost, and its data would never be re-sent.
RingExact ==
    /\ any <=> arrived # {}
    /\ any => largest \in arrived /\ \A s \in arrived : s <= largest
    /\ \A s \in Seqs :
        any /\ s <= largest /\ largest - s < ackHistory => (has(s) <=> s \in arrived)

\* Whether the next packet counts as out of order is judged as it would be
\* with every arrival remembered.
OrderJudged == \A s \in Seqs : addedOutOfOrder(s) <=> OutOfOrder(arrived, s)

\* A packet that awaits its ACK has a timer coming for it, though callbacks
\* that fired too late to be stopped clear a timer that is not theirs.
PendingIsTimed ==
    ackPending > 0 => \E t \in Timers : timer[t] # "idle"

\* Every arrival is acknowledged: the ACK timer never lets one wait for ever.
AckFollows == (ackPending > 0) ~> (ackPending = 0)

=============================================================================
