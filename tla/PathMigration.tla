--------------------------- MODULE PathMigration ----------------------------
(***************************************************************************)
(* A connection whose peer changes address (observeAddr,                   *)
(* completeMigration, InitiatePathMigration and the path frames of         *)
(* handleFrame in connection.go).  The peer's NAT may move it at any time; *)
(* its packets, our challenges and its responses may be lost, delayed past *)
(* a later move, or duplicated.                                            *)
(*                                                                         *)
(* A challenge is eight random bytes: here a value used nowhere else.      *)
(***************************************************************************)
EXTENDS FiniteSets, Integers, Sequences

CONSTANTS
    Addrs,         \* addresses the peer may have
    Home,          \* the one the connection starts with
    NoAddr,        \* pendingAddr is nil
    Challenges,    \* bound: challenge values that may be in use at once
    MaxMoves,      \* bound: times the peer's path changes
    MaxCalls       \* bound: calls of InitiatePathMigration

ASSUME AddrAssumption == Home \in Addrs /\ NoAddr \notin Addrs

VARIABLES
    remoteAddr,
    pendingAddr, pendingChallenge,
    pathChallengeResp,   \* answers that no pending challenge waited for, at most one
    migration,           \* the calls of InitiatePathMigration in progress: none or one
    calls,               \* how many there have been
    at,                  \* where the peer is
    moves,               \* how often its path has changed
    packets,             \* addresses whose packets may still arrive
    challenges,          \* PATH_CHALLENGEs in the air: [addr, data]
    responses,           \* PATH_RESPONSEs in the air
    answered             \* the challenges the peer has answered

connVars == <<remoteAddr, pendingAddr, pendingChallenge, pathChallengeResp, migration, calls>>
airVars == <<packets, challenges, responses, answered>>
migrationVars == <<connVars, at, moves, airVars>>

MigrationInit ==
    /\ remoteAddr = Home /\ at = Home /\ moves = 0
    /\ pendingAddr = NoAddr /\ pendingChallenge = NoAddr
    /\ pathChallengeResp = <<>> /\ migration = {} /\ calls = 0
    /\ packets = {} /\ challenges = {} /\ responses = {} /\ answered = {}

\* rand.Read: a value no challenge, answer or waiting call has.
Unused(d) ==
    /\ d # pendingChallenge
    /\ d \notin responses
    /\ \A c \in challenges : c.data # d
    /\ \A i \in 1..Len(pathChallengeResp) : pathChallengeResp[i] # d
    /\ \A m \in migration : m.data # d

SendChallenge(d, a) ==
    /\ Unused(d)
    /\ challenges' = challenges \cup {[addr |-> a, data |-> d]}
    /\ answered' = {c \in answered : c.data # d}

(***************************************************************************)
(* The connection.                                                         *)
(***************************************************************************)

\* Mutant: no other address is tried while a challenge is unanswered.
observeAddr_First(a, d) ==
    /\ a \in packets /\ a # remoteAddr
    /\ pendingAddr \in {NoAddr, a}
    /\ pendingAddr' = a
    /\ pendingChallenge' = d
    /\ SendChallenge(d, a)
    /\ UNCHANGED <<remoteAddr, pathChallengeResp, migration, calls, at, moves, packets, responses>>

\* A packet from an address that is not the connection's.  While a challenge
\* to that same address is less than pathChallengeRetry old nothing happens.
observeAddr(a, d) ==
    /\ a \in packets /\ a # remoteAddr
    /\ pendingAddr' = a
    /\ pendingChallenge' = d
    /\ SendChallenge(d, a)
    /\ UNCHANGED <<remoteAddr, pathChallengeResp, migration, calls, at, moves, packets, responses>>

\* Mutant: any response completes the migration.
completes_Any(d) == pendingAddr # NoAddr

completes(d) == pendingAddr # NoAddr /\ d = pendingChallenge

\* A PATH_RESPONSE completes the move (completeMigration), or is left for
\* InitiatePathMigration if the channel has room.
HandlePathResponse(d) ==
    /\ d \in responses
    /\ \/ /\ completes(d)
          /\ remoteAddr' = pendingAddr
          /\ pendingAddr' = NoAddr
          /\ UNCHANGED pathChallengeResp
       \/ /\ ~completes(d)
          /\ pathChallengeResp' =
                IF pathChallengeResp = <<>> THEN <<d>> ELSE pathChallengeResp
          /\ UNCHANGED <<remoteAddr, pendingAddr>>
    /\ UNCHANGED <<pendingChallenge, migration, calls, at, moves, airVars>>

\* InitiatePathMigration up to its select: the challenge goes out by
\* sendFrames, to the address the connection has.
InitiatePathMigration(newAddr, d) ==
    /\ migration = {} /\ calls < MaxCalls
    /\ calls' = calls + 1
    /\ migration' = {[data |-> d, addr |-> newAddr]}
    /\ SendChallenge(d, remoteAddr)
    /\ UNCHANGED <<remoteAddr, pendingAddr, pendingChallenge, pathChallengeResp, at, moves,
                   packets, responses>>

\* The select takes a response: the right one moves the connection, any other
\* fails the call.
MigrationResponse ==
    /\ pathChallengeResp # <<>>
    /\ \E m \in migration :
        remoteAddr' = IF Head(pathChallengeResp) = m.data THEN m.addr ELSE remoteAddr
    /\ migration' = {}
    /\ pathChallengeResp' = <<>>
    /\ UNCHANGED <<pendingAddr, pendingChallenge, calls, at, moves, airVars>>

\* The call's five seconds pass, or its context ends.
MigrationTimeout ==
    /\ migration # {}
    /\ migration' = {}
    /\ UNCHANGED <<remoteAddr, pendingAddr, pendingChallenge, pathChallengeResp, calls, at,
                   moves, airVars>>

(***************************************************************************)
(* The peer and the network.                                               *)
(***************************************************************************)
PeerSends ==
    /\ at \notin packets
    /\ packets' = packets \cup {at}
    /\ UNCHANGED <<connVars, at, moves, challenges, responses, answered>>

\* The peer's NAT gives it another address.
Rebind(a) ==
    /\ a # at /\ moves < MaxMoves
    /\ at' = a
    /\ moves' = moves + 1
    /\ UNCHANGED <<connVars, airVars>>

\* The peer, the same code, answers a challenge that reaches it.
PeerAnswers(c) ==
    /\ c \in challenges /\ c.addr = at
    /\ responses' = responses \cup {c.data}
    /\ answered' = answered \cup {c}
    /\ challenges' = challenges \ {c}
    /\ UNCHANGED <<connVars, at, moves, packets>>

LoseInAir ==
    /\ \/ \E c \in challenges :
            challenges' = challenges \ {c} /\ UNCHANGED <<packets, responses>>
       \/ \E d \in responses :
            responses' = responses \ {d} /\ UNCHANGED <<packets, challenges>>
       \/ \E a \in packets :
            packets' = packets \ {a} /\ UNCHANGED <<challenges, responses>>
    /\ UNCHANGED <<connVars, at, moves, answered>>

MigrationNext ==
    \/ \E a \in Addrs, d \in Challenges : observeAddr(a, d) \/ InitiatePathMigration(a, d)
    \/ \E d \in responses : HandlePathResponse(d)
    \/ MigrationResponse
    \/ MigrationTimeout
    \/ PeerSends
    \/ \E a \in Addrs : Rebind(a)
    \/ \E c \in challenges : PeerAnswers(c)
    \/ LoseInAir

MigrationSpec == MigrationInit /\ [][MigrationNext]_migrationVars

-----------------------------------------------------------------------------
(***************************************************************************)
(* Steps that are fair, in MCPath.                                         *)
(***************************************************************************)

\* Nothing stays in the air for ever.
LoseOld ==
    /\ LoseInAir
    /\ \/ packets' # packets /\ at \in packets'
       \/ \E c \in challenges : c.data # pendingChallenge /\ c \notin challenges'
       \/ \E d \in responses : d # pendingChallenge /\ d \notin responses'

\* The peer keeps sending from where it is, and what is sent again and again
\* gets through; an answer comes within pathChallengeRetry often enough.
PeerObserved == \E d \in Challenges : observeAddr(at, d)
PendingReached == \E c \in challenges : c.data = pendingChallenge /\ PeerAnswers(c)
PendingAnswered == completes(pendingChallenge) /\ HandlePathResponse(pendingChallenge)

-----------------------------------------------------------------------------
MigrationTypeOK ==
    /\ remoteAddr \in Addrs /\ at \in Addrs
    /\ pendingAddr \in Addrs \cup {NoAddr}
    /\ pendingChallenge \in Challenges \cup {NoAddr}
    /\ Len(pathChallengeResp) <= 1
    /\ migration \subseteq [data : Challenges, addr : Addrs]
    /\ moves \in 0..MaxMoves /\ calls \in 0..MaxCalls
    /\ packets \subseteq Addrs
    /\ challenges \subseteq [addr : Addrs, data : Challenges]
    /\ responses \subseteq Challenges
    /\ answered \subseteq [addr : Addrs, data : Challenges]

\* The connection only moves to an address the peer has answered a challenge
\* from (observeAddr, completeMigration), or that the caller of an answered
\* InitiatePathMigration asked for.
MovesAnswered ==
    [][remoteAddr' # remoteAddr =>
        \/ [addr |-> remoteAddr', data |-> pendingChallenge] \in answered
        \/ \E m \in migration : m.addr = remoteAddr' /\ pathChallengeResp = <<m.data>>
      ]_migrationVars

=============================================================================
