----------------------------- MODULE ByteStream -----------------------------
(***************************************************************************)
(* What a Stream promises its two applications, whatever the network does: *)
(* the bytes read are the bytes written, in order and once each, and the   *)
(* end of the stream is reported only after the last of them.              *)
(***************************************************************************)
EXTENDS Naturals, Sequences

VARIABLES
    pipe,    \* the bytes passed to Write so far
    closed,  \* whether Close was called
    got,     \* the bytes Read has returned
    eof      \* whether Read has returned io.EOF

pipeVars == <<pipe, closed, got, eof>>

IsPrefixOf(s, t) == Len(s) <= Len(t) /\ \A i \in 1..Len(s) : s[i] = t[i]

PipeInit == pipe = <<>> /\ closed = FALSE /\ got = <<>> /\ eof = FALSE

PipeWrite ==
    /\ ~closed
    /\ Len(pipe') > Len(pipe)
    /\ IsPrefixOf(pipe, pipe')
    /\ UNCHANGED <<closed, got, eof>>

PipeClose ==
    /\ ~closed
    /\ closed' = TRUE
    /\ UNCHANGED <<pipe, got, eof>>

PipeRead ==
    /\ ~eof
    /\ Len(got') > Len(got)
    /\ IsPrefixOf(got, got')
    /\ IsPrefixOf(got', pipe)
    /\ UNCHANGED <<pipe, closed, eof>>

PipeEOF ==
    /\ closed
    /\ got = pipe
    /\ eof' = TRUE
    /\ UNCHANGED <<pipe, closed, got>>

PipeNext == PipeWrite \/ PipeClose \/ PipeRead \/ PipeEOF

PipeSpec == PipeInit /\ [][PipeNext]_pipeVars

=============================================================================
