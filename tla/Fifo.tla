-------------------------------- MODULE Fifo --------------------------------
(***************************************************************************)
(* A named pipe with one reading process, as the Java worker and the       *)
(* persistent C worker use them (mkfifo in bindings_piper.sh): both sides  *)
(* open the pipe for every single message and close it afterwards. The     *)
(* operators give the next value of a pipe for each call of the operating  *)
(* system; the guards are the conditions on which the call blocks.         *)
(***************************************************************************)
EXTENDS Sequences

\* reader: the reading end is open (or its open is blocked, which lets a writer in);
\* writers: who has the writing end open; met: a writer has opened the pipe since the
\* reader did; lines: what was written and not yet read.
EmptyFifo == [reader |-> FALSE, writers |-> {}, met |-> FALSE, lines |-> <<>>]

FifoType(writers, lines) ==
    [reader : BOOLEAN, writers : SUBSET writers, met : BOOLEAN, lines : Seq(lines)]

\* The kernel drops what is unread when the last end is closed.
Dropped(p) == IF p.reader \/ p.writers # {} THEN p ELSE EmptyFifo

OpenRead(p)     == [p EXCEPT !.reader = TRUE, !.met = p.writers # {}]
CanOpenWrite(p) == p.reader
OpenWrite(p, w) == [p EXCEPT !.writers = @ \cup {w}, !.met = TRUE]

\* A write fails (EPIPE) when the reader has gone.
CanWrite(p)       == p.reader
Write(p, line)    == [p EXCEPT !.lines = Append(@, line)]
CloseWrite(p, w)  == Dropped([p EXCEPT !.writers = @ \ {w}])

\* A read returns when there is something to read, or when every writer has gone.
\* The buffered readers of both sides take all that is there and use the first line.
CanRead(p)         == p.met /\ (p.lines # <<>> \/ p.writers = {})
FirstLine(p, eof)  == IF p.lines = <<>> THEN eof ELSE Head(p.lines)
ReadAll(p)         == [p EXCEPT !.lines = <<>>]
CloseRead(p)       == Dropped([p EXCEPT !.reader = FALSE, !.met = FALSE])
=============================================================================
