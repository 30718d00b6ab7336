-------------------------------- MODULE Rio --------------------------------
(***************************************************************************)
(* Robust I/O, webserver/common.c: rio_write at one end of a connection or *)
(* a file, and at the other rio_readlineb, through its buffer, or rio_read.*)
(* read and write move as many bytes as they please; EINTR is a retry.     *)
(***************************************************************************)
EXTENDS Integers, SequencesExt

CONSTANTS
  Letters, NewLine,   \* the bytes
  MaxInput,           \* bound on what is written
  RIO_BUFSIZE, MaxLen \* rio's buffer, and the line buffer of the reader

VARIABLES
  input, left,    \* what the writer was given, and what it has yet to write
  stream,         \* bytes written and not yet read
  closed,         \* has the writer closed its end, or died?
  mode,           \* of the reader: "lines", or "bytes" (rio_read)
  nbytes,         \* rio_read's n
  rio_buf,        \* the rio_cnt bytes from rio_bufptr on
  usrbuf,         \* the bytes stored by the call in progress
  reads,          \* what the calls have returned
  outcome         \* of the reader

vars == <<input, left, stream, closed, mode, nbytes, rio_buf, usrbuf, reads,
          outcome>>
reader_vars == <<rio_buf, usrbuf, reads, outcome>>
fixed == <<input, mode, nbytes>>

Init ==
  /\ input \in SeqOf(Letters \cup {NewLine}, MaxInput)
  /\ left = input
  /\ stream = <<>>
  /\ closed = FALSE
  /\ mode \in {"lines", "bytes"}
  /\ nbytes \in IF mode = "lines" THEN {0} ELSE 0 .. MaxInput
  /\ rio_buf = <<>>                                         \* rio_init
  /\ usrbuf = <<>> /\ reads = <<>>
  /\ outcome = "live"

From(s, k) == SubSeq(s, k + 1, Len(s))
UpTo(s, k) == SubSeq(s, 1, k)

-----------------------------------------------------------------------------
(* One write of rio_write.                                                 *)
Write ==
  /\ ~closed
  /\ \E nwritten \in 1 .. Len(left) :
       /\ stream' = stream \o UpTo(left, nwritten)
       /\ left' = From(left, nwritten)
  /\ UNCHANGED <<fixed, closed, reader_vars>>

(* close; or a failed write, which ends the process (Rio_write).           *)
Close ==
  /\ ~closed
  /\ closed' = TRUE
  /\ UNCHANGED <<fixed, left, stream, reader_vars>>

-----------------------------------------------------------------------------
Reading(m) == outcome = "live" /\ mode = m

(* The caller reads until a call returns 0.                                *)
Return(bytes) ==
  /\ reads' = Append(reads, bytes)
  /\ usrbuf' = <<>>

AtEof == stream = <<>> /\ closed

(* rio_readb: the loop that fills an empty buffer.                         *)
refills_early == Len(rio_buf) <= 1
needs_refill == rio_buf = <<>>
Refill ==
  /\ Reading("lines") /\ needs_refill /\ stream # <<>>
  /\ \E cnt \in 1 .. Min({RIO_BUFSIZE, Len(stream)}) :
       /\ rio_buf' = UpTo(stream, cnt)
       /\ stream' = From(stream, cnt)
  /\ UNCHANGED <<fixed, left, closed, usrbuf, reads, outcome>>

(* rio_readlineb: one byte.  A line of MaxLen bytes is ended one byte past *)
(* its buffer, with any effect.                                            *)
ends_with_buffer(c) == c = NewLine \/ Len(rio_buf) = 1
ends_line(c) == c = NewLine
TakeByte ==
  /\ Reading("lines") /\ ~needs_refill
  /\ LET line == Append(usrbuf, Head(rio_buf)) IN
     /\ IF Len(line) = MaxLen \/ ends_line(Head(rio_buf))
        THEN Return(line) ELSE usrbuf' = line /\ UNCHANGED reads
     /\ IF Len(line) = MaxLen THEN outcome' \in {"live", "overrun"}
        ELSE UNCHANGED outcome
  /\ rio_buf' = Tail(rio_buf)
  /\ UNCHANGED <<fixed, left, stream, closed>>

(* End of file: what there is of a line, or 0, and then the buffer of the  *)
(* caller is left as it was.                                               *)
LineEof ==
  /\ Reading("lines") /\ rio_buf = <<>> /\ AtEof
  /\ IF usrbuf # <<>> THEN Return(usrbuf) /\ UNCHANGED outcome
     ELSE outcome' = "eof" /\ UNCHANGED <<usrbuf, reads>>
  /\ UNCHANGED <<fixed, left, stream, closed, rio_buf>>

(* rio_read: one read, and the return at n bytes or at end of file.        *)
nleft == nbytes - Len(usrbuf)
ReadBytes ==
  /\ Reading("bytes") /\ nleft > 0
  /\ \E nread \in 1 .. Min({nleft, Len(stream)}) :
       /\ usrbuf' = usrbuf \o UpTo(stream, nread)
       /\ stream' = From(stream, nread)
  /\ UNCHANGED <<fixed, left, closed, rio_buf, reads, outcome>>

ReadDone ==
  /\ Reading("bytes") /\ (nleft <= 0 \/ AtEof)
  /\ Return(usrbuf)
  /\ outcome' = "eof"
  /\ UNCHANGED <<fixed, left, stream, closed, rio_buf>>

(* A failed read ends the process: unix_error.                             *)
ReadFails ==
  /\ outcome = "live"
  /\ outcome' = "exit"
  /\ UNCHANGED <<fixed, left, stream, closed, rio_buf, usrbuf, reads>>

Ended == outcome # "live" /\ UNCHANGED vars

Next ==
  \/ Write \/ Close \/ Refill \/ TakeByte \/ LineEof \/ ReadBytes \/ ReadDone
  \/ ReadFails \/ Ended
Spec == Init /\ [][Next]_vars
-----------------------------------------------------------------------------
(* No byte is lost, repeated or moved, however the writes, the reads and   *)
(* the refills of the buffer cut the stream.                               *)
InOrder ==
  FlattenSeq(reads) \o usrbuf \o rio_buf \o stream \o left = input

(* The lines are those of what was sent: each up to its newline, or of     *)
(* MaxLen bytes, or the last before the end of file; rio_read returns its  *)
(* n bytes, or all there were.  Only a line of MaxLen bytes overruns.      *)
grow(ls, c) ==
  IF ls = <<>> \/ Last(Last(ls)) = NewLine \/ Len(Last(ls)) = MaxLen
  THEN Append(ls, <<c>>)
  ELSE Front(ls) \o <<Append(Last(ls), c)>>
Sent == UpTo(input, Len(input) - Len(left))
AsWritten ==
  /\ mode = "lines" => IsPrefix(reads, FoldLeft(grow, <<>>, Sent))
  /\ mode = "bytes" /\ reads # <<>> => reads = <<UpTo(Sent, Min({nbytes, Len(Sent)}))>>
  /\ outcome = "overrun" => Len(Last(reads)) = MaxLen
=============================================================================
