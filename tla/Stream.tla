------------------------------- MODULE Stream -------------------------------
(***************************************************************************)
(* The two byte streams of one client connection and the framing both ends *)
(* share (the top of task_msg.cpp).  A message is sent as an 8 byte header *)
(* (reqId, len) and len bytes of JSON.  A piece stands for the header or   *)
(* for a part of the JSON: message m is len = m.len body pieces after one  *)
(* header piece.  A byte of a piece that is not there yet is the same to   *)
(* getAvailablePackage as the whole piece not being there.                 *)
(*                                                                         *)
(* The socket itself is external: writes append, a read takes what has     *)
(* arrived so far, up to the 1024 bytes of the reader's buffer.            *)
(***************************************************************************)
EXTENDS Integers, Sequences

CONSTANTS
  ReadMax,     \* pieces one read returns at most (1024 bytes)
  Capacity     \* pieces a ring buffer holds (SOCKET_BUF_SIZE)

ASSUME StreamAssumption == ReadMax \in Nat \ {0} /\ Capacity \in Nat \ {0}

VARIABLES
  toServer, toClient,        \* written and not yet read
  clientOpen, serverOpen     \* is this end of the connection still there

streamVars == <<toServer, toClient, clientOpen, serverOpen>>

StreamInit ==
  /\ toServer = <<>> /\ toClient = <<>>
  /\ clientOpen = TRUE /\ serverOpen = TRUE

Frame(m) == [k \in 1..(m.len + 1) |-> [msg |-> m, part |-> k - 1]]

\* getAvailablePackage finds a whole frame at the front of the ring buffer: a
\* header and as many pieces as it announces.
Available_NoHead(rb) == rb # <<>> /\ Head(rb).part = 0 /\ Len(rb) >= Head(rb).msg.len
Available(rb)        == rb # <<>> /\ Head(rb).part = 0 /\ Len(rb) >= Head(rb).msg.len + 1

\* The message taken, and what stays in the ring buffer.  procData takes one
\* message per read, however many are there.
Package(rb) == Head(rb).msg
Rest(rb)    == SubSeq(rb, Head(rb).msg.len + 2, Len(rb))

\* What the text of the message taken is made of: the message itself, unless pieces
\* between its header and its end were never put into the ring buffer.
Contents(rb) == {rb[k].msg : k \in 2..(Head(rb).msg.len + 1)}

\* What getAvailablePackage can leave of a ring buffer that does not begin with a
\* header: it reads a length from text, mostly a huge one, and then nothing is
\* available; else it takes some pieces, which are no JSON.
Skipped(rb) ==
  IF rb = <<>> \/ Head(rb).part = 0 THEN {}
  ELSE {SubSeq(rb, k + 1, Len(rb)) : k \in DOMAIN rb}

\* The sizes a read of stream s can return.
ReadSizes(s) == {n \in 1..Len(s) : n <= ReadMax}
Read(s, n)   == SubSeq(s, 1, n)
Unread(s, n) == SubSeq(s, n + 1, Len(s))

\* ring_buf_write_data takes all of a chunk or nothing.
Fits_Always(rb, chunk) == TRUE
Fits(rb, chunk)        == Len(rb) + Len(chunk) <= Capacity
=============================================================================
