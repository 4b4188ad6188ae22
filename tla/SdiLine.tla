------------------------------ MODULE SdiLine -------------------------------
(***************************************************************************)
(* sdi_recv_line() (ulp/sdi.c): the answer of a sensor is read byte by     *)
(* byte until CR LF, until the buffer is full, or until the line has been  *)
(* quiet for too long.  A received byte starts the idle time afresh, a     *)
(* false start does not; what is left of it bounds both the wait for a     *)
(* start bit and, counted again from there, the byte itself.  All of this  *)
(* is unsigned arithmetic of TimeWord values.                              *)
(***************************************************************************)
EXTENDS Integers, Sequences

CONSTANTS
  RxBufLen,  \* SDI_RX_BUF_LEN
  Timeout,   \* g_response_timeout_cycles
  ByteTime,  \* ten bits
  Blip,      \* a quarter of a bit: when a start bit is looked at again
  TimeWord   \* 2 ^ 32

ASSUME LineAssumption ==
  /\ RxBufLen \in Nat /\ RxBufLen >= 2
  /\ Timeout \in Nat /\ ByteTime \in Nat /\ Blip \in Nat /\ TimeWord \in Nat
  /\ 0 < Blip /\ Blip < ByteTime /\ ByteTime < Timeout /\ 2 * Timeout < TimeWord

\* A byte is a letter, a space, or one of the two that end a line.
Chars == {"x", "sp", "cr", "lf"}

VARIABLES
  done,      \* the call has returned
  buf,       \* the bytes read, in the end without the blanks after them
  waited,    \* time since idle_start
  spent,     \* time since the call
  heard      \* the bytes the sensor has sent, and in full

line_vars == <<done, buf, waited, spent, heard>>

LineTypeOK ==
  /\ done \in BOOLEAN
  /\ buf \in Seq(Chars) /\ Len(buf) < RxBufLen
  /\ waited \in Nat /\ spent \in Nat
  /\ heard \in Seq(Chars)

LineInit == done = FALSE /\ buf = <<>> /\ waited = 0 /\ spent = 0 /\ heard = <<>>

Blank(ch) == ch # "x"

\* The bytes up to and including the last that is not blank.  Mutant: all.
Trimmed_Not(s) == s
Trimmed(s) ==
  LET n == CHOOSE k \in 0 .. Len(s) :
             /\ k > 0 => ~Blank(s[k])
             /\ \A i \in k + 1 .. Len(s) : Blank(s[i])
  IN SubSeq(s, 1, n)

EndsLine(s) == Len(s) >= 2 /\ s[Len(s) - 1] = "cr" /\ s[Len(s)] = "lf"

\* The loop ends with what it has; the blanks are cut off.
Finish(bytes) == done' = TRUE /\ buf' = Trimmed(bytes)

\* What sdi_recv_byte() may take.  Mutant: it may take the whole time anew.
Allowed_Afresh == Timeout
Allowed == (Timeout - waited) % TimeWord

\* The time is up before the call.
Expired == waited > Timeout

\* The line stays high for longer than is allowed.
Quiet ==
  /\ ~done /\ ~Expired
  /\ Finish(buf)
  /\ spent' = spent + Allowed
  /\ UNCHANGED <<waited, heard>>

Expires == ~done /\ Expired /\ Finish(buf) /\ UNCHANGED <<waited, spent, heard>>

\* The line falls after w, and is high again when it is looked at: a false start.
FalseStart ==
  /\ ~done /\ ~Expired
  /\ \E w \in 0 .. Allowed :
       IF Blip > Allowed
       THEN Finish(buf) /\ spent' = spent + w + Allowed /\ UNCHANGED waited
       ELSE /\ waited' = waited + w + Blip
            /\ spent' = spent + w + Blip
            /\ UNCHANGED <<done, buf>>
  /\ UNCHANGED heard

\* The line falls after w, with a byte.
Enough(bytes) == EndsLine(bytes) \/ Len(bytes) >= RxBufLen - 1

Byte ==
  /\ ~done /\ ~Expired
  /\ \E w \in 0 .. Allowed, ch \in Chars :
       /\ heard' = Append(heard, ch)
       /\ IF ByteTime > Allowed
          THEN Finish(buf) /\ spent' = spent + w + Allowed /\ UNCHANGED waited
          ELSE /\ waited' = 0
               /\ spent' = spent + w + ByteTime
               /\ IF Enough(Append(buf, ch)) THEN Finish(Append(buf, ch))
                  ELSE buf' = Append(buf, ch) /\ UNCHANGED done

LineNext == Quiet \/ Expires \/ FalseStart \/ Byte
LineSpec == LineInit /\ [][LineNext]_line_vars

-----------------------------------------------------------------------------
(* Properties.                                                             *)

\* Noise cannot hold the ULP up: a call takes at most a timeout and a byte for
\* each byte it reads, and one timeout more, and a full buffer ends it
\* (sdi.c:244).
BoundedReceive ==
  /\ Len(heard) < RxBufLen
  /\ spent <= Len(heard) * (Timeout + ByteTime) + Timeout + Blip

\* What is returned is what was sent, without the blanks after it.  A byte sent
\* in full is missing only if less than a byte was left of the time when its
\* start bit was awaited, and it is the last one then (sdi.c:97).
LineIsHeard ==
  done =>
    /\ buf = SubSeq(heard, 1, Len(buf))
    /\ buf # <<>> => ~Blank(buf[Len(buf)])
    /\ \A i \in Len(buf) + 1 .. Len(heard) :
         Blank(heard[i]) \/ (i = Len(heard) /\ waited + ByteTime > Timeout)

\* Nothing that follows the end of a line gets into it.
OneLine == \A i \in 2 .. Len(buf) : ~EndsLine(SubSeq(buf, 1, i))

\* A call returns one line as it was sent (sdi.c:231).
LineIsRead == LineIsHeard /\ OneLine
=============================================================================
