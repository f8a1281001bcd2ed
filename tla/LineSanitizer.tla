--------------------------- MODULE LineSanitizer ----------------------------
(***************************************************************************)
(* One call of a text sanitizer of sanitizer.cpp.  sanitize_maps,          *)
(* sanitize_tcp, sanitize_mounts, sanitize_net_dev, sanitize_if_inet6 and  *)
(* sanitize_route walk the buffer line by line and memmove the rest of it  *)
(* over a dirty line; they differ in how many header lines they skip and   *)
(* in what makes a line dirty.  sanitize_status overwrites the number of   *)
(* the tracing process byte by byte.  Positions count from 1.              *)
(***************************************************************************)
EXTENDS LineFilter

CONSTANT Inputs    \* the buffers a sanitizer is called with

ASSUME InputAssumption == Inputs \subseteq Seq(Byte) \ {<< >>}

Sanitizers == LineSanitizers \cup {"sanitize_status"}

VARIABLES
  f,           \* the sanitizer
  input,       \* history: the buffer it was called with
  buf,         \* the buffer
  buf_end,     \* the last byte of the buffer that still counts
  pos,         \* the first byte of the line to look at; sanitize_status: p
  line_num,    \* lines looked at; first is line_num = 0
  val_end,     \* sanitize_status: the byte after the number; 0 before it is found
  bytes_read,  \* the caller's byte count
  returned,
  src          \* history: where in the input each byte of the buffer is from

vars == <<f, input, buf, buf_end, pos, line_num, val_end, bytes_read, returned, src>>

Init ==
  /\ f \in Sanitizers
  /\ input \in Inputs
  /\ buf = input
  /\ buf_end = Len(input)
  /\ pos = 1
  /\ line_num = 0
  /\ val_end = 0
  /\ bytes_read = Len(input)
  /\ returned = FALSE
  /\ src = [i \in 1 .. Len(input) |-> i]

-----------------------------------------------------------------------------
(* Mutant of EndsAt: a last line without a newline has no end. *)
EndsAtNewline(e) == /\ e \in pos .. buf_end
                    /\ buf[e] = NL
                    /\ \A k \in pos .. e - 1 : buf[k] # NL

(* memchr(pos, '\n', buf_end - pos): the line at pos ends at e *)
EndsAt(e) == /\ e \in pos .. buf_end
             /\ buf[e] = NL \/ e = buf_end
             /\ \A k \in pos .. e - 1 : buf[k] # NL

IsHeader == line_num < HeaderLines[f]

(* Mutant of NextLine: one byte too far *)
NextLinePlusOne(e) ==
  /\ pos' = e + 2
  /\ UNCHANGED <<buf, buf_end, src>>

NextLine(e) ==
  /\ pos' = e + 1
  /\ UNCHANGED <<buf, buf_end, src>>

(* Mutant of Moved: the newline of the removed line stays. *)
MovedShort(a, e) == [i \in 1 .. Len(input) |->
                       IF pos <= i /\ i < pos + (buf_end - e) THEN a[i + (e - pos)] ELSE a[i]]

(* remove_line: the tail after e moves down to pos, and what is above it stays *)
Moved(a, e) == [i \in 1 .. Len(input) |->
                  IF pos <= i /\ i < pos + (buf_end - e) THEN a[i + (e + 1 - pos)] ELSE a[i]]

(* Mutant of remove_line: pos goes on as if the line had stayed. *)
remove_line_skip(e) ==
  /\ buf' = Moved(buf, e)
  /\ src' = Moved(src, e)
  /\ buf_end' = pos + (buf_end - e) - 1
  /\ pos' = e + 1

remove_line(e) ==
  /\ buf' = Moved(buf, e)
  /\ src' = Moved(src, e)
  /\ buf_end' = pos + (buf_end - e) - 1
  /\ UNCHANGED pos

(* One turn of the loop on the line that ends at e *)
SkipHeader(e) == IsHeader /\ NextLine(e)

KeepLine(e) == ~IsHeader /\ ~Dirty(f, Bytes(buf, pos, e)) /\ NextLine(e)

RemoveLine(e) == ~IsHeader /\ Dirty(f, Bytes(buf, pos, e)) /\ remove_line(e)

Turn ==
  /\ f \in LineSanitizers
  /\ pos <= buf_end
  /\ \E e \in pos .. buf_end :
       EndsAt(e) /\ (SkipHeader(e) \/ KeepLine(e) \/ RemoveLine(e))
  /\ line_num' = line_num + 1
  /\ UNCHANGED <<f, input, val_end, bytes_read, returned>>

(* The loop ends; the caller sees how much of its buffer counts. *)
Return ==
  /\ f \in LineSanitizers
  /\ pos > buf_end /\ ~returned
  /\ bytes_read' = buf_end
  /\ returned' = TRUE
  /\ UNCHANGED <<f, input, buf, buf_end, pos, line_num, val_end, src>>

-----------------------------------------------------------------------------
(* sanitize_status.  memmem finds the needle before byte v of s, which ends
   with byte last, and memchr the newline at e, or none. *)
Number(s, last, v, e) ==
  /\ FirstNeedle(s, v - 1)
  /\ e <= last => s[e] = NL
  /\ \A k \in v .. e - 1 : s[k] # NL

IsZero(v, e) == e - v = 1 /\ buf[v] = Zero

InStatus == f = "sanitize_status" /\ ~returned

(* No needle, nothing behind it, or a lone zero: the buffer stays. *)
LeaveStatus ==
  /\ InStatus /\ val_end = 0
  /\ \/ \A v \in 2 .. buf_end : ~FirstNeedle(buf, v - 1)
     \/ \E v \in 2 .. buf_end : \E e \in v .. buf_end + 1 :
          Number(buf, buf_end, v, e) /\ IsZero(v, e)
  /\ returned' = TRUE
  /\ UNCHANGED <<f, input, buf, buf_end, pos, line_num, val_end, bytes_read, src>>

(* Mutant of ZeroFirst: the loop starts a byte too late. *)
ZeroFirstSkip ==
  /\ InStatus /\ val_end = 0
  /\ \E v \in 2 .. buf_end : \E e \in v .. buf_end + 1 :
       /\ Number(buf, buf_end, v, e) /\ ~IsZero(v, e)
       /\ buf' = [buf EXCEPT ![v] = Zero]
       /\ pos' = v + 2 /\ val_end' = e
  /\ UNCHANGED <<f, input, buf_end, line_num, bytes_read, returned, src>>

(* val_start[0] = '0', the newline's place if there is no number *)
ZeroFirst ==
  /\ InStatus /\ val_end = 0
  /\ \E v \in 2 .. buf_end : \E e \in v .. buf_end + 1 :
       /\ Number(buf, buf_end, v, e) /\ ~IsZero(v, e)
       /\ buf' = [buf EXCEPT ![v] = Zero]
       /\ pos' = v + 1 /\ val_end' = e
  /\ UNCHANGED <<f, input, buf_end, line_num, bytes_read, returned, src>>

(* One turn of the loop: *p = ' ' *)
BlankNext ==
  /\ InStatus /\ val_end # 0 /\ pos < val_end
  /\ buf' = [buf EXCEPT ![pos] = Blank]
  /\ pos' = pos + 1
  /\ UNCHANGED <<f, input, buf_end, line_num, val_end, bytes_read, returned, src>>

ReturnStatus ==
  /\ InStatus /\ val_end # 0 /\ pos >= val_end
  /\ returned' = TRUE
  /\ UNCHANGED <<f, input, buf, buf_end, pos, line_num, val_end, bytes_read, src>>

Goes == Turn \/ ZeroFirst \/ BlankNext

Returns == Return \/ LeaveStatus \/ ReturnStatus

Next == Goes \/ Returns

Spec == Init /\ [][Next]_vars

-----------------------------------------------------------------------------
TypeOK ==
  /\ f \in Sanitizers
  /\ input \in Inputs
  /\ buf \in [1 .. Len(input) -> Byte]
  /\ buf_end \in 0 .. Len(input)
  /\ pos \in 1 .. buf_end + 1
  /\ line_num \in Nat
  /\ val_end \in 0 .. Len(input) + 1
  /\ bytes_read \in 0 .. Len(input)
  /\ returned \in BOOLEAN
  /\ src \in [1 .. Len(input) -> 1 .. Len(input)]

(* When a line sanitizer returns, the bytes that count are exactly the kept
   bytes of the input, each once and in order: no clean line is lost, torn or
   moved before another by the overlapping moves, and no dirty line survives
   beside a removed one. *)
ReturnsKeptBytes ==
  returned /\ f \in LineSanitizers =>
    /\ \A i \in 1 .. bytes_read : buf[i] = input[src[i]]
    /\ \A i, j \in 1 .. bytes_read : i < j => src[i] < src[j]
    /\ {src[i] : i \in 1 .. bytes_read} = KeptBytes(f, input)

(* sanitizer.cpp line 5, "Buffer only shrinks, never grows", and during a call
   what lies before pos is never written again. *)
OnlyShrinks ==
  [][returned \/ /\ buf_end' <= buf_end /\ bytes_read' <= bytes_read
                 /\ \A i \in 1 .. pos - 1 : buf'[i] = buf[i]]_vars
=============================================================================
