-------------------------------- MODULE StrLib --------------------------------
(***************************************************************************)
(* The counted strings of src/strlib.c: a buffer of max+1 bytes of which   *)
(* len are in use.  Bytes are "x" when copied, "y" when printed, NUL, or   *)
(* "?" in memory nobody wrote.  A write past the buffer extends it here,   *)
(* so that no bound is taken for granted.  `text' is what the calls should *)
(* have left in a string, Lost after a printf that overwrote the text and  *)
(* failed; `ended' whether a NUL should follow it.                         *)
(***************************************************************************)
EXTENDS Integers, SequencesExt, FiniteSetsExt

CONSTANTS Strings,
          MaxLen, MaxTotal    \* bounds: the lengths callers pass, and that merges add up to

ASSUME TextAssumption == MaxLen \in Nat /\ MaxTotal \in Nat

NUL == "0"
Lost == <<"lost">>

VARIABLES str, text, ended

strVars == <<str, text, ended>>

Dead == [alloc |-> FALSE, buf |-> <<>>, len |-> 0, max |-> 0]
Live(s) == str[s].buf # <<>>

Bytes(b, n) == [i \in 1..n |-> b]

\* Store a sequence of bytes from offset `at' on.
Write(buf, at, bytes) ==
  [i \in DOMAIN buf \cup at..(at + Len(bytes) - 1) |->
     IF i \in at..(at + Len(bytes) - 1) THEN bytes[i - at + 1] ELSE buf[i]]

Used(r) == [i \in 1..r.len |-> r.buf[i - 1]]

Set(s, r, t, e) ==
  str' = [str EXCEPT ![s] = r] /\ text' = [text EXCEPT ![s] = t] /\ ended' = [ended EXCEPT ![s] = e]

StrInit ==
  /\ str = [s \in Strings |-> Dead]
  /\ text = [s \in Strings |-> <<>>]
  /\ ended = [s \in Strings |-> FALSE]

\* STRING_DEF
Define(s, n) ==
  /\ ~Live(s)
  /\ Set(s, [alloc |-> FALSE, buf |-> [i \in 0..n |-> NUL], len |-> 0, max |-> n], <<>>, TRUE)

\* A string created from no buffer keeps the bytes that malloc gave.
Create(s, from, len) ==
  LET raw == [i \in 0..len |-> "?"]
  IN /\ ~Live(s)
     /\ Set(s, [alloc |-> TRUE, buf |-> Write(Write(raw, 0, from), len, <<NUL>>),
                len |-> Len(from), max |-> len],
            from, from # <<>> \/ len = 0)

Clone(dest, src) ==
  Live(src) /\ Create(dest, Used(str[src]), str[src].len)

Resized(r, n) ==
  [r EXCEPT !.max = n, !.len = IF @ > n THEN n ELSE @,
            !.buf = [i \in 0..n |-> IF i = n THEN NUL ELSE IF i <= r.max THEN r.buf[i] ELSE "?"]]

Cut(t, n) == IF t = Lost \/ Len(t) <= n THEN t ELSE SubSeq(t, 1, n)

\* A static string is left alone: the answer is -1.
Resize(s, n) ==
  /\ str[s].alloc
  /\ Set(s, Resized(str[s], n), Cut(text[s], n), ended[s] \/ n <= str[s].len)

Destroy(s) == Live(s) /\ Set(s, Dead, <<>>, FALSE)

\* vsnprintf is given max - start bytes, the last of them for its NUL, although the
\* buffer has one more.
Printf(s, append, n) ==
  LET r == str[s]
      start == IF append THEN r.len ELSE 0
      room == r.max - start
      out == IF room = 0 THEN <<>> ELSE Bytes("y", Min({n, room - 1})) \o <<NUL>>
      buf == Write(r.buf, start, out)
      kept == IF append THEN text[s] ELSE <<>>
  IN /\ Live(s)
     /\ \/ /\ start + n >= r.max
           /\ Set(s, [r EXCEPT !.buf = buf], IF append \/ room = 0 THEN text[s] ELSE Lost, FALSE)
        \/ /\ start + n < r.max
           /\ Set(s, [r EXCEPT !.len = start + n, !.buf = Write(buf, start + n, <<NUL>>)],
                  IF kept = Lost THEN Lost ELSE kept \o Bytes("y", n), TRUE)

\* A copy that overwrites where it should append.
CopiedOver(r, append, bytes) ==
  LET n == Min({Len(bytes), r.max})
  IN [r EXCEPT !.buf = Write(Write(@, 0, SubSeq(bytes, 1, n)), n, <<NUL>>), !.len = n]

\* string_copy on a string it fits in, or whose mode says to fill it.
Copied(r, append, bytes) ==
  LET start == IF append THEN r.len ELSE 0
      n == Min({Len(bytes), r.max - start})
  IN [r EXCEPT !.buf = Write(Write(@, start, SubSeq(bytes, 1, n)), start + n, <<NUL>>),
               !.len = start + n]

After(t, append, bytes, max) ==
  IF append /\ t = Lost THEN Lost ELSE Cut((IF append THEN t ELSE <<>>) \o bytes, max)

\* The answer is -1, and nothing changes, when it fits not and the mode is not to fill.
Copy(s, append, fill, n) ==
  /\ Live(s)
  /\ fill \/ (IF append THEN str[s].len ELSE 0) + n <= str[s].max
  /\ Set(s, Copied(str[s], append, Bytes("x", n)),
         After(text[s], append, Bytes("x", n), str[s].max), TRUE)

\* A static primary without room is left alone, and the secondary too.
Merge(s, t) ==
  LET target == str[s].len + str[t].len
      wide == IF target > str[s].max THEN Resized(str[s], target) ELSE str[s]
  IN /\ s # t /\ Live(s) /\ Live(t)
     /\ target <= MaxTotal
     /\ target > str[s].max => str[s].alloc
     /\ str' = [str EXCEPT ![s] = Copied(wide, TRUE, Used(str[t])), ![t] = Dead]
     /\ text' = [text EXCEPT ![s] = IF text[t] = Lost THEN Lost
                                     ELSE After(@, TRUE, text[t], target),
                             ![t] = <<>>]
     /\ ended' = [ended EXCEPT ![s] = TRUE, ![t] = FALSE]

\* str_flush
StrFlush(s) ==
  /\ Live(s)
  /\ Set(s, [str[s] EXCEPT !.buf = Write(@, 0, <<NUL>>), !.len = 0], <<>>, TRUE)

StrNext ==
  \/ \E s \in Strings : Destroy(s) \/ StrFlush(s) \/ \E t \in Strings : Clone(s, t) \/ Merge(s, t)
  \/ \E s \in Strings, n \in 0..MaxLen :
       \/ Define(s, n) \/ Create(s, Bytes("x", n), n) \/ Create(s, <<>>, n) \/ Resize(s, n)
       \/ \E append \in BOOLEAN : Printf(s, append, n) \/ \E fill \in BOOLEAN : Copy(s, append, fill, n)

StrSpec == StrInit /\ [][StrNext]_strVars
-----------------------------------------------------------------------------
\* Strings are strings, and a live one has its max+1 bytes: no call wrote beyond.
StrTypeOK ==
  \A s \in Strings :
    /\ str[s].alloc \in BOOLEAN /\ str[s].max \in Nat /\ str[s].len \in 0..str[s].max
    /\ Live(s) => DOMAIN str[s].buf = 0..str[s].max

\* The last byte of the buffer is a NUL, and the byte after the text unless the string was
\* created from no buffer or a printf failed.
Terminated(s) ==
  str[s].buf[str[s].max] = NUL /\ (ended[s] => str[s].buf[str[s].len] = NUL)

\* Through failures, truncation, resizing and merging a string keeps exactly the text
\* the successful calls gave it, and "there is always a terminating null" (strlib.c:25).
TextKept ==
  \A s \in Strings :
    /\ text[s] # Lost => Used(str[s]) = text[s]
    /\ Live(s) => Terminated(s)
=============================================================================
