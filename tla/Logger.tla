-------------------------------- MODULE Logger --------------------------------
(***************************************************************************)
(* One line of src/logger.c: a prefix and a message formatted into a small *)
(* buffer, closed with a newline and handed to a callback, a file or a     *)
(* put function.  A write past the buffer extends it here.                 *)
(***************************************************************************)
EXTENDS Integers, SequencesExt, FiniteSetsExt

CONSTANTS LineMax,    \* LOG_BUF_LEN
          NameMax,    \* LOGGER_NAME_MAXLEN
          MaxText     \* bounds the length of names, prefixes and messages

ASSUME LogAssumption == LineMax \in Nat \ {0, 1} /\ NameMax \in Nat \ {0, 1} /\ MaxText \in Nat

Levels == 0..1      \* two of them; a larger one is less important
Sinks == {"file", "puts", "cb"}

VARIABLES ctx,      \* the logger
          line,     \* the last line: where it went, its text, the buffer, the result
          said      \* what its caller asked for

logVars == <<ctx, line, said>>

Buffer == [i \in 0..(LineMax + 1) |-> "0"]
NoLine == [to |-> "none", text |-> <<>>, buf |-> Buffer, ret |-> 0]

\* default_logger
LogInit ==
  /\ ctx = [sinks |-> {"puts"}, level |-> 1, name |-> 1]
  /\ line = NoLine /\ said = <<>>

\* snprintf
Printed(buf, at, room, text) ==
  LET n == Min({Len(text), room - 1})
  IN IF room <= 0 THEN buf
     ELSE [i \in DOMAIN buf \cup at..(at + n) |->
             IF i \notin at..(at + n) THEN buf[i] ELSE IF i = at + n THEN "0" ELSE text[i - at + 1]]

\* A newline and a NUL stored after the last character.
WithNewline(buf, end) ==
  [i \in DOMAIN buf \cup {end, end + 1} |->
     IF i = end THEN "n" ELSE IF i = end + 1 THEN "0" ELSE buf[i]]

\* A termination that does not look for the newline of the message.
TerminateAnyway(buf, len) ==
  LET end == Max({0} \cup {i \in 0..(len - 1) : buf[i] # "0"}) + 1
  IN [buf |-> WithNewline(buf, end), len |-> end + 1]

\* terminate_log_line: where its search for the last character ends, and what it adds.
Terminate(buf, len) ==
  LET k == Max({0} \cup {i \in 0..(len - 1) : buf[i] # "0"})
      end == IF buf[k] = "n" THEN k ELSE k + 1
  IN [buf |-> WithNewline(buf, end), len |-> end + 1]

Text(buf) == LET end == Min({i \in DOMAIN buf : buf[i] = "0"}) IN [i \in 1..end |-> buf[i - 1]]

\* Who gets a line.
To == IF "cb" \in ctx.sinks THEN "cb" ELSE IF "file" \in ctx.sinks THEN "file" ELSE "puts"

Emit(buf, len) ==
  LET t == Terminate(buf, IF len > LineMax THEN LineMax ELSE len)
  IN line' = [to |-> To, text |-> Text(t.buf), buf |-> t.buf, ret |-> t.len]

\* A callback gets every message, of any level, without the prefix.
Log(level, rest, msg) ==
  LET prefix == IF To = "cb" THEN <<>> ELSE [i \in 1..(ctx.name + rest) |-> "p"]
      at == Len(prefix)
      buf == IF To = "cb" THEN Buffer ELSE Printed(Buffer, 0, LineMax, prefix)
  IN /\ ctx.sinks # {}
     /\ To = "cb" \/ level <= ctx.level
     /\ IF at > LineMax THEN Emit(buf, at)
                        ELSE Emit(Printed(buf, at, LineMax - at, msg), at + Len(msg))
     /\ said' = prefix \o msg
     /\ UNCHANGED ctx

Messages == {[i \in 1..n |-> IF i = n /\ nl THEN "n" ELSE "m"] : n \in 0..MaxText, nl \in BOOLEAN}

\* logger_set_name
NameLen(n) == Min({n, NameMax - 1})

\* logger_init, when it is given a sink.
Configure(sinks, level, n) ==
  /\ sinks # {}
  /\ ctx' = [sinks |-> sinks, level |-> level, name |-> NameLen(n)]
  /\ UNCHANGED <<line, said>>

SetName(n) == ctx' = [ctx EXCEPT !.name = NameLen(n)] /\ UNCHANGED <<line, said>>
SetLevel(level) == ctx' = [ctx EXCEPT !.level = level] /\ UNCHANGED <<line, said>>

\* logger_set_file and logger_set_put_fn, with NULL or not: nothing keeps the last sink.
SetSink(s, given) ==
  /\ s \in {"file", "puts"}
  /\ ctx' = [ctx EXCEPT !.sinks = IF given THEN @ \cup {s} ELSE @ \ {s}]
  /\ UNCHANGED <<line, said>>

LogNext ==
  \/ \E level \in Levels, n \in 0..MaxText :
       SetLevel(level) \/ SetName(n) \/ \E sinks \in SUBSET Sinks : Configure(sinks, level, n)
  \/ \E s \in Sinks, given \in BOOLEAN : SetSink(s, given)
  \/ \E level \in Levels, rest \in 1..MaxText, msg \in Messages : Log(level, rest, msg)

LogSpec == LogInit /\ [][LogNext]_logVars
-----------------------------------------------------------------------------
\* The logger has a name that fits, and no line was written beyond the buffer.
LogTypeOK ==
  /\ ctx.sinks \subseteq Sinks /\ ctx.level \in Levels /\ ctx.name \in 0..(NameMax - 1)
  /\ DOMAIN line.buf = 0..(LineMax + 1)

\* A line is as much of prefix and message as fits before a newline, and one newline,
\* whether or not the message brought one, was cut, or left no room; the result is its
\* length.  An empty message to a callback is the exception: it stays empty.
LineComplete ==
  (line.to # "none" /\ said # <<>>) =>
    LET fits == SubSeq(said, 1, Min({Len(said), LineMax - 1}))
    IN /\ line.text = IF Last(fits) = "n" THEN fits ELSE Append(fits, "n")
       /\ line.ret = Len(line.text)
=============================================================================
