------------------------------ MODULE StrUtils ------------------------------
(***************************************************************************)
(* The in-place functions of src/strutils.c on one string: calls that edit *)
(* it, and then calls of str_sep that cut it into tokens.  `word' is the   *)
(* string without its NUL, `memory' what str_sep cuts, NULs included.      *)
(* Characters are "x", "y", the space, the separator "," and "n", which    *)
(* stands for a newline or a carriage return.                              *)
(***************************************************************************)
EXTENDS Integers, SequencesExt, FiniteSetsExt

CONSTANTS Chars, MaxChars    \* MaxChars bounds the strings

VARIABLES word,
          edit,     \* the last call that edited: what it got, its result
          memory, cur,    \* str_sep: the memory, and *str as an index into it
          tokens,   \* what it has returned
          byte      \* the byte that atohstr and hstrtoa convert

wordVars == <<word, edit, memory, cur, tokens, byte>>

Words == UNION {[1..n -> Chars] : n \in 0..MaxChars}
Sep == {",", " "}
NoEdit == [op |-> "none", was |-> <<>>, ret |-> 0]
Ending == "0"    \* the NUL

\* A call of remove_all is named by its character.
ASSUME WordAssumption ==
  /\ MaxChars \in Nat /\ Ending \notin Chars
  /\ Chars \cap {"none", "rstrip", "lstrip", "strip", "chomp", "suffix"} = {}

WordInit ==
  /\ word \in Words /\ edit = NoEdit
  /\ memory = <<>> /\ cur = 0 /\ tokens = <<>> /\ byte = 0

\* How much of a string `while (i > 0 && bad(str[i - 1])) i--' leaves.
Upto(s, bad) == Max({0} \cup {i \in DOMAIN s : s[i] \notin bad})

RStrip(s) == SubSeq(s, 1, Upto(s, {" "}))

\* The index of the first character of s from p on that is not in set, or the NUL's.
SkipOver(s, p, set) == Min({i \in p..Len(s) : s[i] \notin set} \cup {Len(s) + 1})

LStrip(s) == SubSeq(s, SkipOver(s, 1, {" "}), Len(s))

\* The result of lstrip is the index of the last character, not the length.
LStripResult(s) ==
  CASE SkipOver(s, 1, {" "}) = 1 -> -1
    [] LStrip(s) = <<>> -> 0
    [] OTHER -> Len(LStrip(s)) - 1

StripResult(s) ==
  LET left == LStripResult(RStrip(s)) IN IF left > 0 THEN left ELSE Len(RStrip(s))

Chomp(s) == SubSeq(s, 1, Upto(s, {"n"}))

\* A chomp that takes one character at most.
ChompOne(s) == IF s # <<>> /\ Last(s) = "n" THEN Front(s) ELSE s

\* remove_all: i reads and j writes, in the same string; what is there after i passes.
Squeezed(s, c) ==
  LET at[i \in 0..Len(s)] ==
        IF i = 0 THEN [str |-> s, j |-> 1]
        ELSE LET st == at[i - 1]
             IN IF st.str[i] = c THEN st
                ELSE [str |-> [st.str EXCEPT ![st.j] = st.str[i]], j |-> st.j + 1]
  IN at

RemoveAll(s, c) == LET end == Squeezed(s, c)[Len(s)] IN SubSeq(end.str, 1, end.j - 1)

\* trim_suffix takes as much of the suffix as is there, from its end.
TrimSuffix(s, suffix) ==
  LET same(k) == \A i \in 0..(k - 1) : s[Len(s) - i] = suffix[Len(suffix) - i]
      k == Max({n \in 0..Len(suffix) : same(n)})
  IN SubSeq(s, 1, Len(s) - k)

Edit(op, new, ret) ==
  /\ memory = <<>>
  /\ word' = new /\ edit' = [op |-> op, was |-> word, ret |-> ret]
  /\ UNCHANGED <<memory, cur, tokens, byte>>

\* A suffix longer than the string is refused, which changes nothing.
EditString ==
  \/ Edit("rstrip", RStrip(word), Len(RStrip(word)))
  \/ Edit("lstrip", LStrip(word), LStripResult(word))
  \/ Edit("strip", LStrip(RStrip(word)), StripResult(word))
  \/ Edit("chomp", Chomp(word), Len(Chomp(word)))
  \/ \E c \in Chars : Edit(c, RemoveAll(word, c), 0)
  \/ \E suffix \in {<<"x">>, <<"x", "y">>} :
       Len(suffix) <= Len(word) /\ Edit("suffix", TrimSuffix(word, suffix), 0)

BeginTokens ==
  /\ memory = <<>>
  /\ memory' = Append(word, Ending) /\ cur' = 1
  /\ UNCHANGED <<word, edit, tokens, byte>>

StringAt(b, p) == SubSeq(b, p, Min({i \in p..Len(b) : b[i] = Ending}) - 1)

\* The caller stops at the first empty string; from the end str_sep returns it for ever.
Exhausted == tokens # <<>> /\ tokens[Len(tokens)] = <<>>

\* A str_sep that leaves the pointer at the NUL it wrote.
StrSepStays ==
  LET stop == Min({i \in cur..Len(memory) : memory[i] = Ending})
      start == SkipOver(SubSeq(memory, 1, stop - 1), cur, Sep)
      end == Min({i \in start..stop : memory[i] \in Sep \cup {Ending}})
  IN /\ memory # <<>> /\ ~Exhausted
     /\ tokens' = Append(tokens, SubSeq(memory, start, end - 1))
     /\ memory' = [memory EXCEPT ![end] = Ending] /\ cur' = end
     /\ UNCHANGED <<word, edit, byte>>

\* str_sep: *str is moved beyond the token and the separator that ends it.
StrSep ==
  LET stop == Min({i \in cur..Len(memory) : memory[i] = Ending})
      start == SkipOver(SubSeq(memory, 1, stop - 1), cur, Sep)
      end == Min({i \in start..stop : memory[i] \in Sep \cup {Ending}})
  IN /\ memory # <<>> /\ ~Exhausted
     /\ IF memory[cur] = Ending
        THEN tokens' = Append(tokens, <<>>) /\ UNCHANGED <<memory, cur>>
        ELSE /\ memory' = [memory EXCEPT ![end] = Ending]
             /\ cur' = IF end = stop THEN end ELSE end + 1
             /\ tokens' = Append(tokens, StringAt(memory', start))
     /\ UNCHANGED <<word, edit, byte>>

\* The two loops of str_sep_count: the tokens from p on.
CountFrom(s) ==
  LET from[p \in 1..(Len(s) + 1)] ==
        LET start == SkipOver(s, p, Sep)
        IN IF start > Len(s) THEN 0 ELSE 1 + from[SkipOver(s, start, Chars \ Sep)]
  IN from

StrSepCount(s) == CountFrom(s)[1]

\* ASCII codes
Int2Hex(v) == LET n == v % 16 IN IF n <= 9 THEN 48 + n ELSE 65 + (n - 10)

Hex2Int(ch) ==
  LET upper == IF (ch \div 32) % 2 = 1 THEN ch - 32 ELSE ch
  IN CASE ch \in 48..57 -> ch - 48
       [] ch \notin 48..57 /\ upper \in 65..70 -> upper - 65 + 10
       [] OTHER -> -1

\* hstrtoa of the two digits of a byte, or -1.
FromHex(high, low) ==
  IF Hex2Int(high) = -1 \/ Hex2Int(low) = -1 THEN -1 ELSE 16 * Hex2Int(high) + Hex2Int(low)

NextByte ==
  /\ word = <<>> /\ edit = NoEdit /\ memory = <<>> /\ byte < 255
  /\ byte' = byte + 1
  /\ UNCHANGED <<word, edit, memory, cur, tokens>>

WordNext == EditString \/ BeginTokens \/ StrSep \/ NextByte

WordSpec == WordInit /\ [][WordNext]_wordVars
-----------------------------------------------------------------------------
\* The variables have their types, and str_sep never leaves the string.
WordTypeOK ==
  /\ word \in Words /\ byte \in 0..255
  /\ memory # <<>> =>
       Len(memory) = Len(word) + 1 /\ cur \in 1..Len(memory) /\ memory[Len(memory)] = Ending

\* f gives the members of S in their order.
Ordered(f, S) == Range(f) = S /\ \A m, n \in DOMAIN f : m < n => f[m] < f[n]

\* The edits leave what their descriptions say, and a byte that was written in hexadecimal
\* reads back as itself, in lower case too.
EditsAgree ==
  LET was == edit.was
      mid(n, set) == \A i \in 1..n : was[i] \in set
      cut(n) == SubSeq(was, n + 1, n + Len(word))
      lead == Len(was) - Len(word)
      lower(ch) == IF ch >= 65 THEN ch + 32 ELSE ch
      high == Int2Hex(byte \div 16)
      low == Int2Hex(byte)
  IN /\ edit.op \in {"rstrip", "strip"} => word = <<>> \/ Last(word) # " "
     /\ edit.op \in {"lstrip", "strip"} => word = <<>> \/ word[1] # " "
     /\ edit.op = "lstrip" => word = cut(lead) /\ mid(lead, {" "})
     /\ edit.op \in {"rstrip", "chomp", "suffix"} => word = cut(0)
     /\ edit.op = "strip" => \E n \in 0..lead : word = cut(n) /\ mid(n, {" "})
     /\ edit.op = "chomp" => word = <<>> \/ Last(word) # "n"
     /\ edit.op \in Chars =>
          \E f \in [DOMAIN word -> DOMAIN was] :
            /\ Ordered(f, {i \in DOMAIN was : was[i] # edit.op})
            /\ \A n \in DOMAIN word : word[n] = was[f[n]]
     /\ edit.op \in {"rstrip", "chomp"} => edit.ret = Len(word)
     /\ FromHex(high, low) = byte /\ FromHex(lower(high), lower(low)) = byte

\* What strtok takes for the tokens of s: its longest runs without a separator.
Starts(s) == {i \in DOMAIN s : s[i] \notin Sep /\ (i = 1 \/ s[i - 1] \in Sep)}
TokenAt(s, i) == SubSeq(s, i, SkipOver(s, i, Chars \ Sep) - 1)

\* The tokens of s that begin at the places in S, in their order.
TokensFrom(ts, s, S) ==
  \E f \in [DOMAIN ts -> DOMAIN s] : Ordered(f, S) /\ \A n \in DOMAIN ts : ts[n] = TokenAt(s, f[n])

\* The calls of str_sep return the tokens that split_string (strtok) would give, in their
\* order, each when *str moves beyond its begin, and in the end all of them; str_sep_count
\* counts them: "A token is as it is defined (and returned) by tokenizing method such as
\* strtok() or strsep()" (strutils.h:146).
TokensAgree ==
  /\ TokensFrom(IF Exhausted THEN Front(tokens) ELSE tokens, word, {i \in Starts(word) : i < cur})
  /\ Exhausted => \A i \in Starts(word) : i < cur
  /\ StrSepCount(word) = Cardinality(Starts(word))

\* Both.
StringsAgree == EditsAgree /\ TokensAgree
=============================================================================
