---------------------------- MODULE UtilityProofs ----------------------------
(***************************************************************************)
(* Theorems about strlib.c and logger.c, for any strings and lengths, and  *)
(* any size of a line and of a name: no call writes beyond a buffer, and   *)
(* what is kept of a text is what fits.  And about file.c, for any tree of *)
(* files and any changes to it: a walk lists what stays, once.  And about  *)
(* strutils.c, for any string: its edits, and str_sep and str_sep_count.   *)
(***************************************************************************)
EXTENDS StrLib, StrUtils, Logger, Files, PointersProofs

-----------------------------------------------------------------------------
(* strlib.c: the text of a string survives every call that may fail, and no call writes
   beyond the buffer. *)

Byte == {"x", "y", "?", NUL}

\* A buffer of max+1 bytes that ends with a NUL.
Holds(buf, max) == buf \in [0..max -> Byte] /\ buf[max] = NUL

\* The memory of a string, given by its fields.
Mem(a, b, l, m) == [alloc |-> a, buf |-> b, len |-> l, max |-> m]

\* Memory of max+1 bytes holds the text t, which a NUL follows if it has to.
Keeps(r, t, e) ==
  /\ r = Mem(r.alloc, r.buf, r.len, r.max)
  /\ r.alloc \in BOOLEAN /\ r.max \in Nat /\ r.len \in 0..r.max
  /\ Holds(r.buf, r.max)
  /\ t = Lost \/ (t \in Seq(Byte) /\ Len(t) = r.len /\ \A i \in 1..r.len : r.buf[i - 1] = t[i])
  /\ e => r.buf[r.len] = NUL

StrInv ==
  /\ DOMAIN str = Strings /\ DOMAIN text = Strings /\ DOMAIN ended = Strings
  /\ \A s \in Strings : (str[s] = Dead /\ text[s] = <<>>) \/ Keeps(str[s], text[s], ended[s])

\* A buffer and a length stored together.
WithText(r, b, l) == [r EXCEPT !.buf = b, !.len = l]

\* What the fields are, and what it takes to store two or three of them.
LEMMA Memory ==
  ASSUME NEW a, NEW b, NEW l, NEW m, NEW r, r = Mem(a, b, l, m)
  PROVE  r.alloc = a /\ r.buf = b /\ r.len = l /\ r.max = m
BY DEF Mem

\* The stores of a printf and of a copy.
LEMMA FieldsStored ==
  ASSUME NEW r, r = Mem(r.alloc, r.buf, r.len, r.max), NEW b, NEW l
  PROVE  /\ [r EXCEPT !.buf = b] = Mem(r.alloc, b, r.len, r.max)
         /\ WithText(r, b, l) = Mem(r.alloc, b, l, r.max)
<1> DEFINE r1 == [r EXCEPT !.buf = b]
<1>1. r1 = Mem(r.alloc, b, r.len, r.max)
  BY SMT DEF Mem
<1>2. WithText(r, b, l) = [r1 EXCEPT !.len = l]
  BY Zenon DEF WithText
<1> DEFINE a == r.alloc
           m == r.max
           k == r.len
<1>3. r1 = Mem(a, b, k, m)
  BY <1>1
<1> HIDE DEF r1, a, m, k
<1>4. [r1 EXCEPT !.len = l] = Mem(a, b, l, m)
  BY <1>3, SMT DEF Mem
<1> QED  BY <1>1, <1>2, <1>4, Zenon DEF r1, a, m, k

\* Only a string that lives has a buffer.
LEMMA Alive ==
  ASSUME NEW r, NEW t, NEW e, Keeps(r, t, e)
  PROVE  r.buf # <<>>
<1>1. 0 \in DOMAIN r.buf
  BY SMT DEF Keeps, Holds
<1>2. DOMAIN <<>> = {}
  OBVIOUS
<1> QED  BY <1>1, <1>2

\* What a store of bytes at `at' makes of a buffer that has room for them.
LEMMA Written ==
  ASSUME NEW max \in Nat, NEW buf \in [0..max -> Byte], NEW at \in Nat, NEW bytes \in Seq(Byte),
         at + Len(bytes) <= max + 1
  PROVE  /\ Write(buf, at, bytes) \in [0..max -> Byte]
         /\ \A i \in 0..max : (i < at \/ i >= at + Len(bytes)) => Write(buf, at, bytes)[i] = buf[i]
         /\ \A j \in 1..Len(bytes) : Write(buf, at, bytes)[at + (j - 1)] = bytes[j]
<1> DEFINE n == Len(bytes)
<1>1. n \in Nat /\ DOMAIN buf = 0..max
  OBVIOUS
<1>2. \A j \in 1..n : bytes[j] \in Byte
  OBVIOUS
<1> HIDE DEF n
<1>3. at..(at + n - 1) \subseteq 0..max
  BY <1>1, SMT DEF n
<1>4. 0..max \cup at..(at + n - 1) = 0..max
  BY <1>3
<1>5. \A i \in at..(at + n - 1) : i - at + 1 \in 1..n
  BY <1>1, SMT
<1>6. \A i \in 0..max : i \in at..(at + n - 1) <=> ~(i < at \/ i >= at + n)
  BY <1>1, SMT
<1>7. \A j \in 1..n : at + (j - 1) \in at..(at + n - 1) /\ at + (j - 1) - at + 1 = j
  BY <1>1, SMT
<1>8. Write(buf, at, bytes) = [i \in 0..max |-> IF i \in at..(at + n - 1) THEN bytes[i - at + 1] ELSE buf[i]]
  BY <1>1, <1>4 DEF Write, n
<1>9. Write(buf, at, bytes) \in [0..max -> Byte]
  BY <1>2, <1>5, <1>8
<1>10. \A i \in 0..max : (i < at \/ i >= at + n) => Write(buf, at, bytes)[i] = buf[i]
  BY <1>6, <1>8
<1>11. \A j \in 1..n : Write(buf, at, bytes)[at + (j - 1)] = bytes[j]
  BY <1>3, <1>7, <1>8, SMTT(40)
<1> QED  BY <1>9, <1>10, <1>11 DEF n

\* Likewise of one NUL.
LEMMA NulWritten ==
  ASSUME NEW max \in Nat, NEW buf \in [0..max -> Byte], NEW at \in 0..max
  PROVE  /\ Write(buf, at, <<NUL>>) \in [0..max -> Byte]
         /\ Write(buf, at, <<NUL>>)[at] = NUL
         /\ \A i \in 0..max : i # at => Write(buf, at, <<NUL>>)[i] = buf[i]
<1>1. <<NUL>> \in Seq(Byte) /\ Len(<<NUL>>) = 1 /\ <<NUL>>[1] = NUL
  BY DEF Byte
<1>2. at \in Nat /\ at + 1 <= max + 1 /\ at + (1 - 1) = at /\ 1 \in 1..1
  BY SMT
<1>3. \A i \in 0..max : i # at => i < at \/ i >= at + 1
  BY SMT
<1> DEFINE w == Write(buf, at, <<NUL>>)
<1>4. /\ w \in [0..max -> Byte]
      /\ \A i \in 0..max : (i < at \/ i >= at + Len(<<NUL>>)) => w[i] = buf[i]
      /\ \A j \in 1..Len(<<NUL>>) : w[at + (j - 1)] = <<NUL>>[j]
  BY <1>1, <1>2, Written
<1> HIDE DEF w
<1>5. w[at] = NUL
  BY <1>1, <1>2, <1>4
<1> QED  BY <1>1, <1>3, <1>4, <1>5 DEF w

\* The lesser of two lengths.
LEMMA MinTwo ==
  ASSUME NEW a \in Nat, NEW b \in Nat
  PROVE  Min({a, b}) = IF a <= b THEN a ELSE b
<1>1. \A x \in {a, b} : (\A y \in {a, b} : x =< y) <=> x = IF a <= b THEN a ELSE b
  BY SMT
<1>2. (IF a <= b THEN a ELSE b) \in {a, b}
  OBVIOUS
<1> QED  BY <1>1, <1>2 DEF Min

\* A text is never mistaken for a lost one.
LEMMA NotLost == \A t \in Seq(Byte) : t # Lost
<1> SUFFICES ASSUME Lost \in Seq(Byte) PROVE FALSE
  OBVIOUS
<1>1. Len(Lost) = 1 /\ Lost[1] = "lost"
  BY DEF Lost
<1>2. Lost[1] \in Byte
  <2>1. 1 \in 1..Len(Lost)
    BY <1>1, SMT
  <2> QED  BY <2>1, ElementOfSeq
<1> QED  BY <1>1, <1>2 DEF Byte, NUL

\* A text that was cut.
LEMMA CutIs ==
  ASSUME NEW t \in Seq(Byte), NEW n \in Nat
  PROVE  /\ Cut(t, n) \in Seq(Byte) /\ Len(t) \in Nat
         /\ Len(Cut(t, n)) = IF Len(t) <= n THEN Len(t) ELSE n
         /\ \A i \in 1..Len(Cut(t, n)) : Cut(t, n)[i] = t[i]
<1>1. t # Lost /\ Len(t) \in Nat
  BY NotLost
<1>2. CASE Len(t) <= n
  BY <1>1, <1>2 DEF Cut
<1>3. CASE ~(Len(t) <= n)
  <2>1. Cut(t, n) = SubSeq(t, 1, n)
    BY <1>1, <1>3 DEF Cut
  <2>2. 1 \in 1..(Len(t) + 1) /\ n \in 0..Len(t)
    BY <1>1, <1>3, SMT
  <2>3. SubSeq(t, 1, n) \in Seq(Byte) /\ Len(SubSeq(t, 1, n)) = n /\ \A i \in 1..n : SubSeq(t, 1, n)[i] = t[i]
    <3>1. \A i \in 1..n : 1 <= i /\ i <= n /\ i \in 1..Len(t)
      BY <1>1, <2>2, SMT
    <3>2. SubSeq(t, 1, n) = [i \in 1..n |-> t[i]]
      <4>1. SubSeq(t, 1, n) = [i \in 1..(n - 1 + 1) |-> t[i + 1 - 1]]
        BY <1>1, <2>2, SMT
      <4>2. n - 1 + 1 = n /\ \A i \in 1..n : i + 1 - 1 = i
        BY SMT
      <4> QED  BY <4>1, <4>2
    <3>3. \A i \in 1..n : t[i] \in Byte
      BY <3>1, ElementOfSeq
    <3> QED  BY <3>2, <3>3
  <2> QED  BY <1>3, <2>1, <2>3
<1> QED  BY <1>2, <1>3

\* string_copy: the text is that of the call, as far as the buffer has room.
LEMMA CopyKeeps ==
  ASSUME NEW r, NEW t, NEW e, Keeps(r, t, e), NEW append \in BOOLEAN, NEW bytes \in Seq(Byte)
  PROVE  Keeps(Copied(r, append, bytes), After(t, append, bytes, r.max), TRUE)
<1> DEFINE start == IF append THEN r.len ELSE 0
           L == Len(bytes)
           n == Min({L, r.max - start})
           part == SubSeq(bytes, 1, n)
           b1 == Write(r.buf, start, part)
           b2 == Write(b1, start + n, <<NUL>>)
           r2 == Copied(r, append, bytes)
           t2 == After(t, append, bytes, r.max)
<1>1. /\ r = Mem(r.alloc, r.buf, r.len, r.max) /\ r.alloc \in BOOLEAN /\ r.max \in Nat /\ r.len \in 0..r.max
      /\ r.buf \in [0..r.max -> Byte] /\ r.buf[r.max] = NUL
  BY DEF Keeps, Holds
<1>2. start \in 0..r.max /\ L \in Nat /\ r.max - start \in Nat
  BY <1>1, SMT
<1>3. r2 = Mem(r.alloc, b2, start + n, r.max)
  <2>1. r2 = WithText(r, b2, start + n)
    BY Zenon DEF Copied, WithText
  <2>2. r = Mem(r.alloc, r.buf, r.len, r.max)
    BY <1>1
  <2>3. ASSUME NEW b, NEW l PROVE WithText(r, b, l) = Mem(r.alloc, b, l, r.max)
    BY <2>2, FieldsStored
  <2> HIDE DEF b2, start, n, r2
  <2> QED  BY <2>1, <2>3, Zenon
<1>4. n = IF L <= r.max - start THEN L ELSE r.max - start
  <2> HIDE DEF L, start
  <2> QED  BY <1>2, MinTwo DEF n
<1> HIDE DEF n, r2
<1>5. n \in Nat /\ n <= L /\ start + n <= r.max /\ start + n \in 0..r.max /\ start \in Nat
  <2> HIDE DEF L, start
  <2> QED  BY <1>1, <1>2, <1>4, SMT
<1>6. part \in Seq(Byte) /\ Len(part) = n /\ \A j \in 1..n : part[j] = bytes[j]
  <2>1. Cut(bytes, n) \in Seq(Byte) /\ Len(Cut(bytes, n)) = n /\ \A i \in 1..n : Cut(bytes, n)[i] = bytes[i]
    <3>1. (IF L <= n THEN L ELSE n) = n
      <4> HIDE DEF L
      <4> QED  BY <1>2, <1>5, SMT
    <3> QED  BY <1>5, <3>1, CutIs
  <2>2. Cut(bytes, n) = part
    <3>1. bytes # Lost
      BY NotLost
    <3>2. CASE L <= n
      <4>1. L = n
        <5> HIDE DEF L
        <5> QED  BY <1>2, <1>5, <3>2, SMT
      <4>2. SubSeq(bytes, 1, L) = bytes
        BY SubSeqFull
      <4> QED  BY <3>1, <3>2, <4>1, <4>2 DEF Cut
    <3>3. CASE ~(L <= n)
      BY <3>1, <3>3 DEF Cut
    <3> QED  BY <3>2, <3>3
  <2> QED  BY <2>1, <2>2
<1> HIDE DEF part
<1>7. /\ b1 \in [0..r.max -> Byte]
      /\ \A i \in 0..r.max : (i < start \/ i >= start + n) => b1[i] = r.buf[i]
      /\ \A j \in 1..n : b1[start + (j - 1)] = bytes[j]
  <2>1. start + Len(part) <= r.max + 1
    <3> HIDE DEF start
    <3> QED  BY <1>1, <1>5, <1>6, SMT
  <2> HIDE DEF start
  <2>2. /\ b1 \in [0..r.max -> Byte]
        /\ \A i \in 0..r.max : (i < start \/ i >= start + Len(part)) => b1[i] = r.buf[i]
        /\ \A j \in 1..Len(part) : b1[start + (j - 1)] = part[j]
    <3>1. PICK max, old, at, p : max = r.max /\ old = r.buf /\ at = start /\ p = part
      OBVIOUS
    <3>2. /\ max \in Nat /\ old \in [0..max -> Byte] /\ at \in Nat /\ p \in Seq(Byte)
          /\ at + Len(p) <= max + 1
      BY <1>1, <1>5, <1>6, <2>1, <3>1
    <3>3. /\ Write(old, at, p) \in [0..max -> Byte]
          /\ \A i \in 0..max : (i < at \/ i >= at + Len(p)) => Write(old, at, p)[i] = old[i]
          /\ \A j \in 1..Len(p) : Write(old, at, p)[at + (j - 1)] = p[j]
      BY <3>2, Written
    <3> QED  BY <3>1, <3>3 DEF b1
  <2> HIDE DEF b1
  <2> QED  BY <1>6, <2>2
<1> HIDE DEF b1
<1>8. /\ b2 \in [0..r.max -> Byte] /\ b2[start + n] = NUL
      /\ \A i \in 0..r.max : i # start + n => b2[i] = b1[i]
  BY <1>1, <1>5, <1>7, NulWritten
<1> HIDE DEF b2
<1>9. b2[r.max] = NUL
  <2>1. CASE start + n = r.max
    BY <1>8, <2>1
  <2>2. CASE start + n # r.max
    <3>1. r.max >= start + n /\ r.max \in 0..r.max
      <4> HIDE DEF start
      <4> QED  BY <1>1, <1>5, SMT
    <3> QED  BY <1>1, <1>7, <1>8, <2>2, <3>1
  <2> QED  BY <2>1, <2>2
<1>10. t2 = Lost \/ (t2 \in Seq(Byte) /\ Len(t2) = start + n /\ \A i \in 1..(start + n) : b2[i - 1] = t2[i])
  <2>1. CASE append /\ t = Lost
    BY <2>1 DEF After
  <2>2. CASE ~(append /\ t = Lost)
    <3> DEFINE head == IF append THEN t ELSE <<>>
               full == head \o bytes
    <3>1. head \in Seq(Byte) /\ Len(head) = start /\ \A i \in 1..start : r.buf[i - 1] = head[i]
      <4>1. CASE append
        BY <2>2, <4>1 DEF Keeps
      <4>2. CASE ~append
        <5>1. 1..0 = {}
          BY SMT
        <5> QED  BY <4>2, <5>1
      <4> QED  BY <4>1, <4>2
    <3>2. t2 = Cut(full, r.max)
      BY <2>2, Zenon DEF After
    <3> HIDE DEF head, start, t2
    <3>3. full \in Seq(Byte) /\ Len(full) = start + L
          /\ \A i \in 1..(start + L) : full[i] = IF i <= start THEN head[i] ELSE bytes[i - start]
      BY <3>1, ConcatProperties
    <3> HIDE DEF full, L
    <3>4. t2 \in Seq(Byte) /\ Len(t2) = (IF start + L <= r.max THEN start + L ELSE r.max)
          /\ \A i \in 1..Len(t2) : t2[i] = full[i]
      BY <1>1, <3>2, <3>3, CutIs
    <3>5. Len(t2) = start + n
      BY <1>1, <1>2, <1>4, <1>5, <3>4, SMT
    <3>6. ASSUME NEW i \in 1..(start + n) PROVE b2[i - 1] = t2[i]
      <4>1. i - 1 \in 0..r.max /\ i - 1 # start + n /\ i \in 1..(start + L) /\ (i <= start <=> i - 1 < start)
            /\ (i <= start => i \in 1..start) /\ (~(i <= start) => i - start \in 1..n /\ start + ((i - start) - 1) = i - 1)
        BY <1>1, <1>2, <1>5, SMT
      <4>2. b2[i - 1] = b1[i - 1] /\ t2[i] = full[i]
        BY <1>8, <3>4, <3>5, <4>1
      <4>3. CASE i <= start
        BY <1>7, <3>1, <3>3, <4>1, <4>2, <4>3
      <4>4. CASE ~(i <= start)
        <5>1. b1[start + ((i - start) - 1)] = bytes[i - start]
          BY <1>7, <4>1, <4>4
        <5> QED  BY <3>3, <4>1, <4>2, <4>4, <5>1
      <4> QED  BY <4>3, <4>4
    <3> QED  BY <3>4, <3>5, <3>6
  <2> QED  BY <2>1, <2>2
<1> HIDE DEF t2, start
<1>11. r2.alloc = r.alloc /\ r2.buf = b2 /\ r2.len = start + n /\ r2.max = r.max
  BY <1>3, Memory
<1>12. Keeps(r2, t2, TRUE)
  BY <1>1, <1>3, <1>5, <1>8, <1>9, <1>10, <1>11 DEF Keeps, Holds
<1> QED  BY <1>12 DEF r2, t2

\* str_resize: the text is cut to what has room.
LEMMA ResizeKeeps ==
  ASSUME NEW r, NEW t, NEW e, Keeps(r, t, e), NEW n \in Nat
  PROVE  /\ Keeps(Resized(r, n), Cut(t, n), e \/ n <= r.len)
         /\ Resized(r, n).max = n /\ (r.len <= n => Resized(r, n).len = r.len)
<1> DEFINE b2 == [i \in 0..n |-> IF i = n THEN NUL ELSE IF i <= r.max THEN r.buf[i] ELSE "?"]
           l2 == IF r.len > n THEN n ELSE r.len
           r2 == Resized(r, n)
           t2 == Cut(t, n)
<1>1. /\ r = Mem(r.alloc, r.buf, r.len, r.max) /\ r.alloc \in BOOLEAN /\ r.max \in Nat /\ r.len \in 0..r.max
      /\ r.buf \in [0..r.max -> Byte] /\ r.buf[r.max] = NUL /\ r.len \in Nat
  BY SMT DEF Keeps, Holds
<1>2. r2 = Mem(r.alloc, b2, l2, n)
  <2> DEFINE r0 == [r EXCEPT !.max = n]
             r1 == [r0 EXCEPT !.len = l2]
             a == r.alloc
             b == r.buf
             k == r.len
  <2>1. r2 = [r1 EXCEPT !.buf = b2]
    BY Zenon DEF Resized
  <2>2. r = Mem(a, b, k, r.max)
    BY <1>1
  <2> HIDE DEF a, b, k, b2, l2
  <2>3. r0 = Mem(a, b, k, n)
    BY <2>2, SMT DEF Mem
  <2> HIDE DEF r0
  <2>4. r1 = Mem(a, b, l2, n)
    BY <2>3, SMT DEF Mem
  <2> HIDE DEF r1
  <2>5. [r1 EXCEPT !.buf = b2] = Mem(a, b2, l2, n)
    BY <2>4, SMT DEF Mem
  <2> QED  BY <2>1, <2>5, Zenon DEF a
<1> HIDE DEF r2
<1>3. r2.alloc = r.alloc /\ r2.buf = b2 /\ r2.len = l2 /\ r2.max = n
  <2> HIDE DEF b2, l2
  <2> QED  BY <1>2, Memory
<1>4. l2 \in 0..n /\ l2 <= r.len /\ (r.len <= n => l2 = r.len) /\ (~(r.len <= n) => l2 = n) /\ l2 \in Nat
  BY <1>1, SMT
<1> HIDE DEF l2
<1>5. \A i \in 0..n : i <= r.max => i \in 0..r.max
  BY <1>1, SMT
<1>6. b2 \in [0..n -> Byte] /\ b2[n] = NUL
  <2>1. \A i \in 0..n : b2[i] \in Byte
    BY <1>1, <1>5 DEF Byte
  <2> QED  BY <2>1, SMT
<1>7. \A i \in 0..r.max : i < n => b2[i] = r.buf[i]
  BY <1>1, SMT
<1> HIDE DEF b2
<1>8. t2 = Lost \/ (t2 \in Seq(Byte) /\ Len(t2) = l2 /\ \A i \in 1..l2 : b2[i - 1] = t2[i])
  <2>1. CASE t = Lost
    BY <2>1 DEF Cut
  <2>2. CASE t # Lost
    <3>1. t \in Seq(Byte) /\ Len(t) = r.len /\ \A i \in 1..r.len : r.buf[i - 1] = t[i]
      BY <2>2 DEF Keeps
    <3>2. t2 \in Seq(Byte) /\ Len(t2) = (IF r.len <= n THEN r.len ELSE n) /\ \A i \in 1..Len(t2) : t2[i] = t[i]
      BY <3>1, CutIs
    <3>3. Len(t2) = l2
      BY <1>4, <3>2
    <3>4. \A i \in 1..l2 : i \in 1..r.len /\ i - 1 \in 0..r.max /\ i - 1 < n
      BY <1>1, <1>4, SMT
    <3> HIDE DEF t2
    <3> QED  BY <1>7, <3>1, <3>2, <3>3, <3>4
  <2> QED  BY <2>1, <2>2
<1>9. ASSUME e \/ n <= r.len PROVE b2[l2] = NUL
  <2>1. CASE n <= r.len
    <3>1. l2 = n
      BY <1>1, <1>4, <2>1, SMT
    <3> QED  BY <1>6, <3>1
  <2>2. CASE ~(n <= r.len)
    <3>1. l2 = r.len /\ r.len < n
      BY <1>1, <1>4, <2>2, SMT
    <3>2. r.buf[r.len] = NUL
      BY <1>9, <2>2 DEF Keeps
    <3> QED  BY <1>1, <1>7, <3>1, <3>2
  <2> QED  BY <2>1, <2>2
<1> HIDE DEF t2
<1>10. Keeps(r2, t2, e \/ n <= r.len)
  BY <1>1, <1>2, <1>3, <1>4, <1>6, <1>8, <1>9 DEF Keeps, Holds
<1> QED  BY <1>3, <1>4, <1>10 DEF r2, t2

\* A string created from a buffer that fills it, or from none.
LEMMA CreateKeeps ==
  ASSUME NEW from \in Seq(Byte), NEW n \in Nat, Len(from) = n \/ Len(from) = 0
  PROVE  Keeps([alloc |-> TRUE, buf |-> Write(Write([i \in 0..n |-> "?"], 0, from), n, <<NUL>>),
                len |-> Len(from), max |-> n], from, from # <<>> \/ n = 0)
<1> DEFINE raw == [i \in 0..n |-> "?"]
           b1 == Write(raw, 0, from)
           b2 == Write(b1, n, <<NUL>>)
           l == Len(from)
           r == [alloc |-> TRUE, buf |-> b2, len |-> l, max |-> n]
<1>1. raw \in [0..n -> Byte] /\ l \in Nat /\ l \in 0..n /\ 0 + l <= n + 1 /\ n \in 0..n /\ 0 \in Nat
  BY SMT DEF Byte
<1>2. b1 \in [0..n -> Byte] /\ \A j \in 1..l : b1[0 + (j - 1)] = from[j]
  <2> HIDE DEF raw
  <2> QED  BY <1>1, Written
<1> HIDE DEF b1
<1>3. b2 \in [0..n -> Byte] /\ b2[n] = NUL /\ \A i \in 0..n : i # n => b2[i] = b1[i]
  BY <1>1, <1>2, NulWritten, ZenonT(60)
<1> HIDE DEF b2
<1>4. r = Mem(TRUE, b2, l, n)
  BY DEF Mem
<1>5. r.alloc \in BOOLEAN /\ r.alloc = TRUE /\ r.buf = b2 /\ r.len = l /\ r.max = n
  <2> HIDE DEF l
  <2> QED  OBVIOUS
<1> HIDE DEF r
<1>6. \A i \in 1..l : b2[i - 1] = from[i]
  <2> HIDE DEF l
  <2>1. \A i \in 1..l : i - 1 \in 0..n /\ i - 1 # n /\ 0 + (i - 1) = i - 1
    BY <1>1, SMT
  <2> QED  BY <1>2, <1>3, <2>1
<1>7. ASSUME from # <<>> \/ n = 0 PROVE l = n
  <2>1. l = n \/ l = 0
    OBVIOUS
  <2>2. l = 0 => from = <<>>
    BY EmptySeq, SMT
  <2> QED  BY <1>7, <2>1, <2>2
<1>8. from \in Seq(Byte) /\ Len(from) = l
  OBVIOUS
<1> HIDE DEF l
<1>9. Keeps(r, from, from # <<>> \/ n = 0)
  <2>1. r = Mem(r.alloc, r.buf, r.len, r.max)
    BY <1>4, <1>5
  <2>2. r.alloc \in BOOLEAN /\ r.max \in Nat /\ r.len \in 0..r.max
    BY <1>1, <1>5
  <2>3. Holds(r.buf, r.max)
    BY <1>3, <1>5 DEF Holds
  <2>4. from \in Seq(Byte) /\ Len(from) = r.len /\ \A i \in 1..r.len : r.buf[i - 1] = from[i]
    BY <1>5, <1>6, <1>8
  <2>5. from # <<>> \/ n = 0 => r.buf[r.len] = NUL
    BY <1>3, <1>5, <1>7
  <2> QED  BY <2>1, <2>2, <2>3, <2>4, <2>5 DEF Keeps
<1> QED  BY <1>9 DEF r, l, b1, b2

\* A run of one byte.
LEMMA BytesAre ==
  ASSUME NEW b \in Byte, NEW n \in Nat
  PROVE  Bytes(b, n) \in Seq(Byte) /\ Len(Bytes(b, n)) = n /\ \A i \in 1..n : Bytes(b, n)[i] = b
BY DEF Bytes

\* What string_printf has stored when vsnprintf returns.
Vsnprintf(r, start, n, buf) ==
  /\ start \in 0..r.max
  /\ Holds(buf, r.max)
  /\ \A i \in 0..r.max : (i < start \/ start = r.max) => buf[i] = r.buf[i]
  /\ start + n < r.max => \A j \in 1..n : buf[start + (j - 1)] = "y"

LEMMA PrintStores ==
  ASSUME NEW r, NEW t, NEW e, Keeps(r, t, e), NEW start \in 0..r.max, NEW n \in Nat
  PROVE  Vsnprintf(r, start, n, Write(r.buf, start,
                 IF r.max - start = 0 THEN <<>>
                 ELSE Bytes("y", Min({n, (r.max - start) - 1})) \o <<NUL>>))
<1> DEFINE room == r.max - start
           out == IF room = 0 THEN <<>> ELSE Bytes("y", Min({n, room - 1})) \o <<NUL>>
           buf == Write(r.buf, start, out)
           m == IF room = 0 THEN 0 ELSE Min({n, room - 1})
           L == IF room = 0 THEN 0 ELSE m + 1
<1>1. r.max \in Nat /\ r.buf \in [0..r.max -> Byte] /\ r.buf[r.max] = NUL
  BY SMT DEF Keeps, Holds
<1>2. start \in Nat /\ room \in Nat /\ start + room = r.max
  BY <1>1, SMT
<1> HIDE DEF room
<1>3. m \in Nat /\ m <= n /\ m <= room /\ L \in Nat /\ L <= room /\ (n < room => m = n /\ L = n + 1)
  <2>1. CASE room = 0
    BY <2>1, SMT
  <2>2. CASE room # 0
    <3>1. room - 1 \in Nat
      BY <1>2, <2>2, SMT
    <3>2. Min({n, room - 1}) = IF n <= room - 1 THEN n ELSE room - 1
      BY <3>1, MinTwo
    <3>3. m = IF n <= room - 1 THEN n ELSE room - 1
      BY <2>2, <3>2
    <3>4. L = m + 1
      BY <2>2
    <3> HIDE DEF m, L
    <3> QED  BY <1>2, <2>2, <3>1, <3>3, <3>4, SMT
  <2> QED  BY <2>1, <2>2
<1>4. out \in Seq(Byte) /\ Len(out) = L /\ \A j \in 1..m : out[j] = "y"
  <2>1. CASE room = 0
    BY <2>1, SMT
  <2>2. CASE room # 0
    <3> DEFINE ys == Bytes("y", m)
               z == <<NUL>>
    <3>1. ys \in Seq(Byte) /\ Len(ys) = m /\ \A i \in 1..m : ys[i] = "y"
      <4>1. "y" \in Byte
        BY DEF Byte
      <4> HIDE DEF m
      <4> QED  BY <1>3, <4>1, BytesAre
    <3>2. z \in Seq(Byte) /\ Len(z) = 1
      BY DEF Byte
    <3>3. out = ys \o z
      BY <2>2
    <3>4. L = m + 1
      BY <2>2
    <3> HIDE DEF ys, z, m, L, out
    <3>5. /\ ys \o z \in Seq(Byte) /\ Len(ys \o z) = Len(ys) + Len(z)
          /\ \A i \in 1..(Len(ys) + Len(z)) : (ys \o z)[i] = IF i <= Len(ys) THEN ys[i] ELSE z[i - Len(ys)]
      BY <3>1, <3>2, ConcatProperties
    <3>6. \A j \in 1..m : j \in 1..(m + 1) /\ j <= m
      BY <1>3, SMT
    <3>7. \A j \in 1..m : out[j] = "y"
      BY <3>1, <3>2, <3>3, <3>5, <3>6
    <3> QED  BY <3>1, <3>2, <3>3, <3>4, <3>5, <3>7
  <2> QED  BY <2>1, <2>2
<1> HIDE DEF m, out
<1>5. L = 0 => room = 0
  BY <1>3, SMT DEF L
<1>11. room = 0 => L = 0
  BY DEF L
<1> HIDE DEF L
<1>6. /\ buf \in [0..r.max -> Byte]
      /\ \A i \in 0..r.max : (i < start \/ i >= start + L) => buf[i] = r.buf[i]
      /\ \A j \in 1..L : buf[start + (j - 1)] = out[j]
  <2>1. start + Len(out) <= r.max + 1
    BY <1>1, <1>2, <1>3, <1>4, SMT
  <2>2. /\ buf \in [0..r.max -> Byte]
        /\ \A i \in 0..r.max : (i < start \/ i >= start + Len(out)) => buf[i] = r.buf[i]
        /\ \A j \in 1..Len(out) : buf[start + (j - 1)] = out[j]
    BY <1>1, <1>2, <1>4, <2>1, Written, SMTT(40)
  <2> HIDE DEF buf
  <2> QED  BY <1>4, <2>2
<1> HIDE DEF buf
<1>7. buf[r.max] = NUL
  <2>1. r.max \in 0..r.max /\ r.max >= start + L
    BY <1>1, <1>2, <1>3, SMT
  <2> QED  BY <1>1, <1>6, <2>1
<1>8. \A i \in 0..r.max : (i < start \/ start = r.max) => buf[i] = r.buf[i]
  <2>1. \A i \in 0..r.max : start = r.max => i < start \/ i >= start + L
    BY <1>1, <1>2, <1>3, <1>11, SMT
  <2> QED  BY <1>6, <2>1
<1>9. ASSUME start + n < r.max, NEW j \in 1..n PROVE buf[start + (j - 1)] = "y"
  <2>1. j \in 1..m /\ j \in 1..L
    BY <1>1, <1>2, <1>3, <1>9, SMT
  <2> QED  BY <1>4, <1>6, <2>1
<1>10. Vsnprintf(r, start, n, buf)
  BY <1>6, <1>7, <1>8, <1>9 DEF Vsnprintf, Holds
<1> QED  BY <1>10 DEF buf, out, room

\* It fails: the text that was there is lost, unless it is the one appended to.
LEMMA PrintFails ==
  ASSUME NEW r, NEW t, NEW e, Keeps(r, t, e), NEW append, NEW start, append => start = r.len,
         NEW n, NEW buf, Vsnprintf(r, start, n, buf)
  PROVE  Keeps([r EXCEPT !.buf = buf], IF append \/ start = r.max THEN t ELSE Lost, FALSE)
<1> DEFINE r2 == [r EXCEPT !.buf = buf]
           t2 == IF append \/ start = r.max THEN t ELSE Lost
<1>1. /\ r = Mem(r.alloc, r.buf, r.len, r.max) /\ r.alloc \in BOOLEAN /\ r.max \in Nat /\ r.len \in 0..r.max
  BY SMT DEF Keeps
<1>2. r2 = Mem(r.alloc, buf, r.len, r.max)
  BY <1>1, FieldsStored
<1> HIDE DEF r2
<1>3. r2.alloc = r.alloc /\ r2.buf = buf /\ r2.len = r.len /\ r2.max = r.max
  BY <1>2, Memory
<1>4. t2 = Lost \/ (t2 \in Seq(Byte) /\ Len(t2) = r.len /\ \A i \in 1..r.len : buf[i - 1] = t2[i])
  <2>1. CASE (append \/ start = r.max) /\ t # Lost
    <3>1. t2 = t
      BY <2>1
    <3>2. t \in Seq(Byte) /\ Len(t) = r.len /\ \A i \in 1..r.len : r.buf[i - 1] = t[i]
      BY <2>1 DEF Keeps
    <3>3. \A i \in 1..r.len : i - 1 \in 0..r.max /\ i - 1 < r.len
      BY <1>1, SMT
    <3>4. \A i \in 1..r.len : buf[i - 1] = r.buf[i - 1]
      BY <2>1, <3>3 DEF Vsnprintf
    <3> HIDE DEF t2
    <3> QED  BY <3>1, <3>2, <3>4
  <2>2. CASE ~((append \/ start = r.max) /\ t # Lost)
    BY <2>2
  <2> QED  BY <2>1, <2>2
<1> HIDE DEF t2
<1>5. Holds(buf, r.max)
  BY DEF Vsnprintf
<1>6. Keeps(r2, t2, FALSE)
  BY <1>1, <1>2, <1>3, <1>4, <1>5 DEF Keeps
<1> QED  BY <1>6 DEF r2, t2

\* A NUL stored with the length it ends at.
LEMMA EndedAt ==
  ASSUME NEW r, r = Mem(r.alloc, r.buf, r.len, r.max), NEW b, NEW l
  PROVE  [r EXCEPT !.len = l, !.buf = b] = Mem(r.alloc, b, l, r.max)
<1> DEFINE a == r.alloc
           k == r.buf
           j == r.len
           r1 == [r EXCEPT !.len = l]
<1>1. r = Mem(a, k, j, r.max)
  OBVIOUS
<1> HIDE DEF a, k, j
<1>2. r1 = Mem(a, k, l, r.max)
  BY <1>1, SMT DEF Mem
<1>3. [r EXCEPT !.len = l, !.buf = b] = [r1 EXCEPT !.buf = b]
  BY Zenon
<1> HIDE DEF r1
<1>4. [r1 EXCEPT !.buf = b] = Mem(a, b, l, r.max)
  BY <1>2, SMT DEF Mem
<1> QED  BY <1>3, <1>4, Zenon DEF a

\* It succeeds: what is printed follows what was kept.
LEMMA PrintFits ==
  ASSUME NEW r, NEW t, NEW e, Keeps(r, t, e), NEW start, NEW n \in Nat, start + n < r.max,
         NEW buf, Vsnprintf(r, start, n, buf),
         NEW kept, kept = Lost \/ (/\ kept \in Seq(Byte) /\ Len(kept) = start
                                   /\ \A i \in 1..start : r.buf[i - 1] = kept[i])
  PROVE  Keeps([r EXCEPT !.len = start + n, !.buf = Write(buf, start + n, <<NUL>>)],
               IF kept = Lost THEN Lost ELSE kept \o Bytes("y", n), TRUE)
<1> DEFINE l == start + n
           b2 == Write(buf, l, <<NUL>>)
           r2 == [r EXCEPT !.len = l, !.buf = b2]
           t2 == IF kept = Lost THEN Lost ELSE kept \o Bytes("y", n)
           ys == Bytes("y", n)
<1>1. /\ r = Mem(r.alloc, r.buf, r.len, r.max) /\ r.alloc \in BOOLEAN /\ r.max \in Nat
  BY SMT DEF Keeps
<1>2. /\ start \in 0..r.max /\ buf \in [0..r.max -> Byte] /\ buf[r.max] = NUL
      /\ \A i \in 0..r.max : i < start => buf[i] = r.buf[i]
      /\ \A j \in 1..n : buf[start + (j - 1)] = "y"
  BY DEF Vsnprintf, Holds
<1>3. start \in Nat /\ l \in 0..r.max /\ l # r.max /\ r.max \in 0..r.max
  BY <1>1, <1>2, SMT
<1>4. r2 = Mem(r.alloc, b2, l, r.max)
  BY <1>1, EndedAt
<1>5. \A i \in 1..l : /\ i - 1 \in 0..r.max /\ i - 1 # l /\ (i <= start => i \in 1..start /\ i - 1 < start)
                      /\ (~(i <= start) => i - start \in 1..n /\ start + ((i - start) - 1) = i - 1)
  BY <1>1, <1>3, SMT
<1>6. start + n = l
  OBVIOUS
<1> HIDE DEF l
<1>7. b2 \in [0..r.max -> Byte] /\ b2[l] = NUL /\ \A i \in 0..r.max : i # l => b2[i] = buf[i]
  BY <1>1, <1>2, <1>3, NulWritten
<1> HIDE DEF b2, r2
<1>8. r2.alloc = r.alloc /\ r2.buf = b2 /\ r2.len = l /\ r2.max = r.max
  BY <1>4, Memory
<1>9. b2[r.max] = NUL
  BY <1>2, <1>3, <1>7
<1>10. t2 = Lost \/ (t2 \in Seq(Byte) /\ Len(t2) = l /\ \A i \in 1..l : b2[i - 1] = t2[i])
  <2>1. CASE kept = Lost
    BY <2>1
  <2>2. CASE kept # Lost
    <3>1. ys \in Seq(Byte) /\ Len(ys) = n /\ \A i \in 1..n : ys[i] = "y"
      <4>1. "y" \in Byte
        BY DEF Byte
      <4> QED  BY <4>1, BytesAre
    <3>2. kept \in Seq(Byte) /\ Len(kept) = start /\ \A i \in 1..start : r.buf[i - 1] = kept[i]
      BY <2>2
    <3>3. t2 = kept \o ys
      BY <2>2
    <3> HIDE DEF ys, t2
    <3>4. /\ kept \o ys \in Seq(Byte) /\ Len(kept \o ys) = Len(kept) + Len(ys)
          /\ \A i \in 1..(Len(kept) + Len(ys)) : (kept \o ys)[i] = IF i <= Len(kept) THEN kept[i] ELSE ys[i - Len(kept)]
      BY <3>1, <3>2, ConcatProperties
    <3>5. t2 \in Seq(Byte) /\ Len(t2) = l
          /\ \A i \in 1..l : t2[i] = IF i <= start THEN kept[i] ELSE ys[i - start]
      <4>1. Len(kept) + Len(ys) = l
        BY <1>6, <3>1, <3>2
      <4> QED  BY <3>2, <3>3, <3>4, <4>1
    <3>6. ASSUME NEW i \in 1..l PROVE b2[i - 1] = t2[i]
      <4>1. b2[i - 1] = buf[i - 1]
        BY <1>5, <1>7
      <4>2. CASE i <= start
        BY <1>2, <1>5, <3>2, <3>5, <4>1, <4>2
      <4>3. CASE ~(i <= start)
        <5>1. buf[start + ((i - start) - 1)] = "y" /\ ys[i - start] = "y"
          BY <1>2, <1>5, <3>1, <4>3
        <5>2. t2[i] = ys[i - start]
          BY <3>5, <4>3
        <5> QED  BY <1>5, <4>1, <4>3, <5>1, <5>2
      <4> QED  BY <4>2, <4>3
    <3> QED  BY <3>5, <3>6
  <2> QED  BY <2>1, <2>2
<1> HIDE DEF t2
<1>11. Keeps(r2, t2, TRUE)
  BY <1>1, <1>3, <1>4, <1>7, <1>8, <1>9, <1>10 DEF Keeps, Holds
<1> QED  BY <1>11 DEF r2, t2, b2, l

\* A string of no text: STRING_DEF and str_flush.
LEMMA EmptyKeeps ==
  ASSUME NEW a \in BOOLEAN, NEW m \in Nat, NEW buf, Holds(buf, m), buf[0] = NUL
  PROVE  Keeps(Mem(a, buf, 0, m), <<>>, TRUE)
<1> DEFINE r == Mem(a, buf, 0, m)
<1>1. r.alloc = a /\ r.buf = buf /\ r.len = 0 /\ r.max = m
  BY Memory
<1>2. <<>> \in Seq(Byte) /\ Len(<<>>) = 0
  OBVIOUS
<1>3. 0 \in 0..m /\ 1..0 = {}
  BY SMT
<1>4. r = Mem(a, buf, 0, m)
  OBVIOUS
<1> HIDE DEF r
<1>5. Keeps(r, <<>>, TRUE)
  BY <1>1, <1>2, <1>3, <1>4 DEF Keeps
<1> QED  BY <1>5 DEF r

\* str_flush stores a NUL and a length.
LEMMA FlushKeeps ==
  ASSUME NEW r, NEW t, NEW e, Keeps(r, t, e)
  PROVE  Keeps([r EXCEPT !.buf = Write(@, 0, <<NUL>>), !.len = 0], <<>>, TRUE)
<1>1. /\ r = Mem(r.alloc, r.buf, r.len, r.max) /\ r.alloc \in BOOLEAN /\ r.max \in Nat
      /\ r.buf \in [0..r.max -> Byte] /\ r.buf[r.max] = NUL
  BY SMT DEF Keeps, Holds
<1> DEFINE b2 == Write(r.buf, 0, <<NUL>>)
<1>2. 0 \in 0..r.max /\ r.max \in 0..r.max
  BY <1>1, SMT
<1>3. b2 \in [0..r.max -> Byte] /\ b2[0] = NUL /\ \A i \in 0..r.max : i # 0 => b2[i] = r.buf[i]
  BY <1>1, <1>2, NulWritten
<1>4. [r EXCEPT !.buf = Write(@, 0, <<NUL>>), !.len = 0] = WithText(r, b2, 0)
  BY Zenon DEF WithText
<1> HIDE DEF b2
<1>5. WithText(r, b2, 0) = Mem(r.alloc, b2, 0, r.max)
  BY <1>1, FieldsStored
<1>6. Holds(b2, r.max)
  BY <1>1, <1>2, <1>3 DEF Holds
<1>7. Keeps(Mem(r.alloc, b2, 0, r.max), <<>>, TRUE)
  BY <1>1, <1>3, <1>6, EmptyKeeps
<1> QED  BY <1>4, <1>5, <1>7

\* The bytes in use are the text, where it is not lost.
LEMMA UsedIs ==
  ASSUME NEW r, NEW t, NEW e, Keeps(r, t, e)
  PROVE  /\ Used(r) \in Seq(Byte) /\ Len(Used(r)) = r.len
         /\ t # Lost => Used(r) = t
<1>1. /\ r.max \in Nat /\ r.len \in 0..r.max /\ r.buf \in [0..r.max -> Byte] /\ r.len \in Nat
  BY SMT DEF Keeps, Holds
<1>2. \A i \in 1..r.len : i - 1 \in 0..r.max
  BY <1>1, SMT
<1>3. Used(r) \in Seq(Byte) /\ Len(Used(r)) = r.len
  <2>1. \A i \in 1..r.len : r.buf[i - 1] \in Byte
    BY <1>1, <1>2
  <2> QED  BY <1>1, <2>1 DEF Used
<1>4. ASSUME t # Lost PROVE Used(r) = t
  <2>1. t \in Seq(Byte) /\ Len(t) = r.len /\ \A i \in 1..r.len : r.buf[i - 1] = t[i]
    BY <1>4 DEF Keeps
  <2>2. \A i \in 1..r.len : Used(r)[i] = t[i]
    BY <2>1 DEF Used
  <2> QED  BY <1>3, <2>1, <2>2, SeqEqual
<1> QED  BY <1>3, <1>4

\* A string that holds a text goes on doing so if its text is no longer asked for.
LEMMA LostKeeps ==
  ASSUME NEW r, NEW t, NEW e, Keeps(r, t, e)
  PROVE  Keeps(r, Lost, e)
BY DEF Keeps

\* str_merge: what is appended to the primary, resized if it must, is the text of the
\* secondary.
LEMMA MergeKeeps ==
  ASSUME NEW r, NEW t, NEW e, Keeps(r, t, e), NEW r2, NEW t2, NEW e2, Keeps(r2, t2, e2),
         NEW target, target = r.len + r2.len, NEW wide,
         wide = IF target > r.max THEN Resized(r, target) ELSE r
  PROVE  Keeps(Copied(wide, TRUE, Used(r2)),
               IF t2 = Lost THEN Lost ELSE After(t, TRUE, t2, target), TRUE)
<1>1. r.max \in Nat /\ r.len \in 0..r.max /\ r2.len \in Nat /\ r.len \in Nat
  BY SMT DEF Keeps
<1>2. target \in Nat /\ r.len <= target
  BY <1>1, SMT
<1>3. \E e3 : Keeps(wide, t, e3) /\ wide.max \in Nat /\ target <= wide.max
  <2>1. CASE target > r.max
    <3>1. wide = Resized(r, target)
      BY <2>1
    <3>2. Keeps(Resized(r, target), Cut(t, target), e \/ target <= r.len) /\ Resized(r, target).max = target
      BY <1>2, ResizeKeeps
    <3>3. Cut(t, target) = t
      <4>1. CASE t = Lost
        BY <4>1 DEF Cut
      <4>2. CASE t # Lost
        <5>1. Len(t) <= target
          BY <1>2, <4>2 DEF Keeps
        <5> QED  BY <5>1 DEF Cut
      <4> QED  BY <4>1, <4>2
    <3>4. target <= target
      BY <1>2, SMT
    <3> QED  BY <1>2, <3>1, <3>2, <3>3, <3>4
  <2>2. CASE ~(target > r.max)
    <3>1. wide = r
      BY <2>2
    <3>2. target <= r.max
      BY <1>1, <1>2, <2>2, SMT
    <3> QED  BY <1>1, <3>1, <3>2
  <2> QED  BY <2>1, <2>2
<1>4. PICK e3 : Keeps(wide, t, e3) /\ wide.max \in Nat /\ target <= wide.max
  BY <1>3
<1>5. Used(r2) \in Seq(Byte) /\ Len(Used(r2)) = r2.len /\ (t2 # Lost => Used(r2) = t2)
  BY UsedIs
<1> DEFINE r3 == Copied(wide, TRUE, Used(r2))
<1>6. Keeps(r3, After(t, TRUE, Used(r2), wide.max), TRUE)
  BY <1>4, <1>5, CopyKeeps
<1> HIDE DEF r3
<1>7. CASE t2 = Lost
  <2>1. Keeps(r3, Lost, TRUE)
    BY <1>6, LostKeeps
  <2> QED  BY <1>7, <2>1 DEF r3
<1>8. CASE t2 # Lost
  <2>1. Used(r2) = t2 /\ t2 \in Seq(Byte) /\ Len(t2) = r2.len
    BY <1>5, <1>8
  <2>2. After(t, TRUE, t2, wide.max) = After(t, TRUE, t2, target)
    <3>1. CASE t = Lost
      BY <3>1 DEF After
    <3>2. CASE t # Lost
      <4>1. t \in Seq(Byte) /\ Len(t) = r.len
        BY <3>2 DEF Keeps
      <4> DEFINE full == t \o t2
      <4>2. Len(full) = target
        <5>1. Len(full) = Len(t) + Len(t2)
          BY <2>1, <4>1, ConcatProperties
        <5> QED  BY <2>1, <4>1, <5>1
      <4>3. After(t, TRUE, t2, wide.max) = Cut(full, wide.max) /\ After(t, TRUE, t2, target) = Cut(full, target)
        BY <3>2, Zenon DEF After
      <4> HIDE DEF full
      <4>4. Len(full) <= wide.max /\ Len(full) <= target
        BY <1>2, <1>4, <4>2, SMT
      <4>5. Cut(full, wide.max) = full /\ Cut(full, target) = full
        BY <4>4, Zenon DEF Cut
      <4> QED  BY <4>3, <4>5
    <3> QED  BY <3>1, <3>2
  <2> QED  BY <1>6, <1>8, <2>1, <2>2 DEF r3
<1> QED  BY <1>7, <1>8

\* A live string holds its text.
LEMMA LiveKeeps ==
  ASSUME StrInv, NEW s \in Strings, Live(s) \/ str[s].alloc
  PROVE  Keeps(str[s], text[s], ended[s])
<1>1. Dead.buf = <<>> /\ Dead.alloc = FALSE
  BY DEF Dead
<1> QED  BY <1>1, Zenon DEF StrInv, Live

\* One string is stored and the others are left alone.
LEMMA SetKeeps ==
  ASSUME StrInv, NEW s \in Strings, NEW r, NEW t, NEW e, Set(s, r, t, e),
         (r = Dead /\ t = <<>>) \/ Keeps(r, t, e)
  PROVE  StrInv'
<1>1. str' = [str EXCEPT ![s] = r] /\ text' = [text EXCEPT ![s] = t] /\ ended' = [ended EXCEPT ![s] = e]
  BY DEF Set
<1>2. DOMAIN str' = Strings /\ DOMAIN text' = Strings /\ DOMAIN ended' = Strings
  BY <1>1 DEF StrInv
<1>3. str'[s] = r /\ text'[s] = t /\ ended'[s] = e
  BY <1>1 DEF StrInv
<1>4. \A x \in Strings : x # s => str'[x] = str[x] /\ text'[x] = text[x] /\ ended'[x] = ended[x]
  BY <1>1 DEF StrInv
<1>5. ASSUME NEW x \in Strings
      PROVE  (str'[x] = Dead /\ text'[x] = <<>>) \/ Keeps(str'[x], text'[x], ended'[x])
  <2>1. CASE x = s
    BY <1>3, <2>1
  <2>2. CASE x # s
    BY <1>4, <2>2 DEF StrInv
  <2> QED  BY <2>1, <2>2
<1> QED  BY <1>2, <1>5 DEF StrInv

\* Every call keeps the invariant.
LEMMA StrStep == StrInv /\ [StrNext]_strVars => StrInv'
<1> SUFFICES ASSUME StrInv, [StrNext]_strVars PROVE StrInv'
  OBVIOUS
<1> USE TextAssumption
<1>1. CASE UNCHANGED strVars
  <2>1. str' = str /\ text' = text /\ ended' = ended
    BY <1>1 DEF strVars
  <2> QED  BY <2>1, Zenon DEF StrInv
<1>2. ASSUME NEW s \in Strings, Destroy(s) PROVE StrInv'
  BY <1>2, SetKeeps DEF Destroy
<1>3. ASSUME NEW s \in Strings, StrFlush(s) PROVE StrInv'
  <2>1. Keeps(str[s], text[s], ended[s])
    BY <1>3, LiveKeeps DEF StrFlush
  <2> DEFINE r == [str[s] EXCEPT !.buf = Write(@, 0, <<NUL>>), !.len = 0]
  <2>2. Keeps(r, <<>>, TRUE)
    BY <2>1, FlushKeeps
  <2>3. Set(s, r, <<>>, TRUE)
    BY <1>3, Zenon DEF StrFlush
  <2> HIDE DEF r
  <2> QED  BY <2>2, <2>3, SetKeeps
<1>4. ASSUME NEW s \in Strings, NEW from \in Seq(Byte), NEW n \in Nat, Len(from) = n \/ Len(from) = 0,
             Create(s, from, n)
      PROVE  StrInv'
  <2> DEFINE raw == [i \in 0..n |-> "?"]
             r == [alloc |-> TRUE, buf |-> Write(Write(raw, 0, from), n, <<NUL>>), len |-> Len(from), max |-> n]
             e == from # <<>> \/ n = 0
  <2>1. Keeps(r, from, e)
    BY <1>4, CreateKeeps
  <2>2. Set(s, r, from, e)
    BY <1>4, Zenon DEF Create
  <2> HIDE DEF r, e
  <2> QED  BY <2>1, <2>2, SetKeeps
<1>5. ASSUME NEW s \in Strings, NEW t \in Strings, Clone(s, t) PROVE StrInv'
  <2>1. Keeps(str[t], text[t], ended[t])
    BY <1>5, LiveKeeps DEF Clone
  <2>2. Used(str[t]) \in Seq(Byte) /\ Len(Used(str[t])) = str[t].len
    BY <2>1, UsedIs
  <2>3. str[t].len \in Nat
    BY <2>1, SMT DEF Keeps
  <2>4. Create(s, Used(str[t]), str[t].len)
    BY <1>5 DEF Clone
  <2> QED  BY <1>4, <2>2, <2>3, <2>4
<1>6. ASSUME NEW s \in Strings, NEW t \in Strings, Merge(s, t) PROVE StrInv'
  <2> DEFINE target == str[s].len + str[t].len
             wide == IF target > str[s].max THEN Resized(str[s], target) ELSE str[s]
             r == Copied(wide, TRUE, Used(str[t]))
             w == IF text[t] = Lost THEN Lost ELSE After(text[s], TRUE, text[t], target)
  <2>1. Keeps(str[s], text[s], ended[s]) /\ Keeps(str[t], text[t], ended[t]) /\ s # t
    BY <1>6, LiveKeeps DEF Merge
  <2>2. Keeps(r, w, TRUE)
    BY <2>1, MergeKeeps
  <2>3. /\ str' = [str EXCEPT ![s] = r, ![t] = Dead]
        /\ text' = [text EXCEPT ![s] = w, ![t] = <<>>]
        /\ ended' = [ended EXCEPT ![s] = TRUE, ![t] = FALSE]
    BY <1>6, Zenon DEF Merge
  <2> HIDE DEF r, w
  <2>4. DOMAIN str' = Strings /\ DOMAIN text' = Strings /\ DOMAIN ended' = Strings
    BY <2>3 DEF StrInv
  <2>5. str'[s] = r /\ text'[s] = w /\ ended'[s] = TRUE
    BY <2>1, <2>3 DEF StrInv
  <2>6. str'[t] = Dead /\ text'[t] = <<>>
    BY <2>3 DEF StrInv
  <2>7. \A x \in Strings : x # s /\ x # t => str'[x] = str[x] /\ text'[x] = text[x] /\ ended'[x] = ended[x]
    BY <2>3 DEF StrInv
  <2>8. ASSUME NEW x \in Strings
        PROVE  (str'[x] = Dead /\ text'[x] = <<>>) \/ Keeps(str'[x], text'[x], ended'[x])
    <3>1. CASE x = s
      BY <2>2, <2>5, <3>1
    <3>2. CASE x = t
      BY <2>6, <3>2
    <3>3. CASE x # s /\ x # t
      BY <2>7, <3>3 DEF StrInv
    <3> QED  BY <3>1, <3>2, <3>3
  <2> QED  BY <2>4, <2>8 DEF StrInv
<1>7. ASSUME NEW s \in Strings, NEW n \in 0..MaxLen PROVE n \in Nat
  BY SMT
<1>8. ASSUME NEW s \in Strings, NEW n \in Nat, Define(s, n) PROVE StrInv'
  <2> DEFINE buf == [i \in 0..n |-> NUL]
             r == [alloc |-> FALSE, buf |-> buf, len |-> 0, max |-> n]
  <2>1. 0 \in 0..n /\ n \in 0..n
    BY SMT
  <2>2. Holds(buf, n) /\ buf[0] = NUL
    BY <2>1 DEF Holds, Byte
  <2>3. r = Mem(FALSE, buf, 0, n)
    BY DEF Mem
  <2>4. Set(s, r, <<>>, TRUE)
    BY <1>8, Zenon DEF Define
  <2> HIDE DEF buf, r
  <2>5. Keeps(r, <<>>, TRUE)
    BY <2>2, <2>3, EmptyKeeps
  <2> QED  BY <2>4, <2>5, SetKeeps
<1>9. ASSUME NEW s \in Strings, NEW n \in Nat, Resize(s, n) PROVE StrInv'
  <2>1. Keeps(str[s], text[s], ended[s])
    BY <1>9, LiveKeeps DEF Resize
  <2>2. Keeps(Resized(str[s], n), Cut(text[s], n), ended[s] \/ n <= str[s].len)
    BY <2>1, ResizeKeeps
  <2>3. Set(s, Resized(str[s], n), Cut(text[s], n), ended[s] \/ n <= str[s].len)
    BY <1>9, Zenon DEF Resize
  <2> QED  BY <2>2, <2>3, SetKeeps
<1>10. ASSUME NEW s \in Strings, NEW n \in Nat, NEW append \in BOOLEAN, NEW fill \in BOOLEAN,
              Copy(s, append, fill, n)
       PROVE  StrInv'
  <2>1. Keeps(str[s], text[s], ended[s])
    BY <1>10, LiveKeeps DEF Copy
  <2>2. Bytes("x", n) \in Seq(Byte)
    BY BytesAre DEF Byte
  <2>3. Keeps(Copied(str[s], append, Bytes("x", n)), After(text[s], append, Bytes("x", n), str[s].max), TRUE)
    BY <2>1, <2>2, CopyKeeps
  <2>4. Set(s, Copied(str[s], append, Bytes("x", n)),
            After(text[s], append, Bytes("x", n), str[s].max), TRUE)
    BY <1>10, Zenon DEF Copy
  <2> QED  BY <2>3, <2>4, SetKeeps
<1>11. ASSUME NEW s \in Strings, NEW n \in Nat, NEW append \in BOOLEAN, Printf(s, append, n)
       PROVE  StrInv'
  <2> DEFINE r == str[s]
             start == IF append THEN r.len ELSE 0
             room == r.max - start
             out == IF room = 0 THEN <<>> ELSE Bytes("y", Min({n, room - 1})) \o <<NUL>>
             buf == Write(r.buf, start, out)
             kept == IF append THEN text[s] ELSE <<>>
             short == [r EXCEPT !.buf = buf]
             fits == [r EXCEPT !.len = start + n, !.buf = Write(buf, start + n, <<NUL>>)]
  <2>1. Keeps(r, text[s], ended[s])
    BY <1>11, LiveKeeps DEF Printf
  <2>2. r.max \in Nat /\ r.len \in 0..r.max /\ r.len \in Nat
    BY <2>1, SMT DEF Keeps
  <2>3. start \in 0..r.max /\ (append => start = r.len)
    <3> HIDE DEF r
    <3> QED  BY <2>2, SMT
  <2>4. Vsnprintf(r, start, n, buf)
    <3> HIDE DEF r, start
    <3> QED  BY <2>1, <2>3, PrintStores
  <2>5. \/ /\ start + n >= r.max
           /\ Set(s, short, IF append \/ room = 0 THEN text[s] ELSE Lost, FALSE)
        \/ /\ start + n < r.max
           /\ Set(s, fits, IF kept = Lost THEN Lost ELSE kept \o Bytes("y", n), TRUE)
    BY <1>11, Zenon DEF Printf
  <2>6. kept = Lost \/ (kept \in Seq(Byte) /\ Len(kept) = start /\ \A i \in 1..start : r.buf[i - 1] = kept[i])
    <3>1. CASE append
      BY <2>1, <3>1 DEF Keeps
    <3>2. CASE ~append
      <4>1. 1..0 = {} /\ <<>> \in Seq(Byte) /\ Len(<<>>) = 0
        BY SMT
      <4> QED  BY <3>2, <4>1
    <3> QED  BY <3>1, <3>2
  <2>7. room = 0 <=> start = r.max
    <3> HIDE DEF r, start
    <3> QED  BY <2>2, <2>3, SMT
  <2> HIDE DEF buf, start, room, kept, r
  <2>8. CASE /\ start + n >= r.max
             /\ Set(s, short, IF append \/ room = 0 THEN text[s] ELSE Lost, FALSE)
    <3>1. Keeps(short, IF append \/ start = r.max THEN text[s] ELSE Lost, FALSE)
      BY <2>1, <2>3, <2>4, PrintFails
    <3> HIDE DEF short
    <3> QED  BY <2>7, <2>8, <3>1, SetKeeps
  <2>9. CASE /\ start + n < r.max
             /\ Set(s, fits, IF kept = Lost THEN Lost ELSE kept \o Bytes("y", n), TRUE)
    <3>1. Keeps(fits, IF kept = Lost THEN Lost ELSE kept \o Bytes("y", n), TRUE)
      BY <2>1, <2>4, <2>6, <2>9, PrintFits
    <3> HIDE DEF fits
    <3> QED  BY <2>9, <3>1, SetKeeps
  <2> QED  BY <2>5, <2>8, <2>9
<1>12. ASSUME NEW n \in Nat
       PROVE  /\ Bytes("x", n) \in Seq(Byte) /\ Len(Bytes("x", n)) = n
              /\ <<>> \in Seq(Byte) /\ Len(<<>>) = 0
  BY BytesAre DEF Byte
<1>13. \/ \E s \in Strings : Destroy(s) \/ StrFlush(s) \/ \E t \in Strings : Clone(s, t) \/ Merge(s, t)
       \/ \E s \in Strings, n \in 0..MaxLen :
            \/ Define(s, n) \/ Create(s, Bytes("x", n), n) \/ Create(s, <<>>, n) \/ Resize(s, n)
            \/ \E append \in BOOLEAN : Printf(s, append, n) \/ \E fill \in BOOLEAN : Copy(s, append, fill, n)
       \/ UNCHANGED strVars
  BY Zenon DEF StrNext
<1>14. CASE \E s \in Strings : Destroy(s) \/ StrFlush(s) \/ \E t \in Strings : Clone(s, t) \/ Merge(s, t)
  BY <1>14, <1>2, <1>3, <1>5, <1>6, Zenon
<1>15. ASSUME NEW s \in Strings, NEW n \in 0..MaxLen,
              \/ Define(s, n) \/ Create(s, Bytes("x", n), n) \/ Create(s, <<>>, n) \/ Resize(s, n)
              \/ \E append \in BOOLEAN : Printf(s, append, n) \/ \E fill \in BOOLEAN : Copy(s, append, fill, n)
       PROVE  StrInv'
  <2>1. n \in Nat
    BY <1>7
  <2>2. CASE Create(s, Bytes("x", n), n)
    BY <1>4, <1>12, <2>1, <2>2
  <2>3. CASE Create(s, <<>>, n)
    BY <1>4, <1>12, <2>1, <2>3
  <2> QED  BY <1>8, <1>9, <1>10, <1>11, <1>15, <2>1, <2>2, <2>3, Zenon
<1> QED  BY <1>1, <1>13, <1>14, <1>15, Zenon

LEMMA StrInitially == StrInit => StrInv
BY DEF StrInit, StrInv

\* strlib.c: no call, failed or not, writes beyond the buffer of a string.
THEOREM StrTypeCorrect == StrSpec => []StrTypeOK
<1>1. StrInv => StrTypeOK
  <2> SUFFICES ASSUME StrInv, NEW s \in Strings
               PROVE  /\ str[s].alloc \in BOOLEAN /\ str[s].max \in Nat /\ str[s].len \in 0..str[s].max
                      /\ Live(s) => DOMAIN str[s].buf = 0..str[s].max
    BY DEF StrTypeOK
  <2>1. CASE str[s] = Dead
    <3>1. Dead.alloc = FALSE /\ Dead.max = 0 /\ Dead.len = 0 /\ Dead.buf = <<>>
      BY DEF Dead
    <3>2. 0 \in 0..0 /\ 0 \in Nat
      BY SMT
    <3> QED  BY <2>1, <3>1, <3>2 DEF Live
  <2>2. CASE Keeps(str[s], text[s], ended[s])
    BY <2>2 DEF Keeps, Holds
  <2> QED  BY <2>1, <2>2 DEF StrInv
<1> QED  BY <1>1, StrInitially, StrStep, PTL DEF StrSpec

\* strlib.c: through failures, truncation, resizing and merging a string keeps exactly the
\* text that the successful calls gave it, and its buffer always ends with a NUL.
THEOREM StringKeepsText == StrSpec => []TextKept
<1>1. StrInv => TextKept
  <2> SUFFICES ASSUME StrInv, NEW s \in Strings
               PROVE  /\ text[s] # Lost => Used(str[s]) = text[s]
                      /\ Live(s) => Terminated(s)
    BY DEF TextKept
  <2>1. CASE str[s] = Dead /\ text[s] = <<>>
    <3>1. Dead.len = 0 /\ Dead.buf = <<>>
      BY DEF Dead
    <3>2. 1..0 = {}
      BY SMT
    <3>3. Used(Dead) = [i \in 1..0 |-> Dead.buf[i - 1]]
      BY <3>1, Zenon DEF Used
    <3>4. Used(Dead) \in Seq({}) /\ Len(Used(Dead)) = 0
      BY <3>2, <3>3
    <3>5. Used(Dead) = <<>>
      BY <3>4, EmptySeq
    <3> QED  BY <2>1, <3>1, <3>5 DEF Live
  <2>2. CASE Keeps(str[s], text[s], ended[s])
    <3>1. text[s] # Lost => Used(str[s]) = text[s]
      BY <2>2, UsedIs
    <3>2. Terminated(s)
      BY <2>2 DEF Keeps, Holds, Terminated
    <3> QED  BY <3>1, <3>2
  <2> QED  BY <2>1, <2>2 DEF StrInv
<1> QED  BY <1>1, StrInitially, StrStep, PTL DEF StrSpec

-----------------------------------------------------------------------------
(* logger.c: a line is what fits of prefix and message, and a newline. *)

Glyph == {"p", "m", "n"}

\* A buffer that holds the first n characters of a text and NULs after them.
Shows(buf, t, n) ==
  /\ DOMAIN buf = 0..(LineMax + 1)
  /\ n \in Nat /\ n < LineMax /\ n <= Len(t)
  /\ \A i \in 0..(LineMax + 1) : buf[i] = IF i < n THEN t[i + 1] ELSE "0"

Fitting(n) == IF n <= LineMax - 1 THEN n ELSE LineMax - 1

\* snprintf after a text that fits, with the room it leaves.
LEMMA PrintShows ==
  ASSUME NEW t \in Seq(Glyph), NEW u \in Seq(Glyph), NEW buf, Shows(buf, t, Len(t))
  PROVE  Shows(Printed(buf, Len(t), LineMax - Len(t), u), t \o u, Fitting(Len(t) + Len(u)))
<1> USE LogAssumption
<1> DEFINE at == Len(t)
           lu == Len(u)
           room == LineMax - at
           n == Min({lu, room - 1})
           end == at + n
           b2 == Printed(buf, at, room, u)
           tu == t \o u
<1>1. at \in Nat /\ lu \in Nat /\ at < LineMax /\ DOMAIN buf = 0..(LineMax + 1)
  BY DEF Shows
<1>2. /\ tu \in Seq(Glyph) /\ Len(tu) = at + lu
      /\ \A i \in 1..(at + lu) : tu[i] = IF i <= at THEN t[i] ELSE u[i - at]
  BY ConcatProperties
<1>3. \A i \in 0..(LineMax + 1) : buf[i] = IF i < at THEN t[i + 1] ELSE "0"
  BY DEF Shows
<1>4. b2 = IF room <= 0 THEN buf
           ELSE [i \in DOMAIN buf \cup at..end |->
                   IF i \notin at..end THEN buf[i] ELSE IF i = end THEN "0" ELSE u[i - at + 1]]
  BY Zenon DEF Printed
<1> HIDE DEF at, lu, tu, b2
<1>5. room - 1 \in Nat /\ ~(room <= 0) /\ LineMax \in Nat
  BY <1>1, SMT
<1>6. n = IF lu <= room - 1 THEN lu ELSE room - 1
  <2> HIDE DEF room
  <2> QED  BY <1>1, <1>5, MinTwo
<1> HIDE DEF n
<1>7. n \in Nat /\ n <= lu /\ end \in Nat /\ end < LineMax /\ end = Fitting(at + lu) /\ at <= end /\ end <= at + lu
  BY <1>1, <1>5, <1>6, SMT DEF Fitting
<1>8. \A i \in at..end : i = end \/ (i - at + 1 = (i + 1) - at /\ i + 1 \in 1..(at + lu) /\ ~(i + 1 <= at) /\ i < end)
  BY <1>1, <1>7, SMT
<1>9. \A i \in 0..(LineMax + 1) :
         /\ (i \notin at..end => (i < end <=> i < at) /\ (i < at => i + 1 \in 1..(at + lu) /\ i + 1 <= at))
         /\ (i = end => ~(i < end))
  BY <1>1, <1>5, <1>7, SMT
<1>10. at..end \subseteq 0..(LineMax + 1)
  BY <1>1, <1>5, <1>7, SMT
<1> HIDE DEF end, room
<1>11. b2 = [i \in 0..(LineMax + 1) |-> IF i \notin at..end THEN buf[i] ELSE IF i = end THEN "0" ELSE u[i - at + 1]]
  BY <1>1, <1>4, <1>5, <1>10
<1>12. ASSUME NEW i \in 0..(LineMax + 1) PROVE b2[i] = IF i < end THEN tu[i + 1] ELSE "0"
  <2>1. CASE i \notin at..end
    <3>1. b2[i] = buf[i]
      BY <1>11, <2>1
    <3>2. CASE i < at
      <4>1. tu[i + 1] = t[i + 1] /\ i < end
        BY <1>2, <1>9, <2>1, <3>2
      <4> QED  BY <1>3, <3>1, <3>2, <4>1
    <3>3. CASE ~(i < at)
      <4>1. ~(i < end)
        BY <1>9, <2>1, <3>3
      <4> QED  BY <1>3, <3>1, <3>3, <4>1
    <3> QED  BY <3>2, <3>3
  <2>2. CASE i = end
    <3>1. i \in at..end /\ ~(i < end)
      BY <1>1, <1>7, <2>2, SMT
    <3> QED  BY <1>11, <2>2, <3>1
  <2>3. CASE i \in at..end /\ i # end
    <3>1. i - at + 1 = (i + 1) - at /\ i + 1 \in 1..(at + lu) /\ ~(i + 1 <= at) /\ i < end
      BY <1>8, <2>3
    <3>2. tu[i + 1] = u[(i + 1) - at]
      <4> DEFINE j == i + 1
      <4>1. j \in 1..(at + lu) /\ ~(j <= at)
        BY <3>1
      <4> HIDE DEF j
      <4>2. tu[j] = u[j - at]
        BY <1>2, <4>1
      <4> QED  BY <4>2 DEF j
    <3>3. tu[i + 1] = u[i - at + 1]
      BY <3>1, <3>2, Zenon
    <3> QED  BY <1>11, <2>3, <3>1, <3>3
  <2> QED  BY <2>1, <2>2, <2>3
<1>13. DOMAIN b2 = 0..(LineMax + 1)
  BY <1>11
<1>14. Shows(b2, tu, end)
  BY <1>2, <1>7, <1>12, <1>13 DEF Shows
<1> QED  BY <1>7, <1>14 DEF b2, tu, end, at, lu, room

\* An empty line shows an empty text.
LEMMA BlankShows == Shows(Buffer, <<>>, 0)
<1>1. \A i \in 0..(LineMax + 1) : ~(i < 0)
  BY LogAssumption, SMT
<1>2. 0 \in Nat /\ 0 < LineMax /\ 0 <= Len(<<>>)
  BY LogAssumption, SMT
<1> QED  BY <1>1, <1>2 DEF Shows, Buffer

\* What snprintf and vsnprintf leave of a prefix and a message: the part of them that
\* fits, whichever of the two it ends in.
LEMMA FormatShows ==
  ASSUME NEW prefix \in Seq(Glyph), NEW msg \in Seq(Glyph),
         NEW buf, buf = Buffer \/ buf = Printed(Buffer, 0, LineMax, prefix),
         buf = Buffer => prefix = <<>>
  PROVE  Shows(IF Len(prefix) > LineMax THEN buf
               ELSE Printed(buf, Len(prefix), LineMax - Len(prefix), msg),
               prefix \o msg, Fitting(Len(prefix) + Len(msg)))
<1> USE LogAssumption
<1> DEFINE at == Len(prefix)
           lm == Len(msg)
           all == prefix \o msg
           last == IF at > LineMax THEN buf ELSE Printed(buf, at, LineMax - at, msg)
<1>1. at \in Nat /\ lm \in Nat
  OBVIOUS
<1>2. /\ all \in Seq(Glyph) /\ Len(all) = at + lm
      /\ \A i \in 1..(at + lm) : all[i] = IF i <= at THEN prefix[i] ELSE msg[i - at]
  BY ConcatProperties
<1>3. Shows(buf, prefix, Fitting(at))
  <2>1. CASE buf = Buffer
    <3>1. prefix = <<>> /\ at = 0 /\ Fitting(0) = 0
      BY <2>1, SMT DEF Fitting
    <3>2. Shows(buf, prefix, 0)
      BY <2>1, <3>1, BlankShows
    <3> QED  BY <3>1, <3>2
  <2>2. CASE buf = Printed(Buffer, 0, LineMax, prefix)
    <3>1. <<>> \in Seq(Glyph) /\ Len(<<>>) = 0 /\ LineMax - 0 = LineMax /\ 0 + at = at
      BY <1>1, SMT
    <3>2. <<>> \o prefix = prefix
      BY ConcatEmptySeq
    <3>3. Shows(Buffer, <<>>, Len(<<>>))
      BY <3>1, BlankShows
    <3>4. Shows(Printed(Buffer, Len(<<>>), LineMax - Len(<<>>), prefix), <<>> \o prefix, Fitting(Len(<<>>) + at))
      BY <3>1, <3>3, PrintShows
    <3> QED  BY <2>2, <3>1, <3>2, <3>4
  <2> QED  BY <2>1, <2>2
<1> HIDE DEF last
<1>4. CASE at < LineMax
  <2>1. Fitting(at) = at /\ ~(at > LineMax)
    BY <1>1, <1>4, SMT DEF Fitting
  <2>2. Shows(buf, prefix, at)
    BY <1>3, <2>1
  <2>3. last = Printed(buf, at, LineMax - at, msg)
    BY <2>1, Zenon DEF last
  <2> QED  BY <2>2, <2>3, PrintShows DEF last
<1>5. CASE ~(at < LineMax)
  <2> DEFINE n == LineMax - 1
  <2>1. Fitting(at) = n /\ Fitting(at + lm) = n /\ n \in Nat /\ n < at /\ n < LineMax /\ n <= at + lm
    BY <1>1, <1>5, SMT DEF Fitting
  <2>2. last = buf
    <3>1. CASE at > LineMax
      BY <3>1 DEF last
    <3>2. CASE ~(at > LineMax)
      <4>1. LineMax - at <= 0
        BY <1>1, <1>5, <3>2, SMT
      <4>2. Printed(buf, at, LineMax - at, msg) = buf
        BY <4>1, Zenon DEF Printed
      <4> QED  BY <3>2, <4>2 DEF last
    <3> QED  BY <3>1, <3>2
  <2>3. DOMAIN buf = 0..(LineMax + 1) /\ \A i \in 0..(LineMax + 1) : buf[i] = IF i < n THEN prefix[i + 1] ELSE "0"
    BY <1>3, <2>1 DEF Shows
  <2>4. \A i \in 0..(LineMax + 1) : i < n => i + 1 \in 1..(at + lm) /\ i + 1 <= at
    BY <1>1, <2>1, SMT
  <2> HIDE DEF n, at, lm, all
  <2>5. \A i \in 0..(LineMax + 1) : i < n => all[i + 1] = prefix[i + 1]
    BY <1>2, <2>4
  <2>6. \A i \in 0..(LineMax + 1) : buf[i] = IF i < n THEN all[i + 1] ELSE "0"
    BY <2>3, <2>5
  <2>7. Shows(buf, all, n)
    BY <1>2, <2>1, <2>3, <2>6 DEF Shows
  <2> QED  BY <2>1, <2>2, <2>7 DEF last, at, lm, all
<1> QED  BY <1>4, <1>5 DEF last

\* The last of a set of numbers, and the first.
LEMMA LastOf == ASSUME NEW S, NEW k \in S, \A i \in S : i \in Int /\ i <= k, k \in Int
                PROVE  Max(S) = k
<1>1. \A x \in S : (\A y \in S : x >= y) <=> x = k
  BY SMT
<1> QED  BY <1>1 DEF Max

LEMMA FirstOf == ASSUME NEW S, NEW k \in S, \A i \in S : i \in Int /\ k <= i, k \in Int
                 PROVE  Min(S) = k
<1>1. \A x \in S : (\A y \in S : x =< y) <=> x = k
  BY SMT
<1> QED  BY <1>1 DEF Min

\* terminate_log_line finds the last character that was printed, and closes the line.
LEMMA LineShown ==
  ASSUME NEW t \in Seq(Glyph), NEW buf, NEW n \in Nat, n # 0, Shows(buf, t, n), NEW wanted \in n..LineMax
  PROVE  /\ DOMAIN Terminate(buf, wanted).buf = 0..(LineMax + 1)
         /\ Text(Terminate(buf, wanted).buf) =
              IF Last(SubSeq(t, 1, n)) = "n" THEN SubSeq(t, 1, n) ELSE Append(SubSeq(t, 1, n), "n")
         /\ Terminate(buf, wanted).len = Len(Text(Terminate(buf, wanted).buf))
<1> USE LogAssumption
<1> DEFINE k == Max({0} \cup {i \in 0..(wanted - 1) : buf[i] # "0"})
           end == IF buf[k] = "n" THEN k ELSE k + 1
           b2 == WithNewline(buf, end)
           fits == SubSeq(t, 1, n)
           T == Terminate(buf, wanted)
<1>1. /\ n <= LineMax - 1 /\ n <= Len(t) /\ n - 1 \in Nat /\ LineMax \in Nat
      /\ wanted \in Nat /\ n <= wanted /\ wanted <= LineMax
      /\ DOMAIN buf = 0..(LineMax + 1)
      /\ \A i \in 0..(LineMax + 1) : buf[i] = IF i < n THEN t[i + 1] ELSE "0"
  BY SMT DEF Shows
<1>2. T.buf = b2 /\ T.len = end + 1
  <2>1. T = [buf |-> b2, len |-> end + 1]
    BY Zenon DEF Terminate
  <2> HIDE DEF T, b2, end
  <2> QED  BY <2>1
<1> HIDE DEF T
<1>3. \A i \in 1..n : t[i] \in Glyph /\ t[i] # "0"
  <2>1. \A i \in 1..n : i \in 1..Len(t)
    BY <1>1, SMT
  <2>2. \A i \in 1..n : t[i] \in Glyph
    BY <2>1, ElementOfSeq
  <2> QED  BY <2>2 DEF Glyph
<1>4. \A i \in 0..(n - 1) : i \in 0..(LineMax + 1) /\ i + 1 \in 1..n /\ i < n
  BY <1>1, SMT
<1>5. \A i \in 0..(n - 1) : buf[i] = t[i + 1] /\ buf[i] # "0"
  BY <1>1, <1>3, <1>4
<1>6. k = n - 1
  <2> DEFINE S == {0} \cup {i \in 0..(wanted - 1) : buf[i] # "0"}
  <2>1. n - 1 \in 0..(wanted - 1) /\ n - 1 \in 0..(n - 1) /\ n - 1 \in Int
    BY <1>1, SMT
  <2>2. n - 1 \in S
    BY <1>5, <2>1
  <2>3. ASSUME NEW i \in S PROVE i \in Int /\ i <= n - 1
    <3>1. CASE i = 0
      BY <1>1, <3>1, SMT
    <3>2. CASE i \in 0..(wanted - 1) /\ buf[i] # "0"
      <4>1. i \in 0..(LineMax + 1) /\ i \in Int
        BY <1>1, <3>2, SMT
      <4>2. i < n
        BY <1>1, <3>2, <4>1
      <4> QED  BY <1>1, <4>1, <4>2, SMT
    <3> QED  BY <3>1, <3>2
  <2> HIDE DEF S
  <2>4. Max(S) = n - 1
    BY <2>1, <2>2, <2>3, LastOf
  <2> QED  BY <2>4 DEF S
<1> HIDE DEF k
<1>7. buf[k] = t[n]
  <2>1. n - 1 \in 0..(n - 1) /\ n - 1 + 1 = n
    BY <1>1, SMT
  <2> QED  BY <1>5, <1>6, <2>1
<1>8. end = (IF t[n] = "n" THEN n - 1 ELSE n) /\ end \in 0..n
  BY <1>1, <1>6, <1>7, SMT
<1> HIDE DEF end
<1>9. end \in Nat /\ {end, end + 1} \subseteq 0..(LineMax + 1) /\ end + 1 \in Nat
  BY <1>1, <1>8, SMT
<1>10. b2 = [i \in 0..(LineMax + 1) |-> IF i = end THEN "n" ELSE IF i = end + 1 THEN "0" ELSE buf[i]]
  <2>1. DOMAIN buf \cup {end, end + 1} = 0..(LineMax + 1)
    BY <1>1, <1>9
  <2> QED  BY <2>1 DEF WithNewline
<1> HIDE DEF b2
<1>11. \A i \in 0..end : b2[i] = IF i = end THEN "n" ELSE t[i + 1]
  <2>1. \A i \in 0..end : i # end => i \in 0..(n - 1) /\ i # end + 1 /\ i \in 0..(LineMax + 1)
    BY <1>1, <1>8, <1>9, SMT
  <2>2. end \in 0..(LineMax + 1)
    BY <1>9
  <2> QED  BY <1>5, <1>10, <2>1, <2>2
<1>12. b2[end + 1] = "0"
  <2>1. end + 1 # end /\ end + 1 \in 0..(LineMax + 1)
    BY <1>9, SMT
  <2> QED  BY <1>10, <2>1
<1>13. Min({i \in DOMAIN b2 : b2[i] = "0"}) = end + 1
  <2> DEFINE S == {i \in DOMAIN b2 : b2[i] = "0"}
  <2>1. DOMAIN b2 = 0..(LineMax + 1)
    BY <1>10
  <2>2. end + 1 \in S /\ end + 1 \in Int
    BY <1>9, <1>12, <2>1
  <2>3. ASSUME NEW i \in S PROVE i \in Int /\ end + 1 <= i
    <3>1. i \in 0..(LineMax + 1) /\ b2[i] = "0"
      BY <2>1
    <3>2. ~(i \in 0..end)
      <4> SUFFICES ASSUME i \in 0..end PROVE FALSE
        OBVIOUS
      <4>1. i # end => i + 1 \in 1..n
        BY <1>8, <1>9, SMT
      <4> QED  BY <1>3, <1>11, <3>1, <4>1
    <3> QED  BY <1>1, <1>9, <3>1, <3>2, SMT
  <2> HIDE DEF S
  <2>4. Min(S) = end + 1
    BY <2>2, <2>3, FirstOf
  <2> QED  BY <2>4 DEF S
<1>14. Text(b2) = [i \in 1..(end + 1) |-> b2[i - 1]]
  BY <1>13, Zenon DEF Text
<1>15. fits \in Seq(Glyph) /\ Len(fits) = n /\ \A i \in 1..n : fits[i] = t[i]
  <2>1. 1 \in 1..(Len(t) + 1) /\ n \in 0..Len(t)
    BY <1>1, SMT
  <2>2. fits = [i \in 1..n |-> t[i]]
    <3>1. fits = [i \in 1..(n - 1 + 1) |-> t[i + 1 - 1]]
      BY <2>1, SMT
    <3>2. n - 1 + 1 = n /\ \A i \in 1..n : i + 1 - 1 = i
      BY SMT
    <3> QED  BY <3>1, <3>2
  <2> QED  BY <1>3, <2>2
<1> HIDE DEF fits
<1>16. Last(fits) = t[n]
  <2>1. n \in 1..n
    BY <1>1, SMT
  <2> QED  BY <1>15, <2>1 DEF Last
<1>17. \A i \in 1..(end + 1) : b2[i - 1] = IF i = end + 1 THEN "n" ELSE t[i]
  <2>1. \A i \in 1..(end + 1) : i - 1 \in 0..end /\ (i - 1 = end <=> i = end + 1) /\ (i - 1) + 1 = i
    BY <1>9, SMT
  <2> QED  BY <1>11, <2>1
<1>18. \A i \in 1..(end + 1) : i # end + 1 => i \in 1..n
  BY <1>8, <1>9, SMT
<1>19. Text(b2) \in Seq(Glyph) /\ Len(Text(b2)) = end + 1
       /\ \A i \in 1..(end + 1) : Text(b2)[i] = IF i = end + 1 THEN "n" ELSE t[i]
  <2>1. \A i \in 1..(end + 1) : b2[i - 1] \in Glyph
    BY <1>3, <1>17, <1>18 DEF Glyph
  <2> QED  BY <1>9, <1>14, <1>17, <2>1
<1>20. CASE t[n] = "n"
  <2>1. end + 1 = n
    BY <1>1, <1>8, <1>20, SMT
  <2>2. \A i \in 1..n : Text(b2)[i] = fits[i]
    BY <1>15, <1>19, <1>20, <2>1
  <2>3. Text(b2) = fits
    BY <1>15, <1>19, <2>1, <2>2, SeqEqual
  <2> QED  BY <1>2, <1>10, <1>16, <1>19, <1>20, <2>3 DEF T, fits
<1>21. CASE t[n] # "n"
  <2> DEFINE whole == Append(fits, "n")
  <2>1. end = n
    BY <1>8, <1>21
  <2>2. "n" \in Glyph
    BY DEF Glyph
  <2>3. whole \in Seq(Glyph) /\ Len(whole) = n + 1 /\ \A i \in 1..(n + 1) : whole[i] = IF i = n + 1 THEN "n" ELSE fits[i]
    <3>1. whole \in Seq(Glyph) /\ Len(whole) = Len(fits) + 1
          /\ (\A i \in 1..Len(fits) : whole[i] = fits[i]) /\ whole[Len(fits) + 1] = "n"
      BY <1>15, <2>2, AppendProperties
    <3>2. \A i \in 1..(n + 1) : i # n + 1 => i \in 1..n
      BY SMT
    <3> HIDE DEF whole
    <3> QED  BY <1>15, <3>1, <3>2
  <2> HIDE DEF whole
  <2>4. \A i \in 1..(n + 1) : i # n + 1 => i \in 1..n
    BY SMT
  <2>5. \A i \in 1..(n + 1) : Text(b2)[i] = whole[i]
    BY <1>15, <1>19, <2>1, <2>3, <2>4
  <2>6. Text(b2) = whole
    BY <1>19, <2>1, <2>3, <2>5, SeqEqual
  <2> QED  BY <1>2, <1>10, <1>16, <1>19, <1>21, <2>6 DEF T, fits, whole
<1> QED  BY <1>20, <1>21

\* An empty message is not read beyond its first byte.
LEMMA BlankLine ==
  ASSUME NEW buf, Shows(buf, <<>>, 0)
  PROVE  DOMAIN Terminate(buf, 0).buf = 0..(LineMax + 1)
<1> DEFINE k == Max({0} \cup {i \in 0..(0 - 1) : buf[i] # "0"})
           end == IF buf[k] = "n" THEN k ELSE k + 1
<1>1. k = 0
  <2>1. {0} \cup {i \in 0..(0 - 1) : buf[i] # "0"} = {0}
    <3>1. 0..(0 - 1) = {}
      BY SMT
    <3> QED  BY <3>1
  <2>2. Max({0}) = 0
    BY LastOf, SMT
  <2> QED  BY <2>1, <2>2
<1>2. end \in {0, 1}
  BY <1>1
<1> HIDE DEF end
<1>3. {end, end + 1} \subseteq 0..(LineMax + 1)
  BY <1>2, LogAssumption, SMT
<1>4. DOMAIN buf = 0..(LineMax + 1)
  BY DEF Shows
<1>5. DOMAIN WithNewline(buf, end) = 0..(LineMax + 1)
  BY <1>3, <1>4 DEF WithNewline
<1>6. Terminate(buf, 0) = [buf |-> WithNewline(buf, end), len |-> end + 1]
  BY Zenon DEF Terminate, end
<1> QED  BY <1>5, <1>6

\* What a logger can be.
Loggers == [sinks : SUBSET Sinks, level : Levels, name : 0..(NameMax - 1)]

LogInv ==
  /\ ctx \in Loggers
  /\ DOMAIN line.buf = 0..(LineMax + 1)
  /\ LineComplete

LEMMA NamesFit == \A n \in 0..MaxText : NameLen(n) \in 0..(NameMax - 1)
<1> SUFFICES ASSUME NEW n \in 0..MaxText PROVE NameLen(n) \in 0..(NameMax - 1)
  OBVIOUS
<1>1. n \in Nat /\ NameMax - 1 \in Nat
  BY LogAssumption, SMT
<1>2. Min({n, NameMax - 1}) = IF n <= NameMax - 1 THEN n ELSE NameMax - 1
  BY <1>1, MinTwo
<1> QED  BY <1>1, <1>2, SMT DEF NameLen

\* Messages and prefixes are texts.
LEMMA MessagesAre == \A msg \in Messages : msg \in Seq(Glyph)
BY LogAssumption, SMT DEF Messages, Glyph

LEMMA PrefixIs ==
  ASSUME NEW n \in Nat
  PROVE  [i \in 1..n |-> "p"] \in Seq(Glyph) /\ Len([i \in 1..n |-> "p"]) = n
BY DEF Glyph

\* A line of a text of at least one character.
LEMMA EmitShows ==
  ASSUME NEW t \in Seq(Glyph), t # <<>>, said' = t, NEW buf, NEW wanted,
         Shows(buf, t, Fitting(Len(t))), wanted \in Nat, Fitting(Len(t)) <= wanted, Emit(buf, wanted)
  PROVE  DOMAIN line'.buf = 0..(LineMax + 1) /\ LineComplete'
<1> DEFINE n == Fitting(Len(t))
           cut == IF wanted > LineMax THEN LineMax ELSE wanted
           T == Terminate(buf, cut)
           fits == SubSeq(t, 1, n)
<1>1. Len(t) \in Nat /\ Len(t) # 0
  BY EmptySeq
<1>2. n \in Nat /\ n # 0 /\ n = (IF Len(t) <= LineMax - 1 THEN Len(t) ELSE LineMax - 1) /\ LineMax - 1 \in Nat
      /\ LineMax \in Nat /\ n <= LineMax
  BY <1>1, LogAssumption, SMT DEF Fitting
<1>3. Min({Len(t), LineMax - 1}) = n
  BY <1>1, <1>2, MinTwo
<1> HIDE DEF n
<1>4. cut \in n..LineMax
  BY <1>2, SMT DEF n
<1> HIDE DEF cut
<1>5. Shows(buf, t, n)
  BY DEF n
<1>6. /\ DOMAIN T.buf = 0..(LineMax + 1)
      /\ Text(T.buf) = IF Last(fits) = "n" THEN fits ELSE Append(fits, "n")
      /\ T.len = Len(Text(T.buf))
  BY <1>2, <1>4, <1>5, LineShown
<1>7. line' = [to |-> To, text |-> Text(T.buf), buf |-> T.buf, ret |-> T.len]
  BY Zenon DEF Emit, cut
<1> HIDE DEF T
<1>8. line'.text = Text(T.buf) /\ line'.buf = T.buf /\ line'.ret = T.len
  BY <1>7
<1>9. SubSeq(said', 1, Min({Len(said'), LineMax - 1})) = fits
  BY <1>3
<1> HIDE DEF fits
<1>10. LineComplete'
  <2>1. line'.text = (IF Last(fits) = "n" THEN fits ELSE Append(fits, "n")) /\ line'.ret = Len(line'.text)
    BY <1>6, <1>8
  <2> QED  BY <1>9, <2>1, Zenon DEF LineComplete
<1> QED  BY <1>6, <1>8, <1>10

\* Every call keeps the invariant.
LEMMA LogKeeps ==
  ASSUME LogInv, NEW level \in Levels, NEW rest \in 1..MaxText, NEW msg \in Messages, Log(level, rest, msg)
  PROVE  LogInv'
<1> DEFINE prefix == IF To = "cb" THEN <<>> ELSE [i \in 1..(ctx.name + rest) |-> "p"]
           at == Len(prefix)
           buf == IF To = "cb" THEN Buffer ELSE Printed(Buffer, 0, LineMax, prefix)
           last == IF at > LineMax THEN buf ELSE Printed(buf, at, LineMax - at, msg)
           wanted == IF at > LineMax THEN at ELSE at + Len(msg)
           t == prefix \o msg
<1>1. /\ IF at > LineMax THEN Emit(buf, at) ELSE Emit(Printed(buf, at, LineMax - at, msg), at + Len(msg))
      /\ said' = t
      /\ ctx' = ctx
  BY Zenon DEF Log
<1>2. msg \in Seq(Glyph) /\ Len(msg) \in Nat
  BY MessagesAre
<1>3. ctx.name + rest \in Nat /\ ctx.name + rest # 0
  <2>1. ctx.name \in 0..(NameMax - 1)
    BY DEF LogInv, Loggers
  <2> DEFINE nm == ctx.name
  <2>2. nm \in 0..(NameMax - 1)
    BY <2>1
  <2> HIDE DEF nm
  <2>3. nm + rest \in Nat /\ nm + rest # 0
    BY <2>2, LogAssumption, SMT
  <2> QED  BY <2>3 DEF nm
<1>4. prefix \in Seq(Glyph) /\ (To = "cb" => prefix = <<>> /\ at = 0) /\ (To # "cb" => at # 0)
  <2>1. CASE To = "cb"
    BY <2>1
  <2>2. CASE To # "cb"
    <3>1. [i \in 1..(ctx.name + rest) |-> "p"] \in Seq(Glyph) /\ Len([i \in 1..(ctx.name + rest) |-> "p"]) = ctx.name + rest
      BY <1>3, PrefixIs
    <3> QED  BY <1>3, <2>2, <3>1
  <2> QED  BY <2>1, <2>2
<1>5. (buf = Buffer \/ buf = Printed(Buffer, 0, LineMax, prefix)) /\ (To = "cb" => buf = Buffer)
  OBVIOUS
<1>6. To # "cb" => buf # Buffer
  <2> SUFFICES ASSUME To # "cb" PROVE buf # Buffer
    OBVIOUS
  <2>1. buf = Printed(Buffer, 0, LineMax, prefix)
    OBVIOUS
  <2> HIDE DEF prefix, buf
  <2>2. <<>> \in Seq(Glyph) /\ Len(<<>>) = 0 /\ LineMax - 0 = LineMax /\ 0 + at = at
    BY <1>4, LogAssumption, SMT
  <2>3. Shows(Printed(Buffer, Len(<<>>), LineMax - Len(<<>>), prefix), <<>> \o prefix, Fitting(Len(<<>>) + at))
    BY <1>4, <2>2, BlankShows, PrintShows
  <2>4. Shows(buf, prefix, Fitting(at))
    <3>1. <<>> \o prefix = prefix
      BY <1>4, ConcatEmptySeq
    <3> QED  BY <2>1, <2>2, <2>3, <3>1
  <2>5. at \in Nat
    BY <1>4
  <2>6. 0 < Fitting(at) /\ 0 \in 0..(LineMax + 1)
    BY <1>4, <2>5, LogAssumption, SMT DEF Fitting
  <2>7. buf[0] = prefix[0 + 1] /\ prefix[1] \in Glyph
    <3>1. buf[0] = prefix[0 + 1]
      BY <2>4, <2>6 DEF Shows
    <3>2. 1 \in 1..Len(prefix)
      BY <1>4, <2>5, SMT
    <3> QED  BY <1>4, <3>1, <3>2, ElementOfSeq
  <2>8. Buffer[0] = "0"
    BY <2>6 DEF Buffer
  <2>9. 0 + 1 = 1
    BY SMT
  <2> QED  BY <2>7, <2>8, <2>9 DEF Glyph
<1> HIDE DEF prefix, buf
<1>7. Shows(last, t, Fitting(at + Len(msg)))
  <2>1. buf = Buffer => prefix = <<>>
    BY <1>4, <1>6
  <2> QED  BY <1>2, <1>4, <1>5, <2>1, FormatShows
<1>8. Emit(last, wanted)
  BY <1>1
<1>9. at \in Nat /\ t \in Seq(Glyph) /\ Len(t) = at + Len(msg)
  BY <1>2, <1>4, ConcatProperties
<1> HIDE DEF last
<1>10. wanted \in Nat /\ Fitting(Len(t)) <= wanted
  <2> DEFINE lm == Len(msg)
  <2>1. lm \in Nat
    BY <1>2
  <2> HIDE DEF lm, at
  <2>2. Fitting(at + lm) <= IF at > LineMax THEN at ELSE at + lm
    BY <1>9, <2>1, LogAssumption, SMT DEF Fitting
  <2>3. (IF at > LineMax THEN at ELSE at + lm) \in Nat
    BY <1>9, <2>1, SMT
  <2> QED  BY <1>9, <2>2, <2>3 DEF lm
<1>11. DOMAIN line'.buf = 0..(LineMax + 1) /\ LineComplete'
  <2>1. CASE t # <<>>
    BY <1>1, <1>7, <1>8, <1>9, <1>10, <2>1, EmitShows
  <2>2. CASE t = <<>>
    <3>1. at + Len(msg) = 0
      <4>1. Len(t) = 0
        BY <2>2
      <4> QED  BY <1>9, <4>1
    <3>2. Shows(last, <<>>, 0)
      <4>1. Fitting(0) = 0
        BY LogAssumption, SMT DEF Fitting
      <4> QED  BY <1>7, <2>2, <3>1, <4>1
    <3>3. wanted = 0 /\ ~(0 > LineMax)
      <4>1. at = 0 /\ Len(msg) = 0
        BY <1>2, <1>9, <3>1, SMT
      <4>2. ~(0 > LineMax)
        BY LogAssumption, SMT
      <4> QED  BY <3>1, <4>1, <4>2
    <3> DEFINE T == Terminate(last, 0)
    <3>4. DOMAIN T.buf = 0..(LineMax + 1)
      BY <3>2, BlankLine
    <3>5. line' = [to |-> To, text |-> Text(T.buf), buf |-> T.buf, ret |-> T.len]
      BY <1>8, <3>3 DEF Emit
    <3> HIDE DEF T
    <3>6. line'.buf = T.buf
      BY <3>5
    <3>7. LineComplete'
      BY <1>1, <2>2 DEF LineComplete
    <3> QED  BY <3>4, <3>6, <3>7
  <2> QED  BY <2>1, <2>2
<1> QED  BY <1>1, <1>11 DEF LogInv

LEMMA LogStep == LogInv /\ [LogNext]_logVars => LogInv'
<1> SUFFICES ASSUME LogInv, [LogNext]_logVars PROVE LogInv'
  OBVIOUS
<1>1. ASSUME ctx' \in Loggers, UNCHANGED <<line, said>> PROVE LogInv'
  <2>1. line' = line /\ said' = said
    BY <1>1
  <2>2. LineComplete'
    BY <2>1, Zenon DEF LineComplete, LogInv
  <2> QED  BY <1>1, <2>1, <2>2 DEF LogInv
<1>2. CASE UNCHANGED logVars
  BY <1>1, <1>2 DEF logVars, LogInv
<1>3. ASSUME NEW level \in Levels, SetLevel(level) PROVE LogInv'
  <2>1. ctx' \in Loggers
    BY <1>3 DEF SetLevel, LogInv, Loggers
  <2> QED  BY <1>1, <1>3, <2>1 DEF SetLevel
<1>4. ASSUME NEW n \in 0..MaxText, SetName(n) PROVE LogInv'
  <2> DEFINE m == NameLen(n)
  <2>1. m \in 0..(NameMax - 1)
    BY NamesFit
  <2>2. ctx' = [ctx EXCEPT !.name = m] /\ UNCHANGED <<line, said>>
    BY <1>4 DEF SetName
  <2> HIDE DEF m
  <2>3. ctx' \in Loggers
    BY <2>1, <2>2 DEF LogInv, Loggers
  <2> QED  BY <1>1, <2>2, <2>3
<1>5. ASSUME NEW sinks \in SUBSET Sinks, NEW level \in Levels, NEW n \in 0..MaxText, Configure(sinks, level, n)
      PROVE  LogInv'
  <2> DEFINE m == NameLen(n)
  <2>1. m \in 0..(NameMax - 1)
    BY NamesFit
  <2>2. ctx' = [sinks |-> sinks, level |-> level, name |-> m] /\ UNCHANGED <<line, said>>
    BY <1>5 DEF Configure
  <2> HIDE DEF m
  <2>3. ctx' \in Loggers
    BY <2>1, <2>2 DEF Loggers
  <2> QED  BY <1>1, <2>2, <2>3
<1>6. ASSUME NEW s \in Sinks, NEW given \in BOOLEAN, SetSink(s, given) PROVE LogInv'
  <2>1. ctx' = [ctx EXCEPT !.sinks = IF given THEN ctx.sinks \cup {s} ELSE ctx.sinks \ {s}]
        /\ UNCHANGED <<line, said>>
    BY <1>6 DEF SetSink
  <2>2. ctx' \in Loggers
    BY <2>1 DEF LogInv, Loggers
  <2> QED  BY <1>1, <2>1, <2>2
<1> QED  BY <1>2, <1>3, <1>4, <1>5, <1>6, LogKeeps, Zenon DEF LogNext

LEMMA LogInitially == LogInit => LogInv
BY LogAssumption DEF LogInit, LogInv, Loggers, NoLine, Buffer, Levels, Sinks, LineComplete

\* logger.c: no line is written beyond its buffer, and the name of a logger fits.
THEOREM LogTypeCorrect == LogSpec => []LogTypeOK
<1>1. LogInv => LogTypeOK
  BY DEF LogInv, Loggers, LogTypeOK
<1> QED  BY <1>1, LogInitially, LogStep, PTL DEF LogSpec

\* logger.c: every line is as much of prefix and message as fits, and one newline, and the
\* result is its length.
THEOREM LinesComplete == LogSpec => []LineComplete
<1>1. LogInv => LineComplete
  BY DEF LogInv
<1> QED  BY <1>1, LogInitially, LogStep, PTL DEF LogSpec

-----------------------------------------------------------------------------
(* Files *)

\* A directory and those that hold it, up to the root: what every set has that has x
\* and, with an entry, the directory that holds the entry.
Climbs(S) == \A y \in S \ {Root} : Parent[y] \in S
Above(x) == {y \in Entries \cup {Root} : \A S \in SUBSET (Entries \cup {Root}) : x \in S /\ Climbs(S) => y \in S}

\* A path that the walk gave to the directory x, or that it was given for the root.
Names(path, x) ==
  \/ x = Root /\ path \in {<<Root>>, <<Root, SEP>>}
  \/ x \in Dirs /\ path = PathTo[x]

\* The places of the walk where e is, or a directory above it through which it will be found.
Where(s, A) == {i \in DOMAIN s : At(s[i]) \in A}
ToOpen(e) == Where(dirs.item, Above(e))
Listed(e) == Where(files.item, Above(e))
ToRead(e) == unread \cap Above(e)

OneOf(D, F, U) ==
  \/ F = {} /\ U = {} /\ \E i \in D : D = {i}
  \/ D = {} /\ U = {} /\ \E i \in F : F = {i}
  \/ D = {} /\ F = {} /\ \E c \in U : U = {c}

\* Every file that has been there throughout is in one of them.
Owed == \A e \in steady \ Dirs : OneOf(ToOpen(e), Listed(e), ToRead(e))

\* What has been there throughout is there, and so are the directories that hold it.
Steady ==
  /\ there \in Trees /\ steady \subseteq there
  /\ \A e \in steady : Parent[e] \in steady \cup {Root}

\* The arrays have paths, and what is read is in the open directory.
Marks == Entries \cup {Root, SEP}
DirPaths == {path \in Seq(Marks) : \E x \in Dirs \cup {Root} : Names(path, x)}
FilePaths == {PathTo[e] : e \in Entries \ Dirs}

Walked ==
  /\ walk \in {"idle", "walking", "done", "exited", "freed"}
  /\ dirs = [item |-> dirs.item, size |-> dirs.size] /\ dirs.item \in Seq(DirPaths)
  /\ files.item \in Seq(FilePaths)
  /\ open = Closed => unread = {}
  /\ open # Closed => /\ walk = "walking" /\ unread \subseteq Entries
                      /\ \E x \in Dirs \cup {Root} : Names(open, x) /\ \A e \in unread : Parent[e] = x
  /\ walk = "idle" => files.item = <<>> /\ dirs.item = <<>>
  /\ walk = "done" => dirs.item = <<>>

\* Both arrays have room for one more.
Roomy ==
  /\ files.size \in Nat /\ dirs.size \in Nat
  /\ walk \in {"walking", "done"} => Len(files.item) < files.size
  /\ walk = "walking" => Len(dirs.item) < dirs.size

WalkInv == Steady /\ Walked /\ Roomy /\ (walk \in {"walking", "done"} => Owed)

\* What a read has got, of the length that it measured or of what is there still.
ReadInv ==
  /\ len \in Nat
  /\ rd \in [fn : {"none", "binary", "all"}, rc : {-1, 0, 1}, size : Nat, used : Nat, chunk : Nat]
  /\ same /\ rd.rc = 1 => (rd.fn = "binary" => rd.size = len) /\ (rd.fn = "all" => rd.used <= len)
  /\ same /\ rd.rc = 0 => rd.used = len
  /\ rd.fn = "all" /\ rd.rc = 0 => rd.used < rd.size
  /\ rd.fn = "all" /\ rd.rc = 1 => rd.used <= rd.size
-----------------------------------------------------------------------------
(* The tree *)

\* How deep an entry is.
Deep(depth) ==
  /\ depth \in [Entries -> Nat]
  /\ \A e \in Entries : Parent[e] = Root \/ (Parent[e] \in Dirs /\ depth[Parent[e]] < depth[e])

LEMMA Depth == \E depth : Deep(depth) /\ \E n \in Nat : \A e \in Entries : depth[e] < n
<1>1. Cardinality(Entries) \in Nat
  BY TreeAssumption, FS_CardinalityType
<1>2. PICK depth \in [Entries -> 0..Cardinality(Entries)] :
        \A e \in Entries : Parent[e] = Root \/ (Parent[e] \in Dirs /\ depth[Parent[e]] < depth[e])
  BY TreeAssumption
<1>3. Deep(depth)
  BY <1>1, <1>2 DEF Deep
<1>4. \A e \in Entries : depth[e] < Cardinality(Entries) + 1
  BY <1>1, <1>2
<1> QED  BY <1>1, <1>3, <1>4

LEMMA TreeFacts ==
  /\ Root \notin Entries /\ SEP \notin Entries /\ Root # SEP /\ Dirs \subseteq Entries
  /\ \A e \in Entries : Parent[e] \in Dirs \cup {Root}
  /\ Climbs(Entries \cup {Root})
<1>1. \A e \in Entries : Parent[e] \in Dirs \cup {Root}
  BY Depth DEF Deep
<1> QED  BY <1>1, TreeAssumption DEF Climbs

\* Above(x) is the least set that has x and climbs.
LEMMA AboveIs ==
  ASSUME NEW x \in Entries \cup {Root}
  PROVE  /\ x \in Above(x) /\ Above(x) \subseteq Entries \cup {Root} /\ Climbs(Above(x))
         /\ \A S : x \in S /\ Climbs(S) => Above(x) \subseteq S
<1>1. x \in Above(x) /\ Above(x) \subseteq Entries \cup {Root}
  BY DEF Above
<1>2. ASSUME NEW y \in Above(x), y # Root PROVE Parent[y] \in Above(x)
  <2>1. y \in Entries /\ Parent[y] \in Entries \cup {Root}
    BY <1>1, <1>2, TreeFacts
  <2>2. ASSUME NEW S \in SUBSET (Entries \cup {Root}), x \in S, Climbs(S) PROVE Parent[y] \in S
    BY <1>2, <2>2 DEF Above, Climbs
  <2> QED  BY <2>1, <2>2 DEF Above
<1>3. ASSUME NEW S, x \in S, Climbs(S) PROVE Above(x) \subseteq S
  <2> DEFINE T == S \cap (Entries \cup {Root})
  <2>1. T \in SUBSET (Entries \cup {Root}) /\ x \in T
    BY <1>3
  <2>2. Climbs(T)
    BY <1>3, TreeFacts DEF Climbs
  <2> HIDE DEF T
  <2>3. Above(x) \subseteq T
    BY <2>1, <2>2 DEF Above
  <2> QED  BY <2>3 DEF T
<1> QED  BY <1>1, <1>2, <1>3 DEF Climbs

LEMMA AboveRoot == Above(Root) = {Root}
<1>1. Climbs({Root})
  BY DEF Climbs
<1> QED  BY <1>1, AboveIs

\* What is above a directory that is above x is above x.
LEMMA AboveAgain ==
  ASSUME NEW x \in Entries \cup {Root}, NEW y \in Above(x)
  PROVE  y \in Entries \cup {Root} /\ Above(y) \subseteq Above(x)
BY AboveIs

\* Above an entry is the entry, and what is above the directory that holds it.
LEMMA AboveStep ==
  ASSUME NEW e \in Entries
  PROVE  /\ Parent[e] \in Entries \cup {Root} /\ Parent[e] \in Above(e)
         /\ Above(e) \subseteq {e} \cup Above(Parent[e])
<1>1. Parent[e] \in Entries \cup {Root} /\ e # Root
  BY TreeFacts
<1>2. Parent[e] \in Above(e)
  BY <1>1, AboveIs DEF Climbs
<1>3. Climbs({e} \cup Above(Parent[e]))
  BY <1>1, AboveIs DEF Climbs
<1> QED  BY <1>1, <1>2, <1>3, AboveIs

\* It is nobody's own ancestor.
LEMMA AboveHigher ==
  ASSUME NEW e \in Entries
  PROVE  e \notin Above(Parent[e])
<1>1. PICK depth : Deep(depth)
  BY Depth
<1>2. CASE Parent[e] = Root
  BY <1>2, AboveRoot, TreeFacts
<1>3. CASE Parent[e] # Root
  <2> DEFINE S == {Root} \cup {y \in Entries : depth[y] < depth[e]}
  <2>1. Parent[e] \in S
    BY <1>1, <1>3, TreeFacts DEF Deep
  <2>2. ASSUME NEW y \in S \ {Root} PROVE Parent[y] \in S
    <3>1. y \in Entries /\ depth[y] < depth[e] /\ depth[y] \in Nat /\ depth[e] \in Nat
      BY <1>1, <2>2 DEF Deep
    <3>2. CASE Parent[y] = Root
      BY <3>2
    <3>3. CASE Parent[y] # Root
      <4>1. Parent[y] \in Entries /\ depth[Parent[y]] < depth[y] /\ depth[Parent[y]] \in Nat
        BY <1>1, <3>1, <3>3, TreeFacts DEF Deep
      <4>2. depth[Parent[y]] < depth[e]
        BY <3>1, <4>1
      <4> QED  BY <4>1, <4>2
    <3> QED  BY <3>2, <3>3
  <2>3. e \notin S
    BY <1>1, TreeFacts DEF Deep
  <2> HIDE DEF S
  <2>4. Climbs(S)
    BY <2>2 DEF Climbs
  <2>5. Parent[e] \in Entries \cup {Root}
    BY TreeFacts
  <2> QED  BY <2>1, <2>3, <2>4, <2>5, AboveIs
<1> QED  BY <1>2, <1>3

\* Of two that are above x, one is above the other.
LEMMA AboveLine ==
  ASSUME NEW x \in Entries \cup {Root}, NEW a \in Above(x), NEW b \in Above(x)
  PROVE  a \in Above(b) \/ b \in Above(a)
<1> DEFINE T == {c \in Above(x) : \A d \in Above(x) : c \in Above(d) \/ d \in Above(c)}
<1>1. x \in T
  BY AboveIs
<1>2. ASSUME NEW c \in T, c # Root PROVE Parent[c] \in T
  <2>1. c \in Entries /\ c \in Above(x) /\ Parent[c] \in Above(x)
    BY <1>2, AboveIs DEF Climbs
  <2>2. ASSUME NEW d \in Above(x) PROVE Parent[c] \in Above(d) \/ d \in Above(Parent[c])
    <3>1. d \in Entries \cup {Root}
      BY <2>2, AboveIs
    <3>2. CASE c \in Above(d)
      BY <1>2, <3>1, <3>2, AboveIs DEF Climbs
    <3>3. CASE d \in Above(c)
      <4>1. d = c \/ d \in Above(Parent[c])
        BY <2>1, <3>3, AboveStep
      <4> QED  BY <2>1, <4>1, AboveStep
    <3> QED  BY <1>2, <2>2, <3>2, <3>3
  <2> QED  BY <2>1, <2>2
<1>3. Climbs(T)
  BY <1>2 DEF Climbs
<1> HIDE DEF T
<1>4. Above(x) \subseteq T
  BY <1>1, <1>3, AboveIs
<1> QED  BY <1>4 DEF T

\* The way down from a directory above x to x goes through exactly one of its entries.
LEMMA AboveDown ==
  ASSUME NEW x \in Entries, NEW y \in Above(x)
  PROVE  /\ y # x => \E c \in Above(x) : c \in Entries /\ Parent[c] = y
         /\ \A c, d \in Above(x) : c \in Entries /\ d \in Entries /\ Parent[c] = Parent[d] => c = d
<1>1. ASSUME y # x PROVE \E c \in Above(x) : c \in Entries /\ Parent[c] = y
  <2> DEFINE T == {x} \cup {z \in Above(x) : \E c \in Above(x) : c \in Entries /\ Parent[c] = z}
  <2>1. ASSUME NEW z \in T \ {Root} PROVE Parent[z] \in T
    <3>1. z \in Above(x) /\ z \in Entries
      BY <2>1, AboveIs
    <3>2. Parent[z] \in Above(x)
      BY <2>1, <3>1, AboveIs DEF Climbs
    <3> QED  BY <3>1, <3>2
  <2>2. Climbs(T) /\ x \in T
    BY <2>1 DEF Climbs
  <2> HIDE DEF T
  <2>3. Above(x) \subseteq T
    BY <2>2, AboveIs
  <2> QED  BY <1>1, <2>3 DEF T
<1>2. ASSUME NEW c \in Above(x), NEW d \in Above(x), c \in Entries, d \in Entries, Parent[c] = Parent[d],
             c \in Above(d)
      PROVE  c = d
  <2>1. c = d \/ c \in Above(Parent[d])
    BY <1>2, AboveStep
  <2> QED  BY <1>2, <2>1, AboveHigher
<1>3. \A c, d \in Above(x) : c \in Entries /\ d \in Entries /\ Parent[c] = Parent[d] => c = d
  BY <1>2, AboveLine
<1> QED  BY <1>1, <1>3

\* A file is above itself only.
LEMMA AboveFile ==
  ASSUME NEW x \in Entries, NEW y \in Above(x)
  PROVE  y = x \/ y \in Dirs \cup {Root}
<1>1. Parent[x] \in Dirs \cup {Root} /\ Climbs(Dirs \cup {Root})
  BY TreeFacts DEF Climbs
<1>2. Above(Parent[x]) \subseteq Dirs \cup {Root}
  BY <1>1, TreeFacts, AboveIs
<1> QED  BY <1>2, AboveStep

-----------------------------------------------------------------------------
(* Paths *)

Path(f, e) == IF Parent[e] = Root THEN <<Root, SEP, e>> ELSE f[Parent[e]] \o <<SEP, e>>

\* The paths of all entries exist.
LEMMA PathSteps == \A e \in Entries : PathTo[e] = Path(PathTo, e)
<1>1. PICK depth, most : Deep(depth) /\ most \in Nat /\ \A e \in Entries : depth[e] < most
  BY Depth
<1> DEFINE Spelt(f, n) == \A e \in Entries : depth[e] < n => f[e] = Path(f, e)
           S == {n \in Nat : \E f : Spelt(f, n)}
<1>2. 0 \in S
  <2>1. \A e \in Entries : ~ (depth[e] < 0)
    BY <1>1, SMT DEF Deep
  <2> QED  BY <2>1
<1>3. ASSUME NEW n \in Nat, n \in S PROVE n + 1 \in S
  <2>1. PICK f : Spelt(f, n)
    BY <1>3
  <2> DEFINE g == [e \in Entries |-> IF depth[e] < n THEN f[e] ELSE Path(f, e)]
  <2>2. ASSUME NEW e \in Entries, depth[e] < n + 1 PROVE g[e] = Path(g, e)
    <3>1. g[e] = Path(f, e)
      BY <2>1
    <3>2. Parent[e] # Root => g[Parent[e]] = f[Parent[e]]
      <4>1. ASSUME Parent[e] # Root PROVE Parent[e] \in Entries /\ depth[Parent[e]] < n
        <5>1. /\ Parent[e] \in Entries /\ depth[Parent[e]] < depth[e]
              /\ depth[e] \in Nat /\ depth[Parent[e]] \in Nat
          BY <1>1, <4>1, TreeFacts DEF Deep
        <5> QED  BY <2>2, <5>1, SMT
      <4> QED  BY <4>1
    <3> HIDE DEF g
    <3> QED  BY <3>1, <3>2 DEF Path
  <2> HIDE DEF g
  <2>3. Spelt(g, n + 1)
    BY <2>2
  <2>4. n + 1 \in Nat
    OBVIOUS
  <2> QED  BY <2>3, <2>4
<1>4. most \in S
  <2> HIDE DEF S
  <2> QED  BY <1>1, <1>2, <1>3, SetInduction
<1>5. PICK f : \A e \in Entries : f[e] = Path(f, e)
  BY <1>1, <1>4
<1> DEFINE g == [e \in Entries |-> f[e]]
           Whole(h) == h = [e \in Entries |-> Path(h, e)]
<1>6. Whole(g)
  <2>1. ASSUME NEW e \in Entries PROVE g[e] = Path(g, e)
    <3>1. Parent[e] # Root => Parent[e] \in Entries
      BY TreeFacts
    <3> QED  BY <1>5, <3>1 DEF Path
  <2> QED  BY <2>1
<1> HIDE DEF g
<1>7. Whole(PathTo)
  <2>1. PathTo = CHOOSE h : Whole(h)
    BY DEF PathTo, Path
  <2> QED  BY <1>6, <2>1
<1> QED  BY <1>7

\* A path is a sequence that ends in what it leads to.
LEMMA PathIs ==
  ASSUME NEW e \in Entries
  PROVE  PathTo[e] \in Seq(Marks) /\ Len(PathTo[e]) > 2 /\ Last(PathTo[e]) = e
<1>1. PICK depth, most : Deep(depth) /\ most \in Nat /\ \A x \in Entries : depth[x] < most
  BY Depth
<1> DEFINE S == {n \in Nat : \A x \in Entries : depth[x] < n => PathTo[x] \in Seq(Marks) /\ Len(PathTo[x]) > 2}
<1>2. 0 \in S
  <2>1. \A x \in Entries : ~ (depth[x] < 0)
    BY <1>1, SMT DEF Deep
  <2> QED  BY <2>1
<1>3. ASSUME NEW n \in Nat, n \in S PROVE n + 1 \in S
  <2>1. ASSUME NEW x \in Entries, depth[x] < n + 1 PROVE PathTo[x] \in Seq(Marks) /\ Len(PathTo[x]) > 2
    <3>1. CASE Parent[x] = Root
      <4>1. PathTo[x] = <<Root, SEP, x>>
        BY <3>1, PathSteps DEF Path
      <4>2. Root \in Marks /\ SEP \in Marks /\ x \in Marks
        BY DEF Marks
      <4> QED  BY <4>1, <4>2
    <3>2. CASE Parent[x] # Root
      <4>1. PathTo[x] = PathTo[Parent[x]] \o <<SEP, x>>
        BY <3>2, PathSteps DEF Path
      <4>2. /\ Parent[x] \in Entries /\ depth[Parent[x]] < depth[x]
            /\ depth[x] \in Nat /\ depth[Parent[x]] \in Nat
        BY <1>1, <3>2, TreeFacts DEF Deep
      <4>3. depth[Parent[x]] < n
        BY <2>1, <4>2, SMT
      <4>4. PathTo[Parent[x]] \in Seq(Marks) /\ Len(PathTo[Parent[x]]) > 2
        BY <1>3, <4>2, <4>3
      <4>5. SEP \in Marks /\ x \in Marks
        BY DEF Marks
      <4>6. <<SEP, x>> \in Seq(Marks) /\ Len(<<SEP, x>>) = 2
        BY <4>5
      <4> QED  BY <4>1, <4>4, <4>6
    <3> QED  BY <3>1, <3>2
  <2>2. n + 1 \in Nat
    OBVIOUS
  <2> QED  BY <2>1, <2>2
<1>4. most \in S
  <2> HIDE DEF S
  <2> QED  BY <1>1, <1>2, <1>3, SetInduction
<1>5. \A x \in Entries : PathTo[x] \in Seq(Marks) /\ Len(PathTo[x]) > 2
  BY <1>1, <1>4
<1>6. Last(PathTo[e]) = e
  <2>1. CASE Parent[e] = Root
    <3>1. PathTo[e] = <<Root, SEP, e>>
      BY <2>1, PathSteps DEF Path
    <3> QED  BY <3>1 DEF Last
  <2>2. CASE Parent[e] # Root
    <3>1. PathTo[e] = PathTo[Parent[e]] \o <<SEP, e>> /\ Parent[e] \in Entries
      BY <2>2, PathSteps, TreeFacts DEF Path
    <3>2. PICK s : s = PathTo[Parent[e]] /\ s \in Seq(Marks)
      BY <1>5, <3>1
    <3>3. SEP \in Marks /\ e \in Marks
      BY DEF Marks
    <3>4. Len(s \o <<SEP, e>>) = Len(s) + 2 /\ (s \o <<SEP, e>>)[Len(s) + 2] = e
      BY <3>2, <3>3
    <3> QED  BY <3>1, <3>2, <3>4 DEF Last
  <2> QED  BY <2>1, <2>2
<1> QED  BY <1>5, <1>6

\* Names one after the other.
LEMMA Together ==
  ASSUME NEW a, NEW b, NEW c
  PROVE  /\ <<a>> \o <<b>> = <<a, b>> /\ <<a, b>> \o <<c>> = <<a, b, c>>
         /\ Last(Front(<<a, b>>)) = a
<1> DEFINE S == {a, b, c}
           s == <<a>>
           t == <<b>>
           u == <<c>>
           v == <<a, b>>
           w == <<a, b, c>>
<1>1. s \in Seq(S) /\ t \in Seq(S) /\ u \in Seq(S) /\ v \in Seq(S) /\ w \in Seq(S)
  OBVIOUS
<1>2. Len(s) = 1 /\ Len(t) = 1 /\ Len(u) = 1 /\ Len(v) = 2 /\ Len(w) = 3
  OBVIOUS
<1>3. s[1] = a /\ t[1] = b /\ u[1] = c /\ v[1] = a /\ v[2] = b /\ w[1] = a /\ w[2] = b /\ w[3] = c
  OBVIOUS
<1> HIDE DEF S, s, t, u, v, w
<1>4. 1..2 = {1, 2} /\ 1..3 = {1, 2, 3} /\ 1..1 = {1}
  OBVIOUS
<1>5. s \o t = v
  <2>1. s \o t \in Seq(S) /\ Len(s \o t) = 2 /\ (s \o t)[1] = a /\ (s \o t)[2] = b
    <3>1. /\ s \o t \in Seq(S) /\ Len(s \o t) = Len(s) + Len(t)
          /\ \A i \in 1..Len(s) + Len(t) : (s \o t)[i] = IF i <= Len(s) THEN s[i] ELSE t[i - Len(s)]
      BY <1>1, ConcatProperties
    <3>2. Len(s) + Len(t) = 2 /\ 1 \in 1..2 /\ 2 \in 1..2
      BY <1>2
    <3>3. (s \o t)[1] = s[1] /\ (s \o t)[2] = t[2 - 1]
      BY <1>2, <3>1, <3>2
    <3> QED  BY <1>3, <3>1, <3>2, <3>3
  <2>2. \A i \in 1..2 : (s \o t)[i] = v[i]
    BY <1>3, <1>4, <2>1
  <2> QED  BY <1>1, <1>2, <2>1, <2>2, SeqEqual
<1>6. v \o u = w
  <2>1. /\ v \o u \in Seq(S) /\ Len(v \o u) = 3
        /\ (v \o u)[1] = a /\ (v \o u)[2] = b /\ (v \o u)[3] = c
    <3>1. /\ v \o u \in Seq(S) /\ Len(v \o u) = Len(v) + Len(u)
          /\ \A i \in 1..Len(v) + Len(u) : (v \o u)[i] = IF i <= Len(v) THEN v[i] ELSE u[i - Len(v)]
      BY <1>1, ConcatProperties
    <3>2. Len(v) + Len(u) = 3 /\ 1 \in 1..3 /\ 2 \in 1..3 /\ 3 \in 1..3
      BY <1>2
    <3>3. (v \o u)[1] = v[1] /\ (v \o u)[2] = v[2] /\ (v \o u)[3] = u[3 - 2]
      BY <1>2, <3>1, <3>2
    <3> QED  BY <1>3, <3>1, <3>2, <3>3
  <2>2. \A i \in 1..3 : (v \o u)[i] = w[i]
    BY <1>3, <1>4, <2>1
  <2> QED  BY <1>1, <1>2, <2>1, <2>2, SeqEqual
<1>7. Last(Front(v)) = a
  <2>1. Front(v) = SubSeq(v, 1, 1)
    BY <1>2 DEF Front
  <2>2. Len(SubSeq(v, 1, 1)) = 1 /\ SubSeq(v, 1, 1)[1] = v[1]
    BY <1>1, <1>2, <1>3
  <2> QED  BY <1>3, <2>1, <2>2 DEF Last
<1> QED  BY <1>5, <1>6, <1>7 DEF s, t, u, v, w

\* The directory of a path, and the path of an entry in it.
LEMMA NamesWhere ==
  ASSUME NEW path, NEW x \in Dirs \cup {Root}, Names(path, x)
  PROVE  /\ path \in Seq(Marks) /\ path # Closed /\ At(path) = x
         /\ \A e \in Entries : Parent[e] = x => PathJoin(path, <<e>>) = PathTo[e]
<1>1. CASE path = <<Root>> /\ x = Root
  <2>1. Root \in Marks /\ path \in Seq(Marks) /\ path # Closed
    BY <1>1 DEF Marks, Closed
  <2>2. Last(path) = Root /\ At(path) = Root
    BY <1>1, TreeFacts DEF At, Last
  <2>3. ASSUME NEW e \in Entries, Parent[e] = x PROVE PathJoin(path, <<e>>) = PathTo[e]
    <3>1. PathTo[e] = <<Root, SEP, e>>
      BY <1>1, <2>3, PathSteps DEF Path
    <3>2. PathJoin(path, <<e>>) = path \o <<SEP>> \o <<e>>
      BY <2>1, <2>2, TreeFacts DEF PathJoin, Closed
    <3>3. <<Root>> \o <<SEP>> = <<Root, SEP>> /\ <<Root, SEP>> \o <<e>> = <<Root, SEP, e>>
      BY Together
    <3> QED  BY <1>1, <3>1, <3>2, <3>3
  <2> QED  BY <1>1, <2>1, <2>2, <2>3
<1>2. CASE path = <<Root, SEP>> /\ x = Root
  <2>1. Root \in Marks /\ SEP \in Marks /\ path \in Seq(Marks) /\ path # Closed
    BY <1>2 DEF Marks, Closed
  <2>2. Last(path) = SEP /\ Last(Front(path)) = Root
    <3>1. Len(path) = 2 /\ path[2] = SEP
      BY <1>2
    <3> QED  BY <1>2, <3>1, Together DEF Last
  <2>3. ASSUME NEW e \in Entries, Parent[e] = x PROVE PathJoin(path, <<e>>) = PathTo[e]
    <3>1. PathTo[e] = <<Root, SEP, e>>
      BY <1>2, <2>3, PathSteps DEF Path
    <3>2. PathJoin(path, <<e>>) = path \o <<e>>
      BY <2>2, TreeFacts DEF PathJoin
    <3>3. <<Root, SEP>> \o <<e>> = <<Root, SEP, e>>
      BY Together
    <3> QED  BY <1>2, <3>1, <3>2, <3>3
  <2> QED  BY <1>2, <2>1, <2>2, <2>3 DEF At
<1>3. CASE x \in Dirs /\ path = PathTo[x]
  <2>1. x \in Entries /\ x # SEP /\ x # Root
    BY <1>3, TreeFacts
  <2>2. path \in Seq(Marks) /\ Len(path) > 2 /\ Last(path) = x
    BY <1>3, <2>1, PathIs
  <2>3. path # Closed /\ At(path) = x
    BY <2>1, <2>2 DEF Closed, At
  <2>4. ASSUME NEW e \in Entries, Parent[e] = x PROVE PathJoin(path, <<e>>) = PathTo[e]
    <3>1. PathTo[e] = path \o <<SEP, e>>
      BY <1>3, <2>1, <2>4, PathSteps DEF Path
    <3>2. PathJoin(path, <<e>>) = path \o <<SEP>> \o <<e>>
      BY <2>1, <2>2, <2>3, TreeFacts DEF PathJoin, Closed
    <3>3. SEP \in Marks /\ e \in Marks
      BY DEF Marks
    <3>4. path \o <<SEP>> \o <<e>> = path \o (<<SEP>> \o <<e>>)
      BY <2>2, <3>3, ConcatAssociative
    <3>5. <<SEP>> \o <<e>> = <<SEP, e>>
      BY Together
    <3> QED  BY <3>1, <3>2, <3>4, <3>5
  <2> QED  BY <2>2, <2>3, <2>4
<1> QED  BY <1>1, <1>2, <1>3 DEF Names

\* The entry that a path leads to.
LEMMA PathWhere ==
  ASSUME NEW e \in Entries
  PROVE  At(PathTo[e]) = e
BY PathIs, TreeFacts DEF At

-----------------------------------------------------------------------------
(* The walk *)

\* Everything is below the root.
LEMMA AboveTop == ASSUME NEW e \in Entries PROVE Root \in Above(e)
<1> SUFFICES ASSUME Root \notin Above(e) PROVE FALSE
  OBVIOUS
<1>1. PICK depth : Deep(depth)
  BY Depth
<1>2. Above(e) \subseteq Entries /\ e \in Above(e)
  BY AboveIs
<1> DEFINE T == {depth[y] : y \in Above(e)}
<1>3. T \subseteq Nat /\ T # {}
  BY <1>1, <1>2 DEF Deep
<1>4. PICK n \in T : \A m \in T : n <= m
  BY <1>3, LeastNat
<1>5. PICK y \in Above(e) : n = depth[y]
  BY <1>4
<1>6. y \in Entries /\ Parent[y] \in Above(e)
  BY <1>2, TreeFacts, AboveIs DEF Climbs
<1>7. depth[Parent[y]] < depth[y] /\ depth[Parent[y]] \in Nat /\ depth[y] \in Nat
  BY <1>1, <1>2, <1>6 DEF Deep
<1> QED  BY <1>4, <1>5, <1>6, <1>7

\* Where something is in an array that got one path more, or lost its last.
LEMMA WhereAppend ==
  ASSUME NEW S, NEW s \in Seq(S), NEW path, NEW A
  PROVE  /\ Where(Append(s, path), A) = IF At(path) \in A THEN Where(s, A) \cup {Len(s) + 1} ELSE Where(s, A)
         /\ Len(s) + 1 \notin Where(s, A)
<1> DEFINE t == Append(s, path)
<1>1. /\ Len(s) \in Nat /\ DOMAIN s = 1..Len(s) /\ DOMAIN t = 1..(Len(s) + 1)
      /\ \A i \in 1..Len(s) : t[i] = s[i]
      /\ t[Len(s) + 1] = path
  OBVIOUS
<1> HIDE DEF t
<1>2. 1..(Len(s) + 1) = 1..Len(s) \cup {Len(s) + 1} /\ Len(s) + 1 \notin 1..Len(s)
  BY <1>1
<1> QED  BY <1>1, <1>2 DEF Where, t

LEMMA WhereFront ==
  ASSUME NEW S, NEW s \in Seq(S), s # <<>>, NEW A
  PROVE  /\ Where(Front(s), A) = Where(s, A) \ {Len(s)}
         /\ Len(s) \in Where(s, A) <=> At(Last(s)) \in A
         /\ Front(s) \in Seq(S) /\ Len(Front(s)) < Len(s) /\ Last(s) \in S
<1>1. Len(s) \in Nat \ {0} /\ DOMAIN s = 1..Len(s) /\ \A i \in 1..Len(s) : s[i] \in S
  OBVIOUS
<1>2. Front(s) = SubSeq(s, 1, Len(s) - 1)
  BY DEF Front
<1>3. /\ Front(s) \in Seq(S) /\ Len(Front(s)) = Len(s) - 1
      /\ \A i \in 1..(Len(s) - 1) : Front(s)[i] = s[i]
  BY <1>1, <1>2
<1>4. DOMAIN Front(s) = 1..(Len(s) - 1) /\ 1..Len(s) = 1..(Len(s) - 1) \cup {Len(s)} /\ Len(s) \notin 1..(Len(s) - 1)
  BY <1>1, <1>3
<1>5. Where(Front(s), A) = Where(s, A) \ {Len(s)}
  BY <1>1, <1>3, <1>4 DEF Where
<1>6. Len(s) \in Where(s, A) <=> At(Last(s)) \in A
  BY <1>1 DEF Where, Last
<1> QED  BY <1>1, <1>3, <1>5, <1>6 DEF Last

\* What is above something steady is steady.
LEMMA SteadyAbove ==
  ASSUME Steady, NEW e \in steady
  PROVE  e \in Entries /\ Above(e) \subseteq steady \cup {Root}
<1>1. e \in Entries /\ Climbs(steady \cup {Root})
  BY DEF Steady, Trees, Climbs
<1> QED  BY <1>1, AboveIs

LEMMA WalkBegin == ASSUME WalkInv, NEW root \in {<<Root>>, <<Root, SEP>>}, BeginWalk(root) PROVE WalkInv'
<1>1. /\ walk = "idle" /\ walk' = "walking" /\ steady' = there /\ there' = there
      /\ dirs' = [item |-> <<root>>, size |-> Capacity] /\ files' = [item |-> <<>>, size |-> Capacity]
      /\ open' = open /\ unread' = unread
  BY DEF BeginWalk
<1>2. dirs'.item = <<root>> /\ dirs'.size = Capacity /\ files'.item = <<>> /\ files'.size = Capacity
  BY <1>1
<1>3. Names(root, Root)
  BY DEF Names
<1>4. root \in Seq(Marks) /\ At(root) = Root
  BY <1>3, NamesWhere
<1>5. root \in DirPaths
  BY <1>3, <1>4 DEF DirPaths
<1>6. Steady'
  BY <1>1 DEF WalkInv, Steady, Trees
<1>7. open = Closed /\ unread = {}
  BY <1>1 DEF WalkInv, Walked
<1>8. Walked'
  <2>1. <<root>> \in Seq(DirPaths) /\ <<>> \in Seq(FilePaths)
    BY <1>5
  <2> QED  BY <1>1, <1>2, <1>7, <2>1 DEF Walked
<1>9. Roomy'
  <2>1. Len(<<root>>) = 1 /\ Len(<<>>) = 0
    OBVIOUS
  <2> QED  BY <1>2, <2>1, FilesAssumption DEF Roomy
<1>10. Owed'
  <2>1. ASSUME NEW e \in steady' \ Dirs
        PROVE  OneOf(Where(<<root>>, Above(e)), Where(<<>>, Above(e)), {} \cap Above(e))
    <3>1. Root \in Above(e)
      BY <1>6, <2>1, AboveTop DEF Steady, Trees
    <3>2. Where(<<root>>, Above(e)) = {1}
      BY <1>4, <3>1 DEF Where
    <3>3. Where(<<>>, Above(e)) = {}
      BY DEF Where
    <3> QED  BY <3>2, <3>3 DEF OneOf
  <2> QED  BY <1>1, <1>2, <1>7, <2>1 DEF Owed, ToOpen, Listed, ToRead
<1> QED  BY <1>6, <1>8, <1>9, <1>10 DEF WalkInv

LEMMA WalkOpen == ASSUME WalkInv, OpenDir PROVE WalkInv'
<1> DEFINE path == Last(dirs.item)
           x == At(Last(dirs.item))
<1>1. /\ walk = "walking" /\ open = Closed /\ dirs.item # <<>> /\ dirs' = [dirs EXCEPT !.item = Front(dirs.item)]
      /\ there' = there /\ steady' = steady /\ files' = files
      /\ \/ x \in there \cup {Root} /\ open' = path /\ unread' = {e \in there : Parent[e] = x} /\ walk' = walk
         \/ walk' = "exited" /\ open' = open /\ unread' = unread
  BY DEF OpenDir
<1>2. dirs'.item = Front(dirs.item) /\ dirs'.size = dirs.size /\ dirs' = [item |-> dirs'.item, size |-> dirs'.size]
  BY <1>1 DEF WalkInv, Walked
<1>3. unread = {} /\ dirs.item \in Seq(DirPaths)
  BY <1>1 DEF WalkInv, Walked
<1>4. /\ Front(dirs.item) \in Seq(DirPaths) /\ Len(Front(dirs.item)) < Len(dirs.item) /\ path \in DirPaths
      /\ \A A : /\ Where(Front(dirs.item), A) = Where(dirs.item, A) \ {Len(dirs.item)}
                /\ Len(dirs.item) \in Where(dirs.item, A) <=> x \in A
  BY <1>1, <1>3, WhereFront
<1>5. PICK y \in Dirs \cup {Root} : Names(path, y)
  BY <1>4 DEF DirPaths
<1>6. path # Closed /\ x = y
  BY <1>5, NamesWhere
<1> HIDE DEF path, x
<1>7. Steady'
  BY <1>1 DEF WalkInv, Steady
<1>8. Walked'
  <2>1. there \subseteq Entries
    BY DEF WalkInv, Steady, Trees
  <2> QED  BY <1>1, <1>2, <1>3, <1>4, <1>5, <1>6, <2>1 DEF WalkInv, Walked
<1>9. Roomy'
  <2>1. Len(Front(dirs.item)) \in Nat /\ Len(dirs.item) \in Nat
    BY <1>3, <1>4
  <2> QED  BY <1>1, <1>2, <1>4, <2>1 DEF WalkInv, Roomy
<1>10. ASSUME walk' \in {"walking", "done"} PROVE Owed'
  <2>1. open' = path /\ unread' = {e \in there : Parent[e] = x}
    BY <1>1, <1>10
  <2>2. ASSUME NEW e \in steady \ Dirs
        PROVE  OneOf(Where(Front(dirs.item), Above(e)), Listed(e), unread' \cap Above(e))
    <3> DEFINE D == Where(dirs.item, Above(e))
               F == Listed(e)
    <3>1. OneOf(D, F, {})
      BY <1>1, <1>3, <2>2 DEF WalkInv, Owed, ToOpen, ToRead
    <3>2. e \in Entries /\ Above(e) \subseteq steady \cup {Root} /\ steady \subseteq there /\ there \subseteq Entries
      BY <2>2, SteadyAbove DEF WalkInv, Steady, Trees
    <3>3. Where(Front(dirs.item), Above(e)) = D \ {Len(dirs.item)} /\ (Len(dirs.item) \in D <=> x \in Above(e))
      BY <1>4
    <3> HIDE DEF D, F
    <3>4. CASE x \in Above(e)
      <4>1. D = {Len(dirs.item)} /\ F = {}
        BY <3>1, <3>3, <3>4 DEF OneOf
      <4>2. x # e
        BY <1>5, <1>6, <2>2, <3>2, TreeFacts
      <4>3. PICK c \in Above(e) : c \in Entries /\ Parent[c] = x
        BY <3>2, <3>4, <4>2, AboveDown
      <4>4. c \in unread'
        BY <2>1, <3>2, <4>3, TreeFacts
      <4>5. \A d \in unread' \cap Above(e) : d = c
        BY <2>1, <3>2, <3>4, <4>3, AboveDown
      <4>6. unread' \cap Above(e) = {c}
        BY <4>3, <4>4, <4>5
      <4> QED  BY <3>3, <4>1, <4>6 DEF OneOf, F
    <3>5. CASE x \notin Above(e)
      <4>1. unread' \cap Above(e) = {}
        <5>1. ASSUME NEW c \in unread' \cap Above(e) PROVE FALSE
          <6>1. c \in Entries /\ Parent[c] = x
            BY <2>1, <3>2, <5>1
          <6>2. c # Root /\ Parent[c] \in Above(e)
            BY <3>2, <5>1, <6>1, TreeFacts, AboveIs DEF Climbs
          <6> QED  BY <3>5, <6>1, <6>2
        <5> QED  BY <5>1
      <4>2. D \ {Len(dirs.item)} = D
        BY <3>3, <3>5
      <4> QED  BY <3>1, <3>3, <4>1, <4>2 DEF F
    <3> QED  BY <3>4, <3>5
  <2> QED  BY <1>1, <1>2, <2>2 DEF Owed, ToOpen, Listed, ToRead
<1> QED  BY <1>7, <1>8, <1>9, <1>10 DEF WalkInv

\* An entry that was read goes from what is to be read to the end of an array.
LEMMA OneMoved ==
  ASSUME NEW D, NEW F, NEW U, NEW c, NEW n, OneOf(D, F, U), c \in U
  PROVE  /\ OneOf(D \cup {n}, F, U \ {c})
         /\ OneOf(D, F \cup {n}, U \ {c})
<1>1. D = {} /\ F = {} /\ U = {c}
  BY DEF OneOf
<1> QED  BY <1>1 DEF OneOf

LEMMA StoredIs ==
  ASSUME NEW array, NEW path
  PROVE  /\ Stored(array, path).item = Append(array.item, path)
         /\ Stored(array, path).size = IF Len(Append(array.item, path)) = array.size THEN 2 * array.size ELSE array.size
         /\ Stored(array, path) = [item |-> Stored(array, path).item, size |-> Stored(array, path).size]
BY DEF Stored

\* An array that had room for one more has room for one more when that is stored.
LEMMA StoredRoom ==
  ASSUME NEW array, NEW path, NEW S, array.item \in Seq(S), path \in S, array.size \in Nat, Len(array.item) < array.size
  PROVE  /\ Stored(array, path).item \in Seq(S) /\ Stored(array, path).size \in Nat
         /\ Len(Stored(array, path).item) < Stored(array, path).size
<1> DEFINE s == array.item
           n == array.size
<1>1. s \in Seq(S) /\ n \in Nat /\ Len(s) < n
  OBVIOUS
<1> HIDE DEF s, n
<1>2. Append(s, path) \in Seq(S) /\ Len(Append(s, path)) = Len(s) + 1 /\ Len(s) \in Nat
  BY <1>1
<1>3. LET m == IF Len(Append(s, path)) = n THEN 2 * n ELSE n IN m \in Nat /\ Len(Append(s, path)) < m
  BY <1>1, <1>2
<1> QED  BY <1>2, <1>3, StoredIs DEF s, n

LEMMA WalkRead == ASSUME WalkInv, NEW c \in Entries, ReadDir(c) PROVE WalkInv'
<1> DEFINE path == PathJoin(open, <<c>>)
<1>1. /\ c \in unread /\ unread' = unread \ {c}
      /\ \/ c \in Dirs /\ dirs' = Stored(dirs, path) /\ files' = files
         \/ c \notin Dirs /\ files' = Stored(files, path) /\ dirs' = dirs
      /\ there' = there /\ steady' = steady /\ open' = open /\ walk' = walk
  BY DEF ReadDir
<1>2. open # Closed /\ walk = "walking"
  BY <1>1 DEF WalkInv, Walked
<1>3. PICK x \in Dirs \cup {Root} : Names(open, x) /\ \A e \in unread : Parent[e] = x
  BY <1>2 DEF WalkInv, Walked
<1>4. path = PathTo[c] /\ At(path) = c
  BY <1>1, <1>3, NamesWhere, PathWhere
<1> HIDE DEF path
<1>5. /\ dirs.item \in Seq(DirPaths) /\ files.item \in Seq(FilePaths)
      /\ dirs.size \in Nat /\ files.size \in Nat /\ Len(dirs.item) < dirs.size /\ Len(files.item) < files.size
      /\ dirs = [item |-> dirs.item, size |-> dirs.size]
  BY <1>2 DEF WalkInv, Walked, Roomy
<1>6. (c \in Dirs => path \in DirPaths) /\ (c \notin Dirs => path \in FilePaths)
  <2>1. c \in Dirs => Names(path, c)
    BY <1>4 DEF Names
  <2>2. path \in Seq(Marks)
    BY <1>4, PathIs
  <2> QED  BY <1>4, <2>1, <2>2 DEF DirPaths, FilePaths
<1>7. /\ dirs'.item \in Seq(DirPaths) /\ dirs'.size \in Nat /\ Len(dirs'.item) < dirs'.size
      /\ dirs' = [item |-> dirs'.item, size |-> dirs'.size]
  <2>1. CASE c \in Dirs
    <3>1. dirs' = Stored(dirs, path)
      BY <1>1, <2>1
    <3> QED  BY <1>5, <1>6, <2>1, <3>1, StoredRoom, StoredIs
  <2>2. CASE c \notin Dirs
    BY <1>1, <1>5, <2>2
  <2> QED  BY <2>1, <2>2
<1>8. files'.item \in Seq(FilePaths) /\ files'.size \in Nat /\ Len(files'.item) < files'.size
  <2>1. CASE c \notin Dirs
    <3>1. files' = Stored(files, path)
      BY <1>1, <2>1
    <3> QED  BY <1>5, <1>6, <2>1, <3>1, StoredRoom
  <2>2. CASE c \in Dirs
    BY <1>1, <1>5, <2>2
  <2> QED  BY <2>1, <2>2
<1>9. Steady'
  BY <1>1 DEF WalkInv, Steady
<1>10. Walked'
  BY <1>1, <1>2, <1>7, <1>8 DEF WalkInv, Walked
<1>11. Roomy'
  BY <1>7, <1>8 DEF Roomy
<1>12. ASSUME NEW e \in steady \ Dirs
       PROVE  OneOf(Where(dirs'.item, Above(e)), Where(files'.item, Above(e)), (unread \ {c}) \cap Above(e))
  <2> DEFINE A == Above(e)
             D == Where(dirs.item, A)
             F == Where(files.item, A)
             U == unread \cap A
  <2>1. OneOf(D, F, U)
    BY <1>2, <1>12 DEF WalkInv, Owed, ToOpen, Listed, ToRead
  <2>2. /\ Where(Append(dirs.item, path), A) = IF c \in A THEN D \cup {Len(dirs.item) + 1} ELSE D
        /\ Where(Append(files.item, path), A) = IF c \in A THEN F \cup {Len(files.item) + 1} ELSE F
    <3>1. /\ Where(Append(dirs.item, path), A)
               = IF At(path) \in A THEN Where(dirs.item, A) \cup {Len(dirs.item) + 1} ELSE Where(dirs.item, A)
          /\ Where(Append(files.item, path), A)
               = IF At(path) \in A THEN Where(files.item, A) \cup {Len(files.item) + 1} ELSE Where(files.item, A)
      <4> HIDE DEF A
      <4>1. PICK s, S : s = dirs.item /\ S = DirPaths
        OBVIOUS
      <4>2. PICK t, T : t = files.item /\ T = FilePaths
        OBVIOUS
      <4>3. s \in Seq(S) /\ t \in Seq(T)
        BY <1>5, <4>1, <4>2
      <4>4. /\ Where(Append(s, path), A) = IF At(path) \in A THEN Where(s, A) \cup {Len(s) + 1} ELSE Where(s, A)
            /\ Where(Append(t, path), A) = IF At(path) \in A THEN Where(t, A) \cup {Len(t) + 1} ELSE Where(t, A)
        BY <4>3, WhereAppend
      <4> QED  BY <4>1, <4>2, <4>4
    <3> HIDE DEF A
    <3> QED  BY <1>4, <3>1 DEF D, F
  <2>3. (unread \ {c}) \cap A = U \ {c} /\ (c \in A <=> c \in U)
    BY <1>1
  <2>4. \/ dirs'.item = Append(dirs.item, path) /\ files'.item = files.item
        \/ files'.item = Append(files.item, path) /\ dirs'.item = dirs.item
    BY <1>1, StoredIs
  <2> HIDE DEF A, D, F, U
  <2>5. CASE c \in A
    <3>1. PICK m, n : m = Len(dirs.item) + 1 /\ n = Len(files.item) + 1
      OBVIOUS
    <3>2. OneOf(D \cup {m}, F, U \ {c}) /\ OneOf(D, F \cup {n}, U \ {c})
      BY <2>1, <2>3, <2>5, OneMoved
    <3>3. \/ Where(dirs'.item, A) = D \cup {m} /\ Where(files'.item, A) = F
          \/ Where(dirs'.item, A) = D /\ Where(files'.item, A) = F \cup {n}
      BY <2>2, <2>4, <2>5, <3>1 DEF D, F
    <3> QED  BY <2>3, <3>2, <3>3 DEF A
  <2>6. CASE c \notin A
    <3>1. U \ {c} = U
      BY <2>3, <2>6
    <3>2. Where(dirs'.item, A) = D /\ Where(files'.item, A) = F
      BY <2>2, <2>4, <2>6 DEF D, F
    <3> QED  BY <2>1, <2>3, <3>1, <3>2 DEF A
  <2> QED  BY <2>5, <2>6
<1>13. Owed'
  BY <1>1, <1>12 DEF Owed, ToOpen, Listed, ToRead
<1> QED  BY <1>9, <1>10, <1>11, <1>13 DEF WalkInv

\* A directory is closed when all of it was read; the last one closed ends the walk.
LEMMA WalkCloses == ASSUME WalkInv, CloseDir \/ EndWalk \/ FreeFiles PROVE WalkInv'
<1>1. CASE CloseDir
  <2>1. /\ open' = Closed /\ unread = {} /\ unread' = unread /\ dirs' = dirs /\ files' = files
        /\ there' = there /\ steady' = steady /\ walk' = walk
    BY <1>1 DEF CloseDir
  <2> QED  BY <2>1 DEF WalkInv, Steady, Walked, Roomy, Owed, ToOpen, Listed, ToRead
<1>2. CASE EndWalk
  <2>1. /\ walk = "walking" /\ open = Closed /\ open' = open /\ unread' = unread /\ files' = files
        /\ dirs.item = <<>> /\ dirs' = NoArray /\ there' = there /\ steady' = steady /\ walk' = "done"
    BY <1>2 DEF EndWalk
  <2>2. dirs'.item = dirs.item /\ dirs'.size = 0 /\ dirs' = [item |-> dirs'.item, size |-> dirs'.size]
    BY <2>1 DEF NoArray
  <2> QED  BY <2>1, <2>2 DEF WalkInv, Steady, Walked, Roomy, Owed, ToOpen, Listed, ToRead
<1>3. CASE FreeFiles
  <2>1. /\ walk = "done" /\ walk' = "freed" /\ files' = NoArray /\ dirs' = dirs
        /\ open' = open /\ unread' = unread /\ there' = there /\ steady' = steady
    BY <1>3 DEF FreeFiles
  <2>2. files'.item = <<>> /\ files'.size = 0 /\ <<>> \in Seq(FilePaths)
    BY <2>1 DEF NoArray
  <2> QED  BY <2>1, <2>2 DEF WalkInv, Steady, Walked, Roomy
<1> QED  BY <1>1, <1>2, <1>3

\* Whoever creates or deletes an entry, or is seen to, does nothing to what stays throughout.
LEMMA WalkChanged == ASSUME WalkInv, NEW c \in Entries, Changed(c) PROVE WalkInv'
<1>1. /\ walk = "walking" /\ there' = (IF c \in there THEN there \ {c} ELSE there \cup {c}) /\ there' \in Trees
      /\ steady' = steady \ {c}
      /\ \/ unread' = unread
         \/ unread' = unread \ {c}
         \/ c \notin there /\ open # Closed /\ Parent[c] = At(open) /\ unread' = unread \cup {c}
      /\ dirs' = dirs /\ files' = files /\ open' = open /\ walk' = walk
  BY DEF Changed
<1>2. Steady /\ Walked /\ Roomy /\ Owed
  BY <1>1 DEF WalkInv
<1>3. ASSUME NEW e \in steady' PROVE Parent[e] # c
  <2>1. e \in steady /\ e # c /\ e \in there
    BY <1>1, <1>2, <1>3 DEF Steady
  <2>2. e \in there'
    BY <1>1, <2>1
  <2>3. Parent[e] \in there' \cup {Root} /\ Parent[e] \in steady \cup {Root}
    BY <1>1, <1>2, <2>1, <2>2 DEF Steady, Trees
  <2>4. c \in steady => c \notin there'
    BY <1>1, <1>2 DEF Steady
  <2> QED  BY <2>3, <2>4, TreeFacts
<1>4. Steady'
  <2>1. steady' \subseteq there'
    BY <1>1, <1>2 DEF Steady
  <2>2. \A e \in steady' : Parent[e] \in steady' \cup {Root}
    BY <1>1, <1>2, <1>3 DEF Steady
  <2> QED  BY <1>1, <2>1, <2>2 DEF Steady, Trees
<1>5. Walked'
  <2>1. CASE open = Closed
    <3>1. unread' = {}
      BY <1>1, <1>2, <2>1 DEF Walked
    <3> QED  BY <1>1, <1>2, <2>1, <3>1 DEF Walked
  <2>2. CASE open # Closed
    <3>1. PICK x \in Dirs \cup {Root} : Names(open, x) /\ \A e \in unread : Parent[e] = x
      BY <1>2, <2>2 DEF Walked
    <3>2. At(open) = x
      BY <3>1, NamesWhere
    <3>3. unread' \subseteq Entries /\ \A e \in unread' : Parent[e] = x
      BY <1>1, <1>2, <2>2, <3>1, <3>2 DEF Walked
    <3> QED  BY <1>1, <1>2, <2>2, <3>1, <3>3 DEF Walked
  <2> QED  BY <2>1, <2>2
<1>6. Roomy'
  BY <1>1, <1>2 DEF Roomy
<1>7. Owed'
  <2>1. ASSUME NEW e \in steady' \ Dirs PROVE e \in steady \ Dirs /\ ToRead(e)' = ToRead(e)
    <3>1. c \notin Above(e)
      <4>1. e \in Entries /\ Above(e) \subseteq steady' \cup {Root}
        <5>1. e \in Entries /\ Climbs(steady' \cup {Root})
          BY <1>4, <2>1 DEF Steady, Trees, Climbs
        <5> QED  BY <5>1, AboveIs
      <4> QED  BY <1>1, <4>1, TreeFacts
    <3>2. unread' \cap Above(e) = unread \cap Above(e)
      BY <1>1, <3>1
    <3> QED  BY <1>1, <2>1, <3>2 DEF ToRead
  <2> QED  BY <1>1, <1>2, <2>1 DEF Owed, ToOpen, Listed
<1> QED  BY <1>4, <1>5, <1>6, <1>7 DEF WalkInv


-----------------------------------------------------------------------------
(* The read, and the whole *)

\* A call that measures the file, or reads a part of it.
LEMMA ReadSteps ==
  ASSUME ReadInv, (\E fn \in {"binary", "all"} : BeginRead(fn)) \/ BinaryRead \/ ReadChunk \/ ReadFails \/ FileWritten
  PROVE  ReadInv'
<1> USE DEF ReadInv
<1>1. ASSUME NEW fn \in {"binary", "all"}, BeginRead(fn) PROVE ReadInv'
  <2>1. /\ len' = len /\ same' = same
        /\ rd' = IF fn = "binary" THEN [NoRead EXCEPT !.fn = fn, !.size = len]
                 ELSE [NoRead EXCEPT !.fn = fn, !.chunk = Chunk]
    BY <1>1 DEF BeginRead
  <2>2. rd' = [fn |-> fn, rc |-> 1, size |-> IF fn = "binary" THEN len ELSE 0, used |-> 0,
               chunk |-> IF fn = "binary" THEN 0 ELSE Chunk]
    BY <2>1 DEF NoRead
  <2>3. Chunk \in Nat
    BY FilesAssumption
  <2>4. CASE fn = "binary"
    <3>1. rd' = [fn |-> "binary", rc |-> 1, size |-> len, used |-> 0, chunk |-> 0]
      BY <2>2, <2>4
    <3>2. rd'.fn = "binary" /\ rd'.rc = 1 /\ rd'.size = len /\ rd'.used = 0
      BY <3>1
    <3>3. rd' \in [fn : {"none", "binary", "all"}, rc : {-1, 0, 1}, size : Nat, used : Nat, chunk : Nat]
      BY <3>1
    <3> QED  BY <2>1, <3>2, <3>3
  <2>5. CASE fn = "all"
    <3>1. rd' = [fn |-> "all", rc |-> 1, size |-> 0, used |-> 0, chunk |-> Chunk]
      BY <2>2, <2>5
    <3>2. rd'.fn = "all" /\ rd'.rc = 1 /\ rd'.size = 0 /\ rd'.used = 0
      BY <3>1
    <3>3. rd' \in [fn : {"none", "binary", "all"}, rc : {-1, 0, 1}, size : Nat, used : Nat, chunk : Nat]
      BY <2>3, <3>1
    <3> QED  BY <2>1, <3>2, <3>3
  <2> QED  BY <2>4, <2>5
<1>2. CASE BinaryRead
  <2>1. /\ len' = len /\ same' = same /\ rd.fn = "binary" /\ rd.rc = 1
        /\ rd' = [rd EXCEPT !.used = IF len < rd.size THEN len ELSE rd.size,
                            !.rc = IF rd.size > 0 /\ len >= rd.size THEN 0 ELSE -1]
    BY <1>2 DEF BinaryRead
  <2> QED  BY <2>1
<1>3. CASE ReadChunk
  <2> DEFINE size == IF rd.used + rd.chunk + 1 > rd.size THEN rd.used + rd.chunk + 1 ELSE rd.size
             rest == IF len > rd.used THEN len - rd.used ELSE 0
             n == IF rest < rd.chunk THEN rest ELSE rd.chunk
  <2>1. /\ len' = len /\ same' = same /\ rd.fn = "all" /\ rd.rc = 1
        /\ rd' = IF n < rd.chunk
                 THEN [rd EXCEPT !.used = rd.used + n, !.rc = 0, !.size = rd.used + n + 1]
                 ELSE [rd EXCEPT !.used = rd.used + n, !.size = size, !.chunk = 2 * rd.chunk]
    BY <1>3 DEF ReadChunk
  <2>2. /\ size \in Nat /\ n \in Nat /\ n <= rd.chunk /\ rd.used + n < size
        /\ (rd.used <= len => rd.used + n <= len /\ (n < rd.chunk => rd.used + n = len))
    OBVIOUS
  <2> HIDE DEF size, n, rest
  <2>3. CASE n < rd.chunk
    <3>1. rd' = [fn |-> rd.fn, rc |-> 0, size |-> rd.used + n + 1, used |-> rd.used + n, chunk |-> rd.chunk]
      BY <2>1, <2>3
    <3> QED  BY <2>1, <2>2, <2>3, <3>1
  <2>4. CASE ~ (n < rd.chunk)
    <3>1. rd' = [fn |-> rd.fn, rc |-> rd.rc, size |-> size, used |-> rd.used + n, chunk |-> 2 * rd.chunk]
      BY <2>1, <2>4
    <3> QED  BY <2>1, <2>2, <2>4, <3>1
  <2> QED  BY <2>3, <2>4
<1>4. CASE ReadFails
  <2>1. len' = len /\ same' = same /\ rd' = [rd EXCEPT !.rc = -1]
    BY <1>4 DEF ReadFails
  <2> QED  BY <2>1
<1>5. CASE FileWritten
  <2>1. len' \in 0..MaxFile /\ same' = FALSE /\ rd' = rd
    BY <1>5 DEF FileWritten
  <2> QED  BY <2>1, FilesAssumption
<1> QED  BY <1>1, <1>2, <1>3, <1>4, <1>5

LEMMA FilesStart == FilesInit => WalkInv /\ ReadInv
<1> SUFFICES ASSUME FilesInit PROVE WalkInv /\ ReadInv
  OBVIOUS
<1>1. Steady
  BY DEF FilesInit, Steady
<1>2. Walked /\ Roomy
  BY DEF FilesInit, Walked, Roomy, NoArray
<1>3. ReadInv
  BY FilesAssumption DEF FilesInit, ReadInv, NoRead
<1> QED  BY <1>1, <1>2, <1>3 DEF WalkInv, FilesInit

\* What the invariants see, as it was.
LEMMA WalkKept ==
  ASSUME WalkInv, there' = there, UNCHANGED walkVars
  PROVE  WalkInv'
<1>1. steady' = steady /\ dirs' = dirs /\ files' = files /\ open' = open /\ unread' = unread /\ walk' = walk
  BY DEF walkVars
<1> QED  BY <1>1 DEF WalkInv, Steady, Walked, Roomy, Owed, ToOpen, Listed, ToRead

LEMMA ReadKept == ASSUME ReadInv, UNCHANGED <<len, same, rd>> PROVE ReadInv'
  BY DEF ReadInv

LEMMA FilesKept == WalkInv /\ ReadInv /\ [FilesNext]_fileVars => (WalkInv /\ ReadInv)'
<1> SUFFICES ASSUME WalkInv, ReadInv, [FilesNext]_fileVars PROVE (WalkInv /\ ReadInv)'
  OBVIOUS
<1>1. ASSUME NEW root \in {<<Root>>, <<Root, SEP>>}, BeginWalk(root) PROVE (WalkInv /\ ReadInv)'
  <2>1. UNCHANGED <<len, same, rd>>
    BY <1>1 DEF BeginWalk
  <2> QED  BY <1>1, <2>1, WalkBegin, ReadKept
<1>2. CASE OpenDir
  <2>1. UNCHANGED <<len, same, rd>>
    BY <1>2 DEF OpenDir
  <2> QED  BY <1>2, <2>1, WalkOpen, ReadKept
<1>3. CASE CloseDir \/ EndWalk \/ FreeFiles
  <2>1. UNCHANGED <<len, same, rd>>
    BY <1>3 DEF CloseDir, EndWalk, FreeFiles
  <2> QED  BY <1>3, <2>1, WalkCloses, ReadKept
<1>4. ASSUME NEW e \in Entries, ReadDir(e) PROVE (WalkInv /\ ReadInv)'
  <2>1. UNCHANGED <<len, same, rd>>
    BY <1>4 DEF ReadDir
  <2> QED  BY <1>4, <2>1, WalkRead, ReadKept
<1>5. ASSUME NEW e \in Entries, Changed(e) PROVE (WalkInv /\ ReadInv)'
  <2>1. UNCHANGED <<len, same, rd>>
    BY <1>5 DEF Changed
  <2> QED  BY <1>5, <2>1, WalkChanged, ReadKept
<1>6. CASE (\E fn \in {"binary", "all"} : BeginRead(fn)) \/ BinaryRead \/ ReadChunk \/ ReadFails \/ FileWritten
  <2>1. there' = there /\ UNCHANGED walkVars
    BY <1>6 DEF BeginRead, BinaryRead, ReadChunk, ReadFails, FileWritten
  <2> QED  BY <1>6, <2>1, WalkKept, ReadSteps
<1>7. CASE UNCHANGED fileVars
  <2>1. there' = there /\ UNCHANGED walkVars /\ UNCHANGED <<len, same, rd>>
    BY <1>7 DEF fileVars
  <2> QED  BY <2>1, WalkKept, ReadKept
<1> QED  BY <1>1, <1>2, <1>3, <1>4, <1>5, <1>6, <1>7 DEF FilesNext

LEMMA FilesAlways == FilesSpec => [](WalkInv /\ ReadInv)
  BY FilesStart, FilesKept, PTL DEF FilesSpec

\* A walk that is done lists a file that was there throughout at one place, under its path.
LEMMA WalkDone ==
  ASSUME WalkInv, walk = "done"
  PROVE  /\ \A e \in steady \ Dirs : Cardinality({i \in DOMAIN files.item : files.item[i] = PathTo[e]}) = 1
         /\ Range(files.item) \subseteq {PathTo[e] : e \in Entries \ Dirs}
<1>1. files.item \in Seq(FilePaths) /\ dirs.item = <<>> /\ unread = {}
  BY DEF WalkInv, Walked
<1>2. \A i \in DOMAIN files.item : files.item[i] \in FilePaths
  BY <1>1
<1>3. ASSUME NEW e \in steady \ Dirs
      PROVE  Cardinality({i \in DOMAIN files.item : files.item[i] = PathTo[e]}) = 1
  <2>1. e \in Entries /\ OneOf(ToOpen(e), Listed(e), ToRead(e)) /\ e \in Above(e)
    BY <1>3, SteadyAbove, AboveIs DEF WalkInv, Owed
  <2>2. ToOpen(e) = {} /\ ToRead(e) = {}
    BY <1>1 DEF ToOpen, Where, ToRead
  <2>3. PICK i : Listed(e) = {i}
    BY <2>1, <2>2 DEF OneOf
  <2>4. ASSUME NEW j \in DOMAIN files.item PROVE files.item[j] = PathTo[e] <=> At(files.item[j]) \in Above(e)
    <3>1. PICK d \in Entries \ Dirs : files.item[j] = PathTo[d]
      BY <1>2, <2>4 DEF FilePaths
    <3>2. At(files.item[j]) = d
      BY <3>1, PathWhere
    <3>3. At(PathTo[e]) = e
      BY <2>1, PathWhere
    <3>4. d \in Above(e) => d = e
      BY <2>1, TreeFacts, AboveFile
    <3> QED  BY <2>1, <3>1, <3>2, <3>3, <3>4
  <2>5. {j \in DOMAIN files.item : files.item[j] = PathTo[e]} = {i}
    BY <2>3, <2>4 DEF Listed, Where
  <2> QED  BY <2>5, FS_Singleton
<1> QED  BY <1>2, <1>3 DEF FilePaths, Range

\* The arrays of the walk and the buffer of file_read_all are not written beyond their
\* ends (file.c:150 and file_read_all), however many entries there are.
THEOREM FilesTypeCorrect == FilesSpec => []FilesTypeOK
<1>1. WalkInv /\ ReadInv => FilesTypeOK
  BY DEF WalkInv, Steady, Walked, Roomy, ReadInv, FilesTypeOK
<1> QED  BY <1>1, FilesAlways, PTL

\* fs_path_walk (file.c:150) returns each file that was there throughout once, under its
\* path, and nothing that is a directory, whatever other processes create and delete
\* meanwhile; and a read that succeeds while nobody writes has the whole file.
THEOREM ReadsAreComplete == FilesSpec => []ReadsComplete
<1>1. WalkInv /\ ReadInv => ReadsComplete
  BY WalkDone DEF ReadInv, ReadsComplete
<1> QED  BY <1>1, FilesAlways, PTL

-----------------------------------------------------------------------------
(* Strings *)

\* A place where str_sep can be told to go on: the begin, the end, or after a separator.
Resumes(s, p) == p = 1 \/ p = Len(s) + 1 \/ s[p - 1] \in Sep

\* The memory beyond *str is still the string.
Uncut(s, b, p) ==
  /\ b \in Seq(Chars \cup {Ending}) /\ Len(b) = Len(s) + 1 /\ b[Len(b)] = Ending
  /\ p \in 1..(Len(s) + 1) /\ Resumes(s, p)
  /\ \A i \in p..Len(s) : b[i] = s[i]

\* What was returned began before *str, and all of it did when there was no more.
Before(s, p) == {i \in Starts(s) : i < p}

Cutting == Uncut(word, memory, cur) /\ (Exhausted => cur = Len(word) + 1)

Returned ==
  /\ tokens \in Seq(Seq(Chars))
  /\ TokensFrom(IF Exhausted THEN Front(tokens) ELSE tokens, word, Before(word, cur))

WordInv ==
  /\ word \in Words /\ byte \in 0..255 /\ EditsAgree
  /\ IF memory = <<>> THEN cur = 0 /\ tokens = <<>> ELSE Cutting
  /\ Returned

LEMMA MinIs ==
  ASSUME NEW T, T \subseteq Nat, T # {}
  PROVE  Min(T) \in T /\ \A i \in T : Min(T) <= i
<1>1. \E m \in T : \A i \in T : m <= i
  BY LeastNat
<1> QED  BY <1>1 DEF Min

LEMMA MaxIs ==
  ASSUME NEW n \in Nat, NEW T, T \subseteq 0..n, T # {}
  PROVE  Max(T) \in T /\ \A i \in T : i <= Max(T)
<1> DEFINE U == {n - i : i \in T}
<1>1. U \subseteq Nat /\ U # {}
  <2>1. \A i \in 0..n : n - i \in Nat
    BY SMT
  <2> QED  BY <2>1
<1>2. PICK u \in U : \A v \in U : u <= v
  <2> HIDE DEF U
  <2> QED  BY <1>1, LeastNat
<1>3. PICK m \in T : u = n - m
  BY <1>2
<1>4. \A i \in T : i <= m
  <2> SUFFICES ASSUME NEW i \in T PROVE i <= m
    OBVIOUS
  <2>1. n - i \in U
    OBVIOUS
  <2>2. n - m <= n - i
    BY <1>2, <1>3, <2>1
  <2>3. i \in 0..n /\ m \in 0..n
    OBVIOUS
  <2> QED  BY <2>2, <2>3, SMT
<1> QED  BY <1>4 DEF Max

\* A part of a string.
LEMMA PartIs ==
  ASSUME NEW S, NEW s \in Seq(S), NEW m \in Nat \ {0}, NEW n \in 0..Len(s), m <= n + 1
  PROVE  /\ SubSeq(s, m, n) \in Seq(S) /\ Len(SubSeq(s, m, n)) = n + 1 - m
         /\ \A i \in 1..(n + 1 - m) : SubSeq(s, m, n)[i] = s[m + i - 1]
<1>1. \A i \in m..n : s[i] \in S
  OBVIOUS
<1>2. m \in Int /\ n \in Int /\ (IF m <= n THEN n - m + 1 ELSE 0) = n + 1 - m /\ n - m + 1 = n + 1 - m
  BY SMT
<1> QED  BY <1>1, <1>2, SubSeqProperties

\* Two parts that are the same, as far as they go.
LEMMA SamePart ==
  ASSUME NEW S, NEW s \in Seq(S), NEW T, NEW t \in Seq(T), NEW m \in Nat \ {0}, NEW n \in Nat,
         n <= Len(s), n <= Len(t), m <= n + 1, \A i \in m..n : s[i] = t[i]
  PROVE  SubSeq(s, m, n) = SubSeq(t, m, n)
<1> DEFINE U == S \cup T
<1>1. s \in Seq(U) /\ t \in Seq(U) /\ n \in 0..Len(s) /\ n \in 0..Len(t)
  OBVIOUS
<1>2. \A i \in 1..(n + 1 - m) : m + i - 1 \in m..n
  BY SMT
<1> HIDE DEF U
<1> DEFINE a == SubSeq(s, m, n)
           b == SubSeq(t, m, n)
<1>3. a \in Seq(U) /\ Len(a) = n + 1 - m /\ \A i \in 1..(n + 1 - m) : a[i] = s[m + i - 1]
  BY <1>1, PartIs
<1>4. b \in Seq(U) /\ Len(b) = n + 1 - m /\ \A i \in 1..(n + 1 - m) : b[i] = t[m + i - 1]
  BY <1>1, PartIs
<1> HIDE DEF a, b
<1>5. a = b
  BY <1>2, <1>3, <1>4, SeqEqual
<1> QED  BY <1>5 DEF a, b

LEMMA WordsAre == MaxChars \in Nat /\ Words = {s \in Seq(Chars) : Len(s) <= MaxChars}
<1>1. MaxChars \in Nat
  BY WordAssumption
<1>2. ASSUME NEW s \in Words PROVE s \in Seq(Chars) /\ Len(s) <= MaxChars
  <2>1. PICK n \in 0..MaxChars : s \in [1..n -> Chars]
    BY <1>2 DEF Words
  <2>2. s \in Seq(Chars) /\ Len(s) = n
    BY <1>1, <2>1
  <2> QED  BY <1>1, <2>2
<1>3. ASSUME NEW s \in Seq(Chars), Len(s) <= MaxChars PROVE s \in Words
  <2>1. Len(s) \in 0..MaxChars /\ s \in [1..Len(s) -> Chars]
    BY <1>1, <1>3
  <2> QED  BY <2>1 DEF Words
<1> QED  BY <1>1, <1>2, <1>3

\* What the two loops over a string find.
LEMMA UptoIs ==
  ASSUME NEW S, NEW s \in Seq(S), NEW bad
  PROVE  LET k == Upto(s, bad)
         IN /\ k \in 0..Len(s) /\ (k # 0 => s[k] \notin bad)
            /\ \A i \in (k + 1)..Len(s) : s[i] \in bad
<1> DEFINE T == {0} \cup {i \in DOMAIN s : s[i] \notin bad}
           k == Upto(s, bad)
<1>1. Len(s) \in Nat /\ DOMAIN s = 1..Len(s) /\ T \subseteq 0..Len(s) /\ T # {}
  OBVIOUS
<1>2. k = Max(T)
  BY DEF Upto
<1> HIDE DEF k
<1>3. k \in T /\ \A i \in T : i <= k
  <2> HIDE DEF T
  <2> QED  BY <1>1, <1>2, MaxIs
<1>4. k \in 0..Len(s) /\ (k # 0 => s[k] \notin bad)
  BY <1>1, <1>3
<1>5. ASSUME NEW i \in (k + 1)..Len(s) PROVE s[i] \in bad
  <2>1. i \in 1..Len(s) /\ ~ (i <= k)
    BY <1>1, <1>4, SMT
  <2> QED  BY <1>1, <1>3, <2>1
<1> QED  BY <1>4, <1>5 DEF k

LEMMA SkipIs ==
  ASSUME NEW S, NEW s \in Seq(S), NEW p \in 1..(Len(s) + 1), NEW set
  PROVE  LET k == SkipOver(s, p, set)
         IN /\ k \in p..(Len(s) + 1) /\ (k # Len(s) + 1 => k \in 1..Len(s) /\ s[k] \notin set)
            /\ \A i \in p..(k - 1) : s[i] \in set
<1> DEFINE T == {i \in p..Len(s) : s[i] \notin set} \cup {Len(s) + 1}
           k == SkipOver(s, p, set)
<1>1. Len(s) \in Nat /\ p \in Nat /\ p >= 1 /\ p <= Len(s) + 1
  OBVIOUS
<1>2. T \subseteq Nat /\ T # {} /\ \A i \in T : i \in p..(Len(s) + 1)
  BY <1>1
<1>3. k = Min(T)
  BY DEF SkipOver
<1> HIDE DEF k
<1>4. k \in T /\ \A i \in T : k <= i
  <2> HIDE DEF T
  <2> QED  BY <1>2, <1>3, MinIs
<1>5. k \in p..(Len(s) + 1) /\ (k # Len(s) + 1 => k \in 1..Len(s) /\ s[k] \notin set)
  BY <1>1, <1>2, <1>4
<1>6. ASSUME NEW i \in p..(k - 1) PROVE s[i] \in set
  <2>1. i \in p..Len(s) /\ ~ (k <= i)
    BY <1>1, <1>5, SMT
  <2> QED  BY <1>4, <2>1
<1> QED  BY <1>5, <1>6 DEF k

\* It is the only place of which this is so.
LEMMA SkipAt ==
  ASSUME NEW S, NEW s \in Seq(S), NEW p \in 1..(Len(s) + 1), NEW set, NEW k \in p..(Len(s) + 1),
         k # Len(s) + 1 => s[k] \notin set, \A i \in p..(k - 1) : s[i] \in set
  PROVE  SkipOver(s, p, set) = k
<1> DEFINE m == SkipOver(s, p, set)
<1>1. /\ m \in p..(Len(s) + 1) /\ (m # Len(s) + 1 => s[m] \notin set)
      /\ \A i \in p..(m - 1) : s[i] \in set
  BY SkipIs
<1> HIDE DEF m
<1>2. Len(s) \in Nat /\ p \in Nat
  OBVIOUS
<1>3. ~ (m < k)
  <2> SUFFICES ASSUME m < k PROVE FALSE
    OBVIOUS
  <2>1. m \in p..(k - 1) /\ m # Len(s) + 1
    BY <1>1, <1>2, SMT
  <2> QED  BY <1>1, <2>1
<1>4. ~ (k < m)
  <2> SUFFICES ASSUME k < m PROVE FALSE
    OBVIOUS
  <2>1. k \in p..(m - 1) /\ k # Len(s) + 1
    BY <1>1, <1>2, SMT
  <2> QED  BY <1>1, <2>1
<1>5. m = k
  BY <1>1, <1>2, <1>3, <1>4, SMT
<1> QED  BY <1>5 DEF m

\* What EditsAgree says of one call, and of one byte.
Agree(op, was, ret, new) ==
  LET lead == Len(was) - Len(new)
      cut(n) == SubSeq(was, n + 1, n + Len(new))
      blank(n) == \A i \in 1..n : was[i] \in {" "}
  IN /\ op \in {"rstrip", "strip"} => new = <<>> \/ Last(new) # " "
     /\ op \in {"lstrip", "strip"} => new = <<>> \/ new[1] # " "
     /\ op = "lstrip" => new = cut(lead) /\ blank(lead)
     /\ op \in {"rstrip", "chomp", "suffix"} => new = cut(0)
     /\ op = "strip" => \E n \in 0..lead : new = cut(n) /\ blank(n)
     /\ op = "chomp" => new = <<>> \/ Last(new) # "n"
     /\ op \in Chars =>
          \E f \in [DOMAIN new -> DOMAIN was] :
            Ordered(f, {i \in DOMAIN was : was[i] # op}) /\ \A n \in DOMAIN new : new[n] = was[f[n]]
     /\ op \in {"rstrip", "chomp"} => ret = Len(new)

Lower(ch) == IF ch >= 65 THEN ch + 32 ELSE ch
ReadsBack(b) ==
  LET high == Int2Hex(b \div 16)
      low == Int2Hex(b)
  IN FromHex(high, low) = b /\ FromHex(Lower(high), Lower(low)) = b

LEMMA EditsAre == EditsAgree <=> Agree(edit.op, edit.was, edit.ret, word) /\ ReadsBack(byte)
  BY Zenon DEF EditsAgree, Agree, ReadsBack, Lower

LEMMA DigitBack ==
  ASSUME NEW n \in 0..15
  PROVE  /\ Int2Hex(n) \in 48..57 \/ Int2Hex(n) \in 65..70
         /\ Hex2Int(Int2Hex(n)) = n /\ Hex2Int(Lower(Int2Hex(n))) = n
<1>1. n % 16 = n
  BY SMT
<1>2. CASE n <= 9
  <2>1. Int2Hex(n) = 48 + n /\ 48 + n \in 48..57 /\ ~ (48 + n >= 65)
    BY <1>1, <1>2, SMT DEF Int2Hex
  <2>2. Hex2Int(48 + n) = n
    BY <2>1, SMT DEF Hex2Int
  <2> QED  BY <2>1, <2>2 DEF Lower
<1>3. CASE ~ (n <= 9)
  <2> DEFINE m == 55 + n
             k == 87 + n
  <2>1. Int2Hex(n) = m /\ m \in 65..70 /\ m >= 65 /\ m + 32 = k
    BY <1>1, <1>3, SMT DEF Int2Hex
  <2>2. m \notin 48..57 /\ (m \div 32) % 2 = 0 /\ m - 65 + 10 = n
    BY <1>3, SMT
  <2>3. k \notin 48..57 /\ (k \div 32) % 2 = 1 /\ k - 32 = m
    BY <1>3, SMT
  <2> HIDE DEF m, k
  <2>4. Hex2Int(m) = n
    BY <2>1, <2>2 DEF Hex2Int
  <2>5. Hex2Int(k) = n
    BY <2>1, <2>2, <2>3 DEF Hex2Int
  <2> QED  BY <2>1, <2>4, <2>5 DEF Lower
<1> QED  BY <1>2, <1>3

\* What atohstr writes hstrtoa reads, in lower case too.
LEMMA ByteBack == ASSUME NEW b \in 0..255 PROVE ReadsBack(b)
<1> DEFINE h == b \div 16
           l == b % 16
<1>1. h \in 0..15 /\ l \in 0..15 /\ 16 * h + l = b /\ h # -1 /\ l # -1
  BY SMT
<1>2. Int2Hex(b) = Int2Hex(l)
  BY SMT DEF Int2Hex
<1> HIDE DEF h, l
<1>3. \A n \in {h, l} : Hex2Int(Int2Hex(n)) = n /\ Hex2Int(Lower(Int2Hex(n))) = n
  BY <1>1, DigitBack
<1>4. FromHex(Int2Hex(h), Int2Hex(l)) = b /\ FromHex(Lower(Int2Hex(h)), Lower(Int2Hex(l))) = b
  BY <1>1, <1>3 DEF FromHex
<1> QED  BY <1>2, <1>4 DEF ReadsBack, h

\* A string that ends where it is no longer bad.
LEMMA UptoPart ==
  ASSUME NEW s \in Seq(Chars), NEW bad
  PROVE  LET w == SubSeq(s, 1, Upto(s, bad))
         IN /\ w \in Seq(Chars) /\ Len(w) <= Len(s) /\ w = SubSeq(s, 0 + 1, 0 + Len(w))
            /\ \A i \in 1..Len(w) : w[i] = s[i]
            /\ w = <<>> \/ Last(w) \notin bad
<1> DEFINE k == Upto(s, bad)
           w == SubSeq(s, 1, k)
<1>1. k \in 0..Len(s) /\ (k # 0 => s[k] \notin bad) /\ Len(s) \in Nat
  BY UptoIs
<1> HIDE DEF k
<1>2. w \in Seq(Chars) /\ Len(w) = k + 1 - 1 /\ \A i \in 1..(k + 1 - 1) : w[i] = s[1 + i - 1]
  BY <1>1, PartIs
<1>3. k + 1 - 1 = k /\ 0 + 1 = 1 /\ 0 + k = k /\ k <= Len(s) /\ \A i \in 1..k : 1 + i - 1 = i
  BY <1>1, SMT
<1>4. w = SubSeq(s, 0 + 1, 0 + Len(w))
  BY <1>2, <1>3
<1> HIDE DEF w
<1>5. ASSUME w # <<>> PROVE Last(w) \notin bad
  <2>1. k # 0
    BY <1>2, <1>3, <1>5, EmptySeq
  <2>2. k \in 1..k
    BY <1>1, <2>1
  <2> QED  BY <1>1, <1>2, <1>3, <2>1, <2>2 DEF Last
<1> QED  BY <1>2, <1>3, <1>4, <1>5 DEF w, k

\* A string that begins where it is no longer blank.
LEMMA LStripIs ==
  ASSUME NEW s \in Seq(Chars)
  PROVE  LET w == LStrip(s)
             n == Len(s) - Len(w)
         IN /\ w \in Seq(Chars) /\ Len(w) <= Len(s) /\ n \in 0..Len(s)
            /\ w = SubSeq(s, n + 1, n + Len(w)) /\ \A i \in 1..n : s[i] \in {" "}
            /\ w = <<>> \/ w[1] # " "
            /\ w = <<>> \/ (s # <<>> /\ Last(w) = Last(s))
<1> DEFINE k == SkipOver(s, 1, {" "})
           w == SubSeq(s, k, Len(s))
<1>1. Len(s) \in Nat /\ 1 \in 1..(Len(s) + 1)
  BY SMT
<1>2. /\ k \in 1..(Len(s) + 1) /\ (k # Len(s) + 1 => k \in 1..Len(s) /\ s[k] \notin {" "})
      /\ \A i \in 1..(k - 1) : s[i] \in {" "}
  BY <1>1, SkipIs
<1> HIDE DEF k
<1>0. PICK L : L = Len(s)
  OBVIOUS
<1>7. L \in Nat /\ k \in 1..(L + 1)
  BY <1>0, <1>1, <1>2
<1>3. /\ w \in Seq(Chars) /\ Len(w) = Len(s) + 1 - k
      /\ \A i \in 1..(Len(s) + 1 - k) : w[i] = s[k + i - 1]
  <2>1. k \in Nat \ {0} /\ L \in 0..L /\ k <= L + 1
    BY <1>7, SMT
  <2>2. k \in Nat \ {0} /\ Len(s) \in 0..Len(s) /\ k <= Len(s) + 1
    BY <1>0, <2>1
  <2> QED  BY <2>2, PartIs
<1>4. /\ Len(s) - (Len(s) + 1 - k) = k - 1 /\ k - 1 + 1 = k /\ k - 1 + (Len(s) + 1 - k) = Len(s)
      /\ k - 1 \in 0..Len(s) /\ Len(s) + 1 - k <= Len(s)
  <2>1. /\ L - (L + 1 - k) = k - 1 /\ k - 1 + 1 = k /\ k - 1 + (L + 1 - k) = L
        /\ k - 1 \in 0..L /\ L + 1 - k <= L
    BY <1>7, SMT
  <2> QED  BY <1>0, <2>1
<1>5. w = SubSeq(s, k - 1 + 1, k - 1 + Len(w))
  BY <1>3, <1>4
<1> HIDE DEF w
<1>6. ASSUME w # <<>> PROVE w[1] # " " /\ s # <<>> /\ Last(w) = Last(s)
  <2>1. Len(w) # 0
    BY <1>3, <1>6, EmptySeq
  <2>2. L + 1 - k # 0
    BY <1>0, <1>3, <2>1
  <2>3. k # L + 1 /\ L # 0 /\ k + 1 - 1 = k /\ k + (L + 1 - k) - 1 = L
        /\ 1 \in 1..(L + 1 - k) /\ L + 1 - k \in 1..(L + 1 - k)
    BY <1>7, <2>2, SMT
  <2>4. w[1] = s[k] /\ w[Len(w)] = s[L]
    BY <1>0, <1>3, <2>3
  <2>5. s # <<>> /\ s[k] # " "
    BY <1>0, <1>2, <2>3, EmptySeq
  <2> QED  BY <1>0, <2>4, <2>5 DEF Last
<1> QED  BY <1>2, <1>3, <1>4, <1>5, <1>6 DEF w, k, LStrip

LEMMA TrimIs ==
  ASSUME NEW s \in Seq(Chars), NEW S, NEW suffix \in Seq(S), Len(suffix) <= Len(s)
  PROVE  LET w == TrimSuffix(s, suffix)
         IN w \in Seq(Chars) /\ Len(w) <= Len(s) /\ w = SubSeq(s, 0 + 1, 0 + Len(w))
<1> DEFINE alike(k) == \A i \in 0..(k - 1) : s[Len(s) - i] = suffix[Len(suffix) - i]
           T == {n \in 0..Len(suffix) : alike(n)}
           k == Max(T)
           w == SubSeq(s, 1, Len(s) - k)
<1>1. Len(s) \in Nat /\ Len(suffix) \in Nat /\ T \subseteq 0..Len(suffix) /\ 0 \in T
  OBVIOUS
<1>2. k \in 0..Len(suffix)
  <2> HIDE DEF T
  <2>1. T # {}
    BY <1>1
  <2> QED  BY <1>1, <2>1, MaxIs
<1>3. TrimSuffix(s, suffix) = w
  BY DEF TrimSuffix
<1> HIDE DEF k
<1>4. Len(s) - k \in 0..Len(s) /\ 1 <= Len(s) - k + 1 /\ Len(s) - k + 1 - 1 = Len(s) - k /\ Len(s) - k <= Len(s)
  BY <1>1, <1>2, SMT
<1>5. w \in Seq(Chars) /\ Len(w) = Len(s) - k
  BY <1>4, PartIs
<1>6. 0 + 1 = 1 /\ 0 + (Len(s) - k) = Len(s) - k
  BY <1>4, SMT
<1> QED  BY <1>3, <1>4, <1>5, <1>6

\* One more member, which comes after the others.
Gives(f, m, D, S) == m \in Nat /\ D \subseteq Nat /\ f \in [1..m -> D] /\ Ordered(f, S)
Later(S, x) == \A y \in S : y < x
GivesNext(f, m, D, S, x) ==
  \E g : Gives(g, m + 1, D, S \cup {x}) /\ g[m + 1] = x /\ \A n \in 1..m : g[n] = f[n]

LEMMA OrderedPut ==
  ASSUME NEW m, NEW D, NEW f, NEW S, Gives(f, m, D, S), NEW x \in D, Later(S, x)
  PROVE  GivesNext(f, m, D, S, x)
<1> USE DEF Gives, Later, GivesNext
<1> DEFINE g == [n \in 1..(m + 1) |-> IF n = m + 1 THEN x ELSE f[n]]
<1>1. 1..(m + 1) = 1..m \cup {m + 1} /\ m + 1 \notin 1..m /\ DOMAIN f = 1..m
  BY SMT
<1>2. g \in [1..(m + 1) -> D] /\ DOMAIN g = 1..(m + 1) /\ g[m + 1] = x /\ \A n \in 1..m : g[n] = f[n]
  BY <1>1
<1> HIDE DEF g
<1>3. Range(g) = S \cup {x}
  BY <1>1, <1>2 DEF Range, Ordered
<1>4. ASSUME NEW i \in 1..(m + 1), NEW n \in 1..(m + 1), i < n PROVE g[i] < g[n]
  <2>1. i \in 1..m
    BY <1>4, SMT
  <2>2. CASE n = m + 1
    <3>1. f[i] \in S
      BY <1>1, <2>1 DEF Ordered, Range
    <3> QED  BY <1>2, <2>1, <2>2, <3>1
  <2>3. CASE n # m + 1
    <3>1. n \in 1..m
      BY <1>1, <2>3
    <3>2. f[i] < f[n]
      BY <1>1, <1>4, <2>1, <3>1 DEF Ordered
    <3> QED  BY <1>2, <2>1, <3>1, <3>2
  <2> QED  BY <2>2, <2>3
<1>5. Ordered(g, S \cup {x})
  BY <1>2, <1>3, <1>4 DEF Ordered
<1> QED  BY <1>2, <1>5

\* remove_all takes its passes: the recursive function exists.
Pass(st, c, i) == IF st.str[i] = c THEN st ELSE [str |-> [st.str EXCEPT ![st.j] = st.str[i]], j |-> st.j + 1]

LEMMA SqueezeSteps ==
  ASSUME NEW s \in Seq(Chars), NEW c
  PROVE  LET Q == Squeezed(s, c)
         IN Q[0] = [str |-> s, j |-> 1] /\ \A i \in 1..Len(s) : Q[i] = Pass(Q[i - 1], c, i)
<1> DEFINE Steps(f, N) == f = [i \in 0..N |-> IF i = 0 THEN [str |-> s, j |-> 1] ELSE Pass(f[i - 1], c, i)]
           S == {N \in Nat : \E f : Steps(f, N)}
<1>1. 0 \in S
  <2>1. Steps([i \in 0..0 |-> [str |-> s, j |-> 1]], 0)
    BY SMT
  <2> QED  BY <2>1
<1>2. ASSUME NEW N \in Nat, N \in S PROVE N + 1 \in S
  <2>1. PICK f : Steps(f, N)
    BY <1>2
  <2> DEFINE g == [i \in 0..(N + 1) |-> IF i = N + 1 THEN Pass(f[N], c, i) ELSE f[i]]
  <2>2. ASSUME NEW i \in 0..(N + 1)
        PROVE  g[i] = IF i = 0 THEN [str |-> s, j |-> 1] ELSE Pass(g[i - 1], c, i)
    <3>1. CASE i = N + 1
      <4>1. i # 0 /\ i - 1 = N /\ N \in 0..(N + 1) /\ N # N + 1
        BY <3>1, SMT
      <4> QED  BY <3>1, <4>1
    <3>2. CASE i # N + 1
      <4>1. i \in 0..N
        BY <3>2, SMT
      <4>2. f[i] = IF i = 0 THEN [str |-> s, j |-> 1] ELSE Pass(f[i - 1], c, i)
        BY <2>1, <4>1
      <4>3. i # 0 => i - 1 \in 0..(N + 1) /\ i - 1 # N + 1
        BY SMT
      <4> QED  BY <3>2, <4>2, <4>3
    <3> QED  BY <3>1, <3>2
  <2>3. Steps(g, N + 1)
    BY <2>2
  <2>4. N + 1 \in Nat
    OBVIOUS
  <2> QED  BY <2>3, <2>4
<1>3. Len(s) \in S
  <2> HIDE DEF S
  <2>1. Len(s) \in Nat
    OBVIOUS
  <2> QED  BY <1>1, <1>2, <2>1, SetInduction
<1> DEFINE Q == Squeezed(s, c)
<1>4. Steps(Q, Len(s))
  <2>1. Q = CHOOSE f : Steps(f, Len(s))
    BY DEF Squeezed, Pass
  <2> HIDE DEF Q
  <2> QED  BY <1>3, <2>1
<1> HIDE DEF Q
<1>5. 0 \in 0..Len(s) /\ \A i \in 1..Len(s) : i \in 0..Len(s) /\ i # 0
  BY SMT
<1>6. Q[0] = [str |-> s, j |-> 1]
  BY <1>4, <1>5
<1>7. \A i \in 1..Len(s) : Q[i] = Pass(Q[i - 1], c, i)
  BY <1>4, <1>5
<1> QED  BY <1>6, <1>7 DEF Q

\* What remove_all is to leave.
Without(s, c) == {i \in DOMAIN s : s[i] # c}
Picked(w, s, S) == \E f \in [DOMAIN w -> DOMAIN s] : Ordered(f, S) /\ \A n \in DOMAIN w : w[n] = s[f[n]]

\* After i passes: the rest is as it was, and what is to be kept is before j.
Kept(s, c, i, st) ==
  /\ st = [str |-> st.str, j |-> st.j] /\ st.str \in Seq(Chars) /\ Len(st.str) = Len(s) /\ st.j \in 1..(i + 1)
  /\ \A k \in (i + 1)..Len(s) : st.str[k] = s[k]
  /\ \E f \in [1..(st.j - 1) -> 1..Len(s)] :
       Ordered(f, {m \in 1..i : s[m] # c}) /\ \A n \in 1..(st.j - 1) : st.str[n] = s[f[n]]

LEMMA PassKeeps ==
  ASSUME NEW s \in Seq(Chars), NEW c, NEW i \in 1..Len(s), NEW st, Kept(s, c, i - 1, st)
  PROVE  Kept(s, c, i, Pass(st, c, i))
<1> DEFINE j == st.j
           t == st.str
           L == Len(s)
<1>1. L \in Nat /\ i \in 1..L /\ i - 1 + 1 = i
  BY SMT
<1>2. t \in Seq(Chars) /\ Len(t) = L /\ j \in 1..i /\ st = [str |-> t, j |-> j]
      /\ \A k \in i..L : t[k] = s[k]
  BY <1>1 DEF Kept
<1>3. PICK f \in [1..(j - 1) -> 1..L] :
        Ordered(f, {m \in 1..(i - 1) : s[m] # c}) /\ \A n \in 1..(j - 1) : t[n] = s[f[n]]
  BY DEF Kept
<1>4. t[i] = s[i] /\ i \in i..L
  BY <1>1, <1>2
<1>5. CASE s[i] = c
  <2>1. Pass(st, c, i) = st
    BY <1>4, <1>5 DEF Pass
  <2>2. {m \in 1..i : s[m] # c} = {m \in 1..(i - 1) : s[m] # c}
    <3>1. 1..i = 1..(i - 1) \cup {i}
      BY <1>1, SMT
    <3> QED  BY <1>5, <3>1
  <2>3. j \in 1..(i + 1) /\ \A k \in (i + 1)..L : k \in i..L
    BY <1>1, <1>2, SMT
  <2>4. \E h \in [1..(j - 1) -> 1..L] :
          Ordered(h, {m \in 1..i : s[m] # c}) /\ \A n \in 1..(j - 1) : t[n] = s[h[n]]
    BY <1>3, <2>2
  <2>5. \A k \in (i + 1)..L : t[k] = s[k]
    BY <1>2, <2>3
  <2>6. Kept(s, c, i, st)
    BY <1>2, <2>3, <2>4, <2>5, Zenon DEF Kept
  <2> QED  BY <2>1, <2>6
<1>6. CASE s[i] # c
  <2> DEFINE u == [t EXCEPT ![j] = s[i]]
             after == [str |-> u, j |-> j + 1]
  <2>1. Pass(st, c, i) = after
    BY <1>2, <1>4, <1>6 DEF Pass
  <2>2. j \in 1..L /\ j + 1 \in 1..(i + 1) /\ j - 1 \in Nat /\ j - 1 + 1 = j /\ j + 1 - 1 = j
        /\ \A k \in (i + 1)..L : k \in i..L /\ k # j /\ k \in 1..L
    BY <1>1, <1>2, SMT
  <2>3. u \in Seq(Chars) /\ Len(u) = L /\ u[j] = s[i] /\ \A k \in 1..L : k # j => u[k] = t[k]
    <3>1. s[i] \in Chars
      BY <1>1, ElementOfSeq
    <3> QED  BY <1>2, <2>2, <3>1
  <2> HIDE DEF u
  <2>4. \A k \in (i + 1)..L : u[k] = s[k]
    BY <1>2, <2>2, <2>3
  <2> DEFINE S == {m \in 1..(i - 1) : s[m] # c}
  <2>5. S \cup {i} = {m \in 1..i : s[m] # c} /\ \A y \in S : y < i
    <3>1. 1..i = 1..(i - 1) \cup {i} /\ \A y \in 1..(i - 1) : y < i
      BY <1>1, SMT
    <3> QED  BY <1>6, <3>1
  <2> HIDE DEF S
  <2>6. PICK g \in [1..(j - 1 + 1) -> 1..L] :
          Ordered(g, S \cup {i}) /\ g[j - 1 + 1] = i /\ \A n \in 1..(j - 1) : g[n] = f[n]
    <3>1. 1..L \subseteq Nat /\ Ordered(f, S)
      BY <1>3 DEF S
    <3>2. PICK m, D : m = j - 1 /\ D = 1..L
      OBVIOUS
    <3>3. m \in Nat /\ D \subseteq Nat /\ f \in [1..m -> D] /\ i \in D
      BY <1>1, <1>3, <2>2, <3>1, <3>2
    <3>4. Gives(f, m, D, S) /\ Later(S, i)
      BY <2>5, <3>1, <3>3 DEF Gives, Later
    <3>5. GivesNext(f, m, D, S, i)
      BY <3>3, <3>4, OrderedPut
    <3> QED  BY <3>2, <3>5 DEF Gives, GivesNext
  <2>7. g \in [1..j -> 1..L] /\ Ordered(g, {m \in 1..i : s[m] # c}) /\ g[j] = i
    BY <2>2, <2>5, <2>6
  <2>8. ASSUME NEW n \in 1..j PROVE u[n] = s[g[n]]
    <3>1. CASE n = j
      BY <2>3, <2>7, <3>1
    <3>2. CASE n # j
      <4>1. n \in 1..(j - 1) /\ n \in 1..L
        BY <1>1, <1>2, <3>2, SMT
      <4> QED  BY <1>3, <2>3, <2>6, <3>2, <4>1
    <3> QED  BY <3>1, <3>2
  <2>9. after.str = u /\ after.j = j + 1 /\ after = [str |-> after.str, j |-> after.j]
    OBVIOUS
  <2> HIDE DEF after
  <2>10. \E h \in [1..(after.j - 1) -> 1..L] :
           Ordered(h, {m \in 1..i : s[m] # c}) /\ \A n \in 1..(after.j - 1) : after.str[n] = s[h[n]]
    <3>1. 1..(after.j - 1) = 1..j
      BY <2>2, <2>9
    <3> QED  BY <2>7, <2>8, <2>9, <3>1
  <2>11. after.str \in Seq(Chars) /\ Len(after.str) = L /\ after.j \in 1..(i + 1)
         /\ \A k \in (i + 1)..L : after.str[k] = s[k]
    BY <2>2, <2>3, <2>4, <2>9
  <2> QED  BY <2>1, <2>9, <2>10, <2>11, Zenon DEF Kept
<1> QED  BY <1>5, <1>6

LEMMA RemoveIs ==
  ASSUME NEW s \in Seq(Chars), NEW c
  PROVE  LET w == RemoveAll(s, c)
         IN /\ w \in Seq(Chars) /\ Len(w) <= Len(s)
            /\ Picked(w, s, Without(s, c))
<1> DEFINE Q == Squeezed(s, c)
           L == Len(s)
           S == {i \in Nat : i <= L => Kept(s, c, i, Q[i])}
<1>1. Q[0] = [str |-> s, j |-> 1] /\ \A i \in 1..L : Q[i] = Pass(Q[i - 1], c, i)
  BY SqueezeSteps
<1> HIDE DEF Q
<1>2. L \in Nat /\ DOMAIN s = 1..L
  OBVIOUS
<1>3. Kept(s, c, 0, Q[0])
  <2>1. Q[0].str = s /\ Q[0].j = 1 /\ Q[0] = [str |-> Q[0].str, j |-> Q[0].j]
    BY <1>1
  <2>2. 1..(1 - 1) = {} /\ 1..0 = {} /\ 1 \in 1..(0 + 1) /\ \A k \in (0 + 1)..L : k \in 1..L
    BY <1>2, SMT
  <2> DEFINE f == [n \in {} |-> n]
  <2>3. f \in [{} -> 1..L] /\ Ordered(f, {})
    BY DEF Ordered, Range
  <2> HIDE DEF f
  <2>4. \E h \in [1..(Q[0].j - 1) -> 1..L] :
          Ordered(h, {m \in 1..0 : s[m] # c}) /\ \A n \in 1..(Q[0].j - 1) : Q[0].str[n] = s[h[n]]
    BY <2>1, <2>2, <2>3
  <2>5. Q[0].str \in Seq(Chars) /\ Len(Q[0].str) = L /\ Q[0].j \in 1..(0 + 1)
        /\ \A k \in (0 + 1)..L : Q[0].str[k] = s[k]
    BY <2>1, <2>2
  <2> QED  BY <2>1, <2>4, <2>5, Zenon DEF Kept
<1>4. ASSUME NEW n \in Nat, n \in S PROVE n + 1 \in S
  <2>1. ASSUME n + 1 <= L PROVE Kept(s, c, n + 1, Q[n + 1])
    <3>1. n + 1 \in 1..L /\ n + 1 - 1 = n /\ n <= L
      BY <1>2, <2>1, SMT
    <3>2. Kept(s, c, n + 1 - 1, Q[n])
      BY <1>4, <3>1
    <3>3. Q[n + 1] = Pass(Q[n], c, n + 1)
      BY <1>1, <3>1
    <3> QED  BY <3>1, <3>2, <3>3, PassKeeps
  <2> QED  BY <2>1
<1>5. Nat \subseteq S
  <2>1. 0 \in S
    BY <1>3
  <2> HIDE DEF S
  <2> QED  BY <1>4, <2>1, SetInduction
<1>6. Kept(s, c, L, Q[L])
  BY <1>2, <1>5
<1> DEFINE end == Q[L]
           t == end.str
           j == end.j
           w == SubSeq(t, 1, j - 1)
<1>7. RemoveAll(s, c) = w
  BY DEF RemoveAll, Q
<1> HIDE DEF end
<1>8. /\ t \in Seq(Chars) /\ Len(t) = L /\ j \in 1..(L + 1)
      /\ \E f \in [1..(j - 1) -> 1..L] :
           Ordered(f, {m \in 1..L : s[m] # c}) /\ \A n \in 1..(j - 1) : t[n] = s[f[n]]
  BY <1>6, Zenon DEF Kept, end
<1> HIDE DEF t, j
<1>9. j - 1 \in 0..L /\ 1 <= j - 1 + 1 /\ j - 1 + 1 - 1 = j - 1 /\ \A i \in 1..(j - 1) : 1 + i - 1 = i
  BY <1>2, <1>8, SMT
<1>10. w \in Seq(Chars) /\ Len(w) = j - 1 /\ \A i \in 1..(j - 1) : w[i] = t[i]
  BY <1>8, <1>9, PartIs
<1>11. DOMAIN w = 1..(j - 1) /\ Len(w) <= L
  BY <1>2, <1>9, <1>10
<1> HIDE DEF w
<1>12. PICK f \in [1..(j - 1) -> 1..L] :
         Ordered(f, {m \in 1..L : s[m] # c}) /\ \A n \in 1..(j - 1) : t[n] = s[f[n]]
  BY <1>8
<1>13. f \in [DOMAIN w -> DOMAIN s] /\ Ordered(f, {i \in DOMAIN s : s[i] # c})
       /\ \A n \in DOMAIN w : w[n] = s[f[n]]
  BY <1>2, <1>10, <1>11, <1>12
<1> QED  BY <1>7, <1>10, <1>11, <1>13 DEF Picked, Without

\* A call that edits the string.
LEMMA EditKeeps ==
  ASSUME WordInv, EditString
  PROVE  word' \in Words /\ EditsAgree'
<1> DEFINE Good(op, new, ret) == new \in Seq(Chars) /\ Len(new) <= Len(word) /\ Agree(op, word, ret, new)
<1>1. word \in Seq(Chars) /\ Len(word) <= MaxChars /\ Len(word) \in Nat /\ MaxChars \in Nat
  BY WordsAre DEF WordInv
<1>2. \A op \in {"none", "rstrip", "lstrip", "strip", "chomp", "suffix"} : op \notin Chars
  BY WordAssumption
<1>3. ASSUME NEW op, NEW new, NEW ret, Edit(op, new, ret), Good(op, new, ret)
      PROVE  word' \in Words /\ EditsAgree'
  <2>1. word' = new /\ edit' = [op |-> op, was |-> word, ret |-> ret] /\ byte' = byte
    BY <1>3, Zenon DEF Edit
  <2>2. edit'.op = op /\ edit'.was = word /\ edit'.ret = ret
    BY <2>1
  <2>3. new \in Words
    <3>1. Len(new) <= MaxChars /\ new \in Seq(Chars)
      BY <1>1, <1>3
    <3> QED  BY <3>1, WordsAre
  <2>4. Agree(edit'.op, edit'.was, edit'.ret, word')
    BY <1>3, <2>1, <2>2
  <2>5. ReadsBack(byte')
    BY <2>1, ByteBack DEF WordInv
  <2>6. EditsAgree' <=> Agree(edit'.op, edit'.was, edit'.ret, word') /\ ReadsBack(byte')
    BY Zenon DEF EditsAgree, Agree, ReadsBack, Lower
  <2> QED  BY <2>1, <2>3, <2>4, <2>5, <2>6
<1>4. Good("rstrip", RStrip(word), Len(RStrip(word)))
  <2> DEFINE w == RStrip(word)
  <2>1. w \in Seq(Chars) /\ Len(w) <= Len(word) /\ w = SubSeq(word, 0 + 1, 0 + Len(w))
        /\ (w = <<>> \/ Last(w) # " ")
    BY <1>1, UptoPart DEF RStrip
  <2> HIDE DEF w
  <2>2. Agree("rstrip", word, Len(w), w)
    BY <1>2, <2>1 DEF Agree
  <2> QED  BY <2>1, <2>2 DEF w
<1>5. Good("chomp", Chomp(word), Len(Chomp(word)))
  <2> DEFINE w == Chomp(word)
  <2>1. w \in Seq(Chars) /\ Len(w) <= Len(word) /\ w = SubSeq(word, 0 + 1, 0 + Len(w))
        /\ (w = <<>> \/ Last(w) # "n")
    BY <1>1, UptoPart DEF Chomp
  <2> HIDE DEF w
  <2>2. Agree("chomp", word, Len(w), w)
    BY <1>2, <2>1 DEF Agree
  <2> QED  BY <2>1, <2>2 DEF w
<1>6. ASSUME NEW ret PROVE Good("lstrip", LStrip(word), ret)
  <2> DEFINE w == LStrip(word)
             n == Len(word) - Len(w)
  <2>1. /\ w \in Seq(Chars) /\ Len(w) <= Len(word)
        /\ w = SubSeq(word, n + 1, n + Len(w)) /\ \A i \in 1..n : word[i] \in {" "}
        /\ w = <<>> \/ w[1] # " "
    BY <1>1, LStripIs
  <2> HIDE DEF w
  <2>2. Agree("lstrip", word, ret, w)
    BY <1>2, <2>1 DEF Agree
  <2> QED  BY <2>1, <2>2 DEF w
<1>7. ASSUME NEW ret PROVE Good("strip", LStrip(RStrip(word)), ret)
  <2> DEFINE r == RStrip(word)
             w == LStrip(r)
             n == Len(r) - Len(w)
  <2>1. r \in Seq(Chars) /\ Len(r) <= Len(word) /\ (\A i \in 1..Len(r) : r[i] = word[i])
        /\ (r = <<>> \/ Last(r) # " ")
    BY <1>1, UptoPart DEF RStrip
  <2> HIDE DEF r
  <2>2. /\ w \in Seq(Chars) /\ Len(w) <= Len(r) /\ n \in 0..Len(r)
        /\ w = SubSeq(r, n + 1, n + Len(w)) /\ \A i \in 1..n : r[i] \in {" "}
        /\ w = <<>> \/ w[1] # " "
        /\ w = <<>> \/ (r # <<>> /\ Last(w) = Last(r))
    BY <2>1, LStripIs
  <2> HIDE DEF w
  <2>3. Len(r) \in Nat /\ Len(w) \in Nat /\ n + Len(w) = Len(r) /\ n \in 0..(Len(word) - Len(w))
        /\ n \in 0..Len(r) /\ n + 1 \in Nat \ {0} /\ n + 1 <= Len(r) + 1 /\ Len(w) <= Len(word)
    <3>1. PICK a, b, m : a = Len(r) /\ b = Len(w) /\ m = Len(word)
      OBVIOUS
    <3>2. a \in Nat /\ b \in Nat /\ m \in Nat /\ a <= m /\ b <= a
      <4>1. Len(r) \in Nat /\ Len(w) \in Nat /\ Len(word) \in Nat
        <5>1. r \in Seq(Chars) /\ w \in Seq(Chars)
          BY <2>1, <2>2
        <5> HIDE DEF n
        <5> QED  BY <1>1, <5>1
      <4> QED  BY <2>1, <2>2, <3>1, <4>1
    <3>4. n = a - b
      BY <3>1
    <3> HIDE DEF n
    <3>3. /\ n + b = a /\ n \in 0..(m - b) /\ n \in 0..a /\ n + 1 \in Nat \ {0} /\ n + 1 <= a + 1 /\ b <= m
      BY <3>2, <3>4, SMT
    <3> QED  BY <3>1, <3>2, <3>3
  <2> HIDE DEF n
  <2>4. w = SubSeq(word, n + 1, n + Len(w))
    <3>1. SubSeq(r, n + 1, Len(r)) = SubSeq(word, n + 1, Len(r))
      <4>1. \A i \in (n + 1)..Len(r) : i \in 1..Len(r)
        <5>1. Len(r) \in Nat /\ n \in 0..Len(r)
          BY <2>3
        <5> QED  BY <5>1, SMT
      <4>2. PICK m, k : m = n + 1 /\ k = Len(r)
        OBVIOUS
      <4>3. /\ m \in Nat \ {0} /\ k \in Nat /\ k <= Len(r) /\ k <= Len(word) /\ m <= k + 1
            /\ \A i \in m..k : r[i] = word[i]
        <5>1. m \in Nat \ {0} /\ k \in Nat /\ k <= Len(r) /\ k <= Len(word) /\ m <= k + 1
          <6>1. Len(r) \in Nat /\ n + 1 \in Nat \ {0} /\ n + 1 <= Len(r) + 1
            BY <2>3
          <6>2. Len(r) <= Len(word)
            BY <2>1
          <6>3. Len(r) <= Len(r)
            BY <6>1, SMT
          <6> QED  BY <4>2, <6>1, <6>2, <6>3, Zenon
        <5> QED  BY <2>1, <4>1, <4>2, <5>1
      <4>4. r \in Seq(Chars) /\ word \in Seq(Chars)
        BY <1>1, <2>1
      <4>5. SubSeq(r, m, k) = SubSeq(word, m, k)
        BY <4>3, <4>4, SamePart
      <4> QED  BY <4>2, <4>5
    <3> QED  BY <2>2, <2>3, <3>1
  <2>5. \A i \in 1..n : word[i] \in {" "}
    <3>1. \A i \in 1..n : i \in 1..Len(r)
      <4>1. Len(r) \in Nat /\ n \in 0..Len(r)
        BY <2>3
      <4> QED  BY <4>1, SMT
    <3> QED  BY <2>1, <2>2, <3>1
  <2>6. w = <<>> \/ Last(w) # " "
    BY <2>1, <2>2
  <2>7. Agree("strip", word, ret, w)
    BY <1>2, <2>2, <2>3, <2>4, <2>5, <2>6 DEF Agree
  <2> QED  BY <2>2, <2>3, <2>7 DEF w, r
<1>8. ASSUME NEW c \in Chars PROVE Good(c, RemoveAll(word, c), 0)
  <2> DEFINE w == RemoveAll(word, c)
  <2>1. w \in Seq(Chars) /\ Len(w) <= Len(word) /\ Picked(w, word, Without(word, c))
    BY <1>1, RemoveIs
  <2> HIDE DEF w
  <2>2. c \notin {"rstrip", "lstrip", "strip", "chomp", "suffix"}
    BY <1>2, <1>8
  <2>3. Agree(c, word, 0, w)
    BY <2>1, <2>2, Zenon DEF Agree, Picked, Without
  <2> QED  BY <2>1, <2>3 DEF w
<1>9. ASSUME NEW suffix \in {<<"x">>, <<"x", "y">>}, Len(suffix) <= Len(word)
      PROVE  Good("suffix", TrimSuffix(word, suffix), 0)
  <2> DEFINE w == TrimSuffix(word, suffix)
  <2>1. w \in Seq(Chars) /\ Len(w) <= Len(word) /\ w = SubSeq(word, 0 + 1, 0 + Len(w))
    <3>1. suffix \in Seq({"x", "y"})
      <4>1. CASE suffix = <<"x">>
        BY <4>1
      <4>2. CASE suffix = <<"x", "y">>
        BY <4>2
      <4> QED  BY <1>9, <4>1, <4>2
    <3>2. PICK s : s = word
      OBVIOUS
    <3>3. s \in Seq(Chars) /\ Len(suffix) <= Len(s)
      BY <1>1, <1>9, <3>2
    <3>4. LET v == TrimSuffix(s, suffix)
          IN v \in Seq(Chars) /\ Len(v) <= Len(s) /\ v = SubSeq(s, 0 + 1, 0 + Len(v))
      BY <3>1, <3>3, TrimIs
    <3> QED  BY <3>2, <3>4, Zenon
  <2> HIDE DEF w
  <2>2. Agree("suffix", word, 0, w)
    BY <1>2, <2>1 DEF Agree
  <2> QED  BY <2>1, <2>2 DEF w
<1> HIDE DEF Good
<1>10. CASE Edit("rstrip", RStrip(word), Len(RStrip(word)))
  BY <1>3, <1>4, <1>10
<1>11. CASE Edit("lstrip", LStrip(word), LStripResult(word))
  BY <1>3, <1>6, <1>11
<1>12. CASE Edit("strip", LStrip(RStrip(word)), StripResult(word))
  BY <1>3, <1>7, <1>12
<1>13. CASE Edit("chomp", Chomp(word), Len(Chomp(word)))
  BY <1>3, <1>5, <1>13
<1>14. ASSUME NEW c \in Chars, Edit(c, RemoveAll(word, c), 0) PROVE word' \in Words /\ EditsAgree'
  BY <1>3, <1>8, <1>14
<1>15. ASSUME NEW suffix \in {<<"x">>, <<"x", "y">>}, Len(suffix) <= Len(word),
              Edit("suffix", TrimSuffix(word, suffix), 0)
       PROVE  word' \in Words /\ EditsAgree'
  BY <1>3, <1>9, <1>15
<1> QED  BY <1>10, <1>11, <1>12, <1>13, <1>14, <1>15 DEF EditString

-----------------------------------------------------------------------------
(* Tokens *)

From(s, p) == {i \in Starts(s) : i >= p}

\* Where no token goes on: Resumes, or before a separator.
Between(s, p) == Resumes(s, p) \/ (p \in DOMAIN s /\ s[p] \in Sep)

\* The next token and the end of it.
LEMMA TokenRun ==
  ASSUME NEW s \in Seq(Chars), NEW p \in 1..(Len(s) + 1), Between(s, p)
  PROVE  LET L == Len(s)
             b == SkipOver(s, p, Sep)
             q == SkipOver(s, b, Chars \ Sep)
         IN /\ b \in p..(L + 1) /\ \A i \in p..(b - 1) : s[i] \in Sep
            /\ b = L + 1 => From(s, p) = {}
            /\ b # L + 1 => /\ b \in 1..L /\ b \in Starts(s) /\ s[b] \notin Sep
                            /\ q \in (b + 1)..(L + 1) /\ (q # L + 1 => q \in 1..L /\ s[q] \in Sep)
                            /\ \A i \in b..(q - 1) : s[i] \notin Sep
                            /\ \A i \in Starts(s) : i \in p..q => i = b
<1> DEFINE L == Len(s)
           b == SkipOver(s, p, Sep)
           q == SkipOver(s, b, Chars \ Sep)
<1>1. L \in Nat /\ DOMAIN s = 1..L /\ p \in 1..(L + 1) /\ \A i \in 1..L : s[i] \in Chars
  OBVIOUS
<1>2. b \in p..(L + 1) /\ (b # L + 1 => b \in 1..L /\ s[b] \notin Sep) /\ \A i \in p..(b - 1) : s[i] \in Sep
  BY SkipIs
<1> HIDE DEF b
<1>3. b \in 1..(L + 1)
  BY <1>1, <1>2
<1>4. q \in b..(L + 1) /\ (q # L + 1 => q \in 1..L /\ s[q] \notin Chars \ Sep)
      /\ \A i \in b..(q - 1) : s[i] \in Chars \ Sep
  BY <1>3, SkipIs
<1> HIDE DEF q
<1>5. q # L + 1 => q \in 1..L /\ s[q] \in Sep
  BY <1>1, <1>4
<1>6. ASSUME b = L + 1 PROVE From(s, p) = {}
  <2>1. ASSUME NEW i \in Starts(s), i >= p PROVE FALSE
    <3>1. i \in 1..L /\ s[i] \notin Sep
      BY <1>1, <2>1 DEF Starts
    <3>2. i \in p..(b - 1)
      BY <1>1, <1>6, <2>1, <3>1
    <3> QED  BY <1>2, <3>1, <3>2
  <2> QED  BY <2>1 DEF From
<1>7. ASSUME b # L + 1
      PROVE  b \in Starts(s) /\ q \in (b + 1)..(L + 1) /\ \A i \in Starts(s) : i \in p..q => i = b
  <2>1. b \in 1..L /\ s[b] \notin Sep
    BY <1>2, <1>7
  <2>2. b \in Starts(s)
    <3>1. CASE b = p
      <4>1. p # L + 1 /\ s[p] \notin Sep
        BY <1>7, <2>1, <3>1
      <4> QED  BY <1>1, <2>1, <3>1, <4>1 DEF Between, Resumes, Starts
    <3>2. CASE b # p
      <4>1. b - 1 \in p..(b - 1)
        BY <1>1, <1>2, <3>2
      <4> QED  BY <1>1, <1>2, <2>1, <4>1 DEF Starts
    <3> QED  BY <3>1, <3>2
  <2>3. q # b
    BY <1>5, <2>1
  <2>4. ASSUME NEW i \in Starts(s), i \in p..q, i # b PROVE FALSE
    <3>1. i \in 1..L /\ s[i] \notin Sep /\ (i = 1 \/ s[i - 1] \in Sep)
      BY <1>1, <2>4 DEF Starts
    <3>2. CASE i < b
      <4>1. i \in p..(b - 1)
        BY <1>1, <1>2, <2>4, <3>2
      <4> QED  BY <1>2, <3>1, <4>1
    <3>3. CASE i = q
      <4>1. q # L + 1
        BY <1>1, <3>1, <3>3
      <4> QED  BY <1>5, <3>1, <3>3, <4>1
    <3>4. CASE ~ (i < b) /\ i # q
      <4>1. i - 1 \in b..(q - 1) /\ i # 1
        <5>1. b \in Nat /\ q \in Nat /\ p \in Nat /\ i \in p..q /\ b >= 1
          BY <1>1, <1>3, <1>4, <2>4
        <5> QED  BY <2>4, <3>4, <5>1, SMT
      <4> QED  BY <1>4, <3>1, <4>1
    <3> QED  BY <3>2, <3>3, <3>4
  <2>5. q \in (b + 1)..(L + 1)
    BY <1>1, <1>3, <1>4, <2>3
  <2> QED  BY <2>2, <2>4, <2>5
<1> QED  BY <1>2, <1>4, <1>5, <1>6, <1>7 DEF b, q

\* The loop of str_sep_count goes on after the token: the recursive function exists.
Counted(f, s, p) ==
  LET b == SkipOver(s, p, Sep) IN IF b > Len(s) THEN 0 ELSE 1 + f[SkipOver(s, b, Chars \ Sep)]

LEMMA CountGoesOn ==
  ASSUME NEW s \in Seq(Chars), NEW p \in 1..(Len(s) + 1), SkipOver(s, p, Sep) <= Len(s)
  PROVE  SkipOver(s, SkipOver(s, p, Sep), Chars \ Sep) \in (p + 1)..(Len(s) + 1)
<1> DEFINE L == Len(s)
           b == SkipOver(s, p, Sep)
           q == SkipOver(s, b, Chars \ Sep)
<1>1. L \in Nat /\ \A i \in 1..L : s[i] \in Chars
  OBVIOUS
<1>2. b \in p..(L + 1) /\ (b # L + 1 => b \in 1..L /\ s[b] \notin Sep)
  BY SkipIs
<1>3. b <= L
  OBVIOUS
<1> HIDE DEF b
<1>4. b \in 1..L /\ s[b] \in Chars \ Sep /\ b \in 1..(L + 1)
  BY <1>1, <1>2, <1>3
<1>5. q \in b..(L + 1) /\ (q # L + 1 => s[q] \notin Chars \ Sep)
  BY <1>4, SkipIs
<1> HIDE DEF q
<1>6. q # b
  BY <1>1, <1>4, <1>5
<1>7. q \in (p + 1)..(L + 1)
  <2>1. p \in Nat
    OBVIOUS
  <2> QED  BY <1>1, <1>2, <1>5, <1>6, <2>1, SMT
<1> QED  BY <1>7 DEF q, b

LEMMA CountSteps ==
  ASSUME NEW s \in Seq(Chars)
  PROVE  \A p \in 1..(Len(s) + 1) : CountFrom(s)[p] = Counted(CountFrom(s), s, p)
<1> DEFINE L == Len(s)
           P == 1..(L + 1)
           Spelt(f, n) == \A p \in P : L + 1 - p < n => f[p] = Counted(f, s, p)
           S == {n \in Nat : \E f : Spelt(f, n)}
<1>1. L \in Nat
  OBVIOUS
<1>2. \A p \in P : LET b == SkipOver(s, p, Sep) IN ~ (b > L) => SkipOver(s, b, Chars \ Sep) \in (p + 1)..(L + 1)
  <2> SUFFICES ASSUME NEW p \in P, ~ (SkipOver(s, p, Sep) > L)
               PROVE  SkipOver(s, SkipOver(s, p, Sep), Chars \ Sep) \in (p + 1)..(L + 1)
    OBVIOUS
  <2>1. SkipOver(s, p, Sep) \in p..(L + 1)
    BY SkipIs
  <2>2. SkipOver(s, p, Sep) <= L
    BY <1>1, <2>1
  <2> QED  BY <2>2, CountGoesOn
<1>3. 0 \in S
  <2>1. \A p \in P : ~ (L + 1 - p < 0)
    BY <1>1, SMT
  <2> QED  BY <2>1
<1>4. ASSUME NEW n \in Nat, n \in S PROVE n + 1 \in S
  <2>1. PICK f : Spelt(f, n)
    BY <1>4
  <2> DEFINE g == [p \in P |-> IF L + 1 - p < n THEN f[p] ELSE Counted(f, s, p)]
  <2>2. ASSUME NEW p \in P, L + 1 - p < n + 1 PROVE g[p] = Counted(g, s, p)
    <3>1. g[p] = Counted(f, s, p)
      BY <2>1
    <3>2. ASSUME ~ (SkipOver(s, p, Sep) > L)
          PROVE  LET q == SkipOver(s, SkipOver(s, p, Sep), Chars \ Sep) IN g[q] = f[q]
      <4> DEFINE q == SkipOver(s, SkipOver(s, p, Sep), Chars \ Sep)
      <4>1. q \in (p + 1)..(L + 1)
        BY <1>2, <3>2
      <4> HIDE DEF q
      <4>2. q \in P /\ L + 1 - q < n
        BY <1>1, <2>2, <4>1, SMT
      <4>3. g[q] = f[q]
        BY <4>2
      <4> QED  BY <4>3 DEF q
    <3> HIDE DEF g
    <3> QED  BY <3>1, <3>2 DEF Counted
  <2> HIDE DEF g
  <2>3. Spelt(g, n + 1)
    BY <2>2
  <2>4. n + 1 \in Nat
    OBVIOUS
  <2> QED  BY <2>3, <2>4
<1>5. L + 1 \in S
  <2>1. L + 1 \in Nat
    BY <1>1
  <2> HIDE DEF S
  <2> QED  BY <1>3, <1>4, <2>1, SetInduction
<1>6. PICK f : \A p \in P : f[p] = Counted(f, s, p)
  <2>1. PICK f : Spelt(f, L + 1)
    BY <1>5
  <2>2. \A p \in P : L + 1 - p < L + 1
    BY <1>1, SMT
  <2> QED  BY <2>1, <2>2
<1> DEFINE g == [p \in P |-> f[p]]
           Whole(h) == h = [p \in P |-> Counted(h, s, p)]
<1>7. Whole(g)
  <2>1. ASSUME NEW p \in P PROVE g[p] = Counted(g, s, p)
    <3>1. ASSUME ~ (SkipOver(s, p, Sep) > L)
          PROVE  SkipOver(s, SkipOver(s, p, Sep), Chars \ Sep) \in P
      <4>1. SkipOver(s, SkipOver(s, p, Sep), Chars \ Sep) \in (p + 1)..(L + 1)
        BY <1>2, <3>1
      <4> QED  BY <1>1, <4>1
    <3> QED  BY <1>6, <3>1 DEF Counted
  <2> QED  BY <2>1
<1> HIDE DEF g
<1>8. Whole(CountFrom(s))
  <2>1. CountFrom(s) = CHOOSE h : Whole(h)
    BY Zenon DEF CountFrom, Counted
  <2> QED  BY <1>7, <2>1
<1> QED  BY <1>8

\* str_sep_count counts what strtok would find.
LEMMA CountIs ==
  ASSUME NEW s \in Seq(Chars)
  PROVE  StrSepCount(s) = Cardinality(Starts(s))
<1> DEFINE L == Len(s)
           F == CountFrom(s)
           S == {n \in Nat : \A p \in 1..(L + 1) : L + 1 - p < n /\ Between(s, p) =>
                               F[p] = Cardinality(From(s, p)) /\ IsFiniteSet(From(s, p))}
<1>1. L \in Nat /\ DOMAIN s = 1..L
  OBVIOUS
<1>2. \A p \in 1..(L + 1) : F[p] = Counted(F, s, p)
  BY CountSteps
<1> HIDE DEF F
<1>3. 0 \in S
  <2>1. \A p \in 1..(L + 1) : ~ (L + 1 - p < 0)
    BY <1>1, SMT
  <2> QED  BY <2>1
<1>4. ASSUME NEW n \in Nat, n \in S PROVE n + 1 \in S
  <2>1. ASSUME NEW p \in 1..(L + 1), L + 1 - p < n + 1, Between(s, p)
        PROVE  F[p] = Cardinality(From(s, p)) /\ IsFiniteSet(From(s, p))
    <3> DEFINE b == SkipOver(s, p, Sep)
               q == SkipOver(s, b, Chars \ Sep)
    <3>1. /\ b \in p..(L + 1)
          /\ b = L + 1 => From(s, p) = {}
          /\ b # L + 1 => /\ b \in 1..L /\ b \in Starts(s)
                          /\ q \in (b + 1)..(L + 1) /\ (q # L + 1 => q \in 1..L /\ s[q] \in Sep)
                          /\ \A i \in Starts(s) : i \in p..q => i = b
      BY <2>1, TokenRun
    <3>2. F[p] = IF b > L THEN 0 ELSE 1 + F[q]
      BY <1>2 DEF Counted
    <3> HIDE DEF b, q
    <3>3. CASE b = L + 1
      <4>1. b > L
        BY <1>1, <3>3
      <4> QED  BY <3>1, <3>2, <3>3, <4>1, FS_EmptySet
    <3>4. CASE b # L + 1
      <4>1. /\ b \in 1..L /\ b \in Starts(s) /\ q \in (b + 1)..(L + 1) /\ b \in p..(L + 1)
            /\ \A i \in Starts(s) : i \in p..q => i = b
        BY <3>1, <3>4
      <4>2. q \in 1..(L + 1) /\ ~ (b > L) /\ L + 1 - q < n /\ p \in Nat /\ b < q /\ p <= b
        BY <1>1, <2>1, <4>1, SMT
      <4>3. Between(s, q)
        BY <1>1, <3>1, <3>4 DEF Between, Resumes
      <4>4. F[q] = Cardinality(From(s, q)) /\ IsFiniteSet(From(s, q))
        BY <1>4, <4>2, <4>3
      <4>5. \A i \in Starts(s) : i \in Nat
        BY <1>1 DEF Starts
      <4>6. From(s, p) = From(s, q) \cup {b} /\ b \notin From(s, q)
        <5>1. \A i \in Starts(s) : i >= p <=> i >= q \/ i = b
          BY <1>1, <4>1, <4>2, <4>5
        <5>2. ~ (b >= q)
          BY <1>1, <4>1, <4>2
        <5> QED  BY <4>1, <5>1, <5>2 DEF From
      <4>7. Cardinality(From(s, p)) = Cardinality(From(s, q)) + 1 /\ IsFiniteSet(From(s, p))
        BY <4>4, <4>6, FS_AddElement
      <4>8. Cardinality(From(s, q)) \in Nat
        BY <4>4, FS_CardinalityType
      <4> QED  BY <3>2, <4>2, <4>4, <4>7, <4>8
    <3> QED  BY <3>3, <3>4
  <2> QED  BY <2>1
<1>5. L + 1 \in S
  <2>1. L + 1 \in Nat
    BY <1>1
  <2> HIDE DEF S
  <2> QED  BY <1>3, <1>4, <2>1, SetInduction
<1>6. 1 \in 1..(L + 1) /\ L + 1 - 1 < L + 1 /\ Between(s, 1)
  BY <1>1 DEF Between, Resumes
<1>7. F[1] = Cardinality(From(s, 1))
  BY <1>5, <1>6
<1>8. From(s, 1) = Starts(s)
  BY <1>1 DEF From, Starts
<1> QED  BY <1>7, <1>8 DEF StrSepCount, F

\* A token more.
LEMMA TokensPut ==
  ASSUME NEW s \in Seq(Chars), NEW T, NEW ts \in Seq(T), NEW S, S \subseteq Nat, TokensFrom(ts, s, S),
         NEW x \in DOMAIN s, \A y \in S : y < x
  PROVE  TokensFrom(Append(ts, TokenAt(s, x)), s, S \cup {x})
<1> DEFINE m == Len(ts)
           D == DOMAIN s
           us == Append(ts, TokenAt(s, x))
<1>1. m \in Nat /\ D \subseteq Nat /\ DOMAIN ts = 1..m /\ m + 1 \notin 1..m /\ 1..(m + 1) = 1..m \cup {m + 1}
  OBVIOUS
<1>2. DOMAIN us = 1..(m + 1) /\ us[m + 1] = TokenAt(s, x) /\ \A n \in 1..m : us[n] = ts[n]
  <2>1. PICK t : t = TokenAt(s, x)
    OBVIOUS
  <2>2. DOMAIN Append(ts, t) = 1..(m + 1) /\ Append(ts, t)[m + 1] = t /\ \A n \in 1..m : Append(ts, t)[n] = ts[n]
    OBVIOUS
  <2> QED  BY <2>1, <2>2
<1>3. PICK f \in [DOMAIN ts -> DOMAIN s] : Ordered(f, S) /\ \A n \in DOMAIN ts : ts[n] = TokenAt(s, f[n])
  BY DEF TokensFrom
<1> HIDE DEF m, D, us
<1>4. Gives(f, m, D, S) /\ x \in D /\ Later(S, x)
  BY <1>1, <1>3 DEF Gives, Later, D
<1>5. GivesNext(f, m, D, S, x)
  BY <1>4, OrderedPut
<1>6. PICK g : g \in [1..(m + 1) -> D] /\ Ordered(g, S \cup {x}) /\ g[m + 1] = x /\ \A n \in 1..m : g[n] = f[n]
  BY <1>5 DEF GivesNext, Gives
<1>7. \A n \in 1..(m + 1) : us[n] = TokenAt(s, g[n])
  BY <1>1, <1>2, <1>3, <1>6
<1>8. TokensFrom(us, s, S \cup {x})
  BY <1>2, <1>6, <1>7 DEF TokensFrom, D
<1> QED  BY <1>8 DEF us

LEMMA NoTokens == ASSUME NEW s PROVE TokensFrom(<<>>, s, {})
<1> DEFINE f == [n \in {} |-> n]
<1>1. DOMAIN <<>> = {} /\ f \in [{} -> DOMAIN s] /\ DOMAIN f = {} /\ Range(f) = {}
  BY DEF Range
<1> HIDE DEF f
<1>2. Ordered(f, {})
  BY <1>1 DEF Ordered
<1> QED  BY <1>1, <1>2 DEF TokensFrom

LEMMA MinAt ==
  ASSUME NEW T, T \subseteq Nat, NEW m \in T, \A i \in T : m <= i
  PROVE  Min(T) = m
<1>1. Min(T) \in T /\ \A i \in T : Min(T) <= i
  BY MinIs
<1>2. Min(T) <= m /\ m <= Min(T) /\ m \in Nat /\ Min(T) \in Nat
  BY <1>1
<1> QED  BY <1>2

\* What a call of str_sep finds and returns, when it is not at the end.
SepStop(b, p) == Min({i \in p..Len(b) : b[i] = Ending})
SepStart(b, p) == SkipOver(SubSeq(b, 1, SepStop(b, p) - 1), p, Sep)
SepEnd(b, p) == Min({i \in SepStart(b, p)..SepStop(b, p) : b[i] \in Sep \cup {Ending}})

LEMMA SepRun ==
  ASSUME NEW s \in Seq(Chars), NEW b, NEW p, Uncut(s, b, p), b[p] # Ending
  PROVE  LET L == Len(s)
             at == SkipOver(s, p, Sep)
             q == SkipOver(s, at, Chars \ Sep)
             end == SepEnd(b, p)
             token == StringAt([b EXCEPT ![end] = Ending], SepStart(b, p))
         IN /\ SepStop(b, p) = L + 1 /\ SepStart(b, p) = at
            /\ at = L + 1 => end = L + 1 /\ token = <<>>
            /\ at # L + 1 => end = q /\ token = TokenAt(s, at) /\ token \in Seq(Chars) /\ token # <<>>
<1> DEFINE L == Len(s)
           at == SkipOver(s, p, Sep)
           q == SkipOver(s, at, Chars \ Sep)
           end == SepEnd(b, p)
           b2 == [b EXCEPT ![end] = Ending]
<1>1. L \in Nat /\ (\A i \in 1..L : s[i] \in Chars) /\ Ending \notin Chars
  BY WordAssumption
<1>2. /\ b \in Seq(Chars \cup {Ending}) /\ Len(b) = L + 1 /\ b[L + 1] = Ending
      /\ p \in 1..(L + 1) /\ Between(s, p) /\ \A i \in p..L : b[i] = s[i]
  BY DEF Uncut, Between
<1>3. \A i \in p..L : i \in 1..L /\ b[i] = s[i] /\ b[i] # Ending
  BY <1>1, <1>2
<1>4. SepStop(b, p) = L + 1
  <2> DEFINE T == {i \in p..Len(b) : b[i] = Ending}
  <2>1. T \subseteq Nat /\ L + 1 \in T
    BY <1>1, <1>2
  <2>2. ASSUME NEW i \in T PROVE L + 1 <= i
    <3>1. i \in p..(L + 1) /\ ~ (i \in p..L)
      BY <1>2, <1>3, <2>2
    <3> QED  BY <1>1, <1>2, <3>1
  <2> HIDE DEF T
  <2>3. Min(T) = L + 1
    BY <2>1, <2>2, MinAt
  <2> QED  BY <2>3 DEF T, SepStop
<1>5. SepStart(b, p) = at
  <2> DEFINE m == SubSeq(b, 1, L)
  <2>1. m \in Seq(Chars \cup {Ending}) /\ Len(m) = L /\ \A i \in 1..L : m[i] = b[i]
    <3>1. 1 \in Nat \ {0} /\ L \in 0..Len(b) /\ 1 <= L + 1 /\ L + 1 - 1 = L /\ \A i \in 1..L : 1 + i - 1 = i
      BY <1>1, <1>2, SMT
    <3> QED  BY <1>2, <3>1, PartIs
  <2>2. SepStart(b, p) = SkipOver(m, p, Sep)
    <3>1. L + 1 - 1 = L
      BY <1>1
    <3> QED  BY <1>4, <3>1 DEF SepStart
  <2> HIDE DEF m
  <2>3. {i \in p..Len(m) : m[i] \notin Sep} = {i \in p..L : s[i] \notin Sep}
    BY <1>3, <2>1
  <2>4. SkipOver(m, p, Sep) = SkipOver(s, p, Sep)
    BY <2>1, <2>3 DEF SkipOver
  <2> QED  BY <2>2, <2>4
<1>6. /\ at \in p..(L + 1)
      /\ at # L + 1 => /\ at \in 1..L /\ q \in (at + 1)..(L + 1) /\ (q # L + 1 => q \in 1..L /\ s[q] \in Sep)
                       /\ \A i \in at..(q - 1) : s[i] \notin Sep
  BY <1>2, TokenRun
<1>7. TokenAt(s, at) = SubSeq(s, at, q - 1)
  BY DEF TokenAt
<1> HIDE DEF at, q
<1> DEFINE e == IF at = L + 1 THEN L + 1 ELSE q
<1>8. /\ e \in at..(L + 1) /\ e \in 1..(L + 1) /\ b[e] \in Sep \cup {Ending}
      /\ \A i \in at..(e - 1) : i \in p..L /\ b[i] = s[i] /\ b[i] \notin Sep \cup {Ending}
  <2>1. CASE at = L + 1
    BY <1>1, <1>2, <2>1
  <2>2. CASE at # L + 1
    <3>1. e = q /\ q \in (at + 1)..(L + 1) /\ at \in p..(L + 1) /\ p \in 1..(L + 1)
      BY <1>2, <1>6, <2>2
    <3> HIDE DEF e
    <3>2. e \in at..(L + 1) /\ e \in 1..(L + 1) /\ \A i \in at..(e - 1) : i \in p..L
      BY <1>1, <3>1, SMT
    <3>3. \A i \in at..(e - 1) : b[i] = s[i] /\ b[i] \notin Sep \cup {Ending}
      BY <1>3, <1>6, <2>2, <3>1, <3>2
    <3>4. b[e] \in Sep \cup {Ending}
      <4>1. CASE q = L + 1
        BY <1>2, <3>1, <4>1
      <4>2. CASE q # L + 1
        <5>1. q \in p..L /\ s[q] \in Sep
          BY <1>1, <1>6, <2>2, <3>1, <4>2
        <5> QED  BY <1>3, <3>1, <5>1
      <4> QED  BY <4>1, <4>2
    <3> QED  BY <3>2, <3>3, <3>4
  <2> QED  BY <2>1, <2>2
<1>9. end = e
  <2> DEFINE T == {i \in at..(L + 1) : b[i] \in Sep \cup {Ending}}
  <2>1. end = Min(T)
    BY <1>4, <1>5 DEF SepEnd
  <2> HIDE DEF end, e
  <2>2. T \subseteq Nat /\ e \in T
    BY <1>1, <1>2, <1>6, <1>8
  <2>3. ASSUME NEW i \in T PROVE e <= i
    <3>1. i \in at..(L + 1) /\ ~ (i \in at..(e - 1))
      BY <1>8, <2>3
    <3>2. at \in Nat /\ e \in Nat
      BY <1>1, <1>2, <1>6, <1>8
    <3> QED  BY <1>1, <3>1, <3>2, SMT
  <2> HIDE DEF T
  <2> QED  BY <2>1, <2>2, <2>3, MinAt
<1> HIDE DEF end
<1>10. /\ b2 \in Seq(Chars \cup {Ending}) /\ Len(b2) = L + 1 /\ b2[e] = Ending
       /\ \A i \in 1..(L + 1) : i # e => b2[i] = b[i]
  BY <1>2, <1>8, <1>9
<1> HIDE DEF b2, e
<1>11. Min({i \in at..Len(b2) : b2[i] = Ending}) = e
  <2> DEFINE T == {i \in at..Len(b2) : b2[i] = Ending}
  <2>1. T \subseteq Nat /\ e \in T
    BY <1>1, <1>2, <1>6, <1>8, <1>10
  <2>2. ASSUME NEW i \in T PROVE e <= i
    <3>1. i \in at..(L + 1) /\ b2[i] = Ending
      BY <1>10, <2>2
    <3>2. at \in Nat /\ e \in Nat /\ i \in Nat
      BY <1>1, <1>2, <1>6, <1>8, <3>1
    <3>3. ~ (i \in at..(e - 1))
      <4>1. SUFFICES ASSUME i \in at..(e - 1) PROVE FALSE
        OBVIOUS
      <4>2. b[i] # Ending /\ i # e /\ i \in 1..(L + 1)
        <5>1. i \in p..L /\ b[i] \notin Sep \cup {Ending}
          BY <1>8, <4>1
        <5>2. i # e
          BY <3>2, <4>1
        <5> QED  BY <1>1, <1>3, <5>1, <5>2
      <4> QED  BY <1>10, <3>1, <4>2
    <3> QED  BY <1>1, <3>1, <3>2, <3>3, SMT
  <2> HIDE DEF T
  <2>3. Min(T) = e
    BY <2>1, <2>2, MinAt
  <2> QED  BY <2>3 DEF T
<1>12. StringAt(b2, SepStart(b, p)) = SubSeq(b2, at, e - 1)
  BY <1>5, <1>11 DEF StringAt
<1>13. CASE at = L + 1
  <2>1. e = L + 1 /\ e - 1 \in Int /\ at \in Int /\ e - 1 < at
    BY <1>1, <1>13 DEF e
  <2>2. SubSeq(b2, at, e - 1) = <<>>
    BY <2>1, SubSeqEmpty
  <2> QED  BY <1>4, <1>5, <1>9, <1>12, <1>13, <2>1, <2>2 DEF b2, end, at, q
<1>14. CASE at # L + 1
  <2>1. e = q /\ q \in (at + 1)..(L + 1) /\ at \in 1..L
    BY <1>6, <1>14 DEF e
  <2>2. e - 1 \in Nat /\ e - 1 <= L /\ e - 1 <= L + 1 /\ at <= e - 1 + 1 /\ at \in Nat \ {0}
        /\ e - 1 \in 0..L /\ e - 1 + 1 - at > 0 /\ e - 1 + 1 - at # 0
    BY <1>1, <2>1, SMT
  <2>3. \A i \in at..(e - 1) : b2[i] = s[i]
    <3>1. \A i \in at..(e - 1) : i \in p..L /\ b[i] = s[i]
      BY <1>8
    <3>2. \A i \in at..(e - 1) : i # e
      BY <1>8, <2>1
    <3> QED  BY <1>1, <1>3, <1>10, <3>1, <3>2
  <2>4. SubSeq(b2, at, e - 1) = SubSeq(s, at, e - 1)
    <3>1. PICK n, m, t : n = e - 1 /\ m = at /\ t = b2
      OBVIOUS
    <3>2. /\ m \in Nat \ {0} /\ n \in Nat /\ n <= Len(t) /\ n <= Len(s) /\ m <= n + 1
          /\ t \in Seq(Chars \cup {Ending}) /\ \A i \in m..n : t[i] = s[i]
      BY <1>10, <2>2, <2>3, <3>1
    <3>3. SubSeq(t, m, n) = SubSeq(s, m, n)
      BY <3>2, SamePart
    <3> QED  BY <3>1, <3>3
  <2>5. SubSeq(s, at, e - 1) \in Seq(Chars) /\ Len(SubSeq(s, at, e - 1)) = e - 1 + 1 - at
    BY <2>2, PartIs
  <2>6. SubSeq(s, at, e - 1) # <<>>
    BY <2>2, <2>5, EmptySeq
  <2>7. SubSeq(s, at, e - 1) = TokenAt(s, at)
    BY <1>7, <2>1
  <2> QED  BY <1>4, <1>5, <1>9, <1>12, <1>14, <2>1, <2>4, <2>5, <2>6, <2>7 DEF b2, end, at, q
<1> QED  BY <1>13, <1>14

\* Exhausted and Returned, of tokens, a string and a place in it.
Done(ts) == ts # <<>> /\ ts[Len(ts)] = <<>>
Out(ts, s, p) ==
  /\ ts \in Seq(Seq(Chars))
  /\ TokensFrom(IF Done(ts) THEN Front(ts) ELSE ts, s, Before(s, p))

LEMMA PutLast ==
  ASSUME NEW T, NEW ts \in Seq(T), NEW t \in T
  PROVE  LET us == Append(ts, t)
         IN us \in Seq(T) /\ us # <<>> /\ us[Len(us)] = t /\ Front(us) = ts
<1> DEFINE us == Append(ts, t)
           m == Len(ts)
<1>1. m \in Nat /\ us \in Seq(T) /\ Len(us) = m + 1 /\ us[m + 1] = t /\ \A n \in 1..m : us[n] = ts[n]
  OBVIOUS
<1> HIDE DEF us
<1>2. us # <<>> /\ us[Len(us)] = t
  BY <1>1
<1>3. Front(us) = SubSeq(us, 1, m)
  <2>1. Len(us) - 1 = m
    BY <1>1
  <2> QED  BY <2>1, Zenon DEF Front
<1>4. SubSeq(us, 1, m) = ts
  <2>1. /\ SubSeq(us, 1, m) \in Seq(T) /\ Len(SubSeq(us, 1, m)) = m + 1 - 1
        /\ \A i \in 1..(m + 1 - 1) : SubSeq(us, 1, m)[i] = us[1 + i - 1]
    <3>1. 1 \in Nat \ {0} /\ m \in 0..Len(us) /\ 1 <= m + 1
      BY <1>1
    <3> QED  BY <1>1, <3>1, PartIs
  <2>2. m + 1 - 1 = m /\ \A i \in 1..m : 1 + i - 1 = i
    BY <1>1, SMT
  <2>3. \A i \in 1..m : SubSeq(us, 1, m)[i] = ts[i]
    BY <1>1, <2>1, <2>2
  <2>4. PICK a, n : a = SubSeq(us, 1, m) /\ n = m
    OBVIOUS
  <2>5. a \in Seq(T) /\ Len(a) = n /\ Len(ts) = n /\ \A i \in 1..n : a[i] = ts[i]
    BY <2>1, <2>2, <2>3, <2>4
  <2>6. a = ts
    BY <2>5, SeqEqual
  <2> QED  BY <2>4, <2>6
<1> QED  BY <1>1, <1>2, <1>3, <1>4 DEF us

\* An empty string after all the tokens.
LEMMA EndPut ==
  ASSUME NEW ts, NEW s, NEW p, Out(ts, s, p), ~Done(ts)
  PROVE  LET us == Append(ts, <<>>) IN Done(us) /\ Out(us, s, p)
<1>1. <<>> \in Seq(Chars) /\ ts \in Seq(Seq(Chars)) /\ TokensFrom(ts, s, Before(s, p))
  BY DEF Out
<1> DEFINE us == Append(ts, <<>>)
<1>2. us \in Seq(Seq(Chars)) /\ us # <<>> /\ us[Len(us)] = <<>> /\ Front(us) = ts
  BY <1>1, PutLast
<1> HIDE DEF us
<1> QED  BY <1>1, <1>2 DEF Done, Out, us

\* A call of str_sep that is not at the end.
LEMMA SepKeeps ==
  ASSUME NEW s \in Seq(Chars), NEW b, NEW p, Uncut(s, b, p), b[p] # Ending,
         NEW ts, Out(ts, s, p), ~Done(ts)
  PROVE  LET end == SepEnd(b, p)
             next == IF end = SepStop(b, p) THEN end ELSE end + 1
             us == Append(ts, StringAt([b EXCEPT ![end] = Ending], SepStart(b, p)))
         IN /\ Uncut(s, [b EXCEPT ![end] = Ending], next) /\ Out(us, s, next)
            /\ Done(us) => next = Len(s) + 1
<1> DEFINE L == Len(s)
           at == SkipOver(s, p, Sep)
           q == SkipOver(s, at, Chars \ Sep)
           end == SepEnd(b, p)
           b2 == [b EXCEPT ![end] = Ending]
           token == StringAt(b2, SepStart(b, p))
           next == IF end = SepStop(b, p) THEN end ELSE end + 1
           us == Append(ts, token)
<1>1. L \in Nat /\ DOMAIN s = 1..L /\ p \in 1..(L + 1) /\ p \in Nat /\ Between(s, p)
  BY DEF Uncut, Between
<1>2. /\ b \in Seq(Chars \cup {Ending}) /\ Len(b) = L + 1 /\ b[L + 1] = Ending
      /\ \A i \in p..L : b[i] = s[i]
  BY DEF Uncut
<1>3. /\ SepStop(b, p) = L + 1 /\ SepStart(b, p) = at
      /\ at = L + 1 => end = L + 1 /\ token = <<>>
      /\ at # L + 1 => end = q /\ token = TokenAt(s, at) /\ token \in Seq(Chars) /\ token # <<>>
  BY SepRun
<1>4. /\ at \in p..(L + 1) /\ \A i \in p..(at - 1) : s[i] \in Sep
      /\ at = L + 1 => From(s, p) = {}
      /\ at # L + 1 => /\ at \in 1..L /\ at \in Starts(s) /\ s[at] \notin Sep
                       /\ q \in (at + 1)..(L + 1) /\ (q # L + 1 => q \in 1..L /\ s[q] \in Sep)
                       /\ \A i \in Starts(s) : i \in p..q => i = at
  BY <1>1, TokenRun
<1>5. \A i \in Starts(s) : i \in 1..L
  BY <1>1 DEF Starts
<1>6. ts \in Seq(Seq(Chars)) /\ TokensFrom(ts, s, Before(s, p))
  BY DEF Out
<1> HIDE DEF at, q, end, token
<1>7. next = IF end = L + 1 THEN end ELSE end + 1
  BY <1>3
<1> HIDE DEF next
<1>8. end \in p..(L + 1) /\ next \in p..(L + 1) /\ end <= next /\ Resumes(s, next)
      /\ (at # L + 1 => q <= next /\ next <= q + 1)
  <2>1. CASE at = L + 1
    BY <1>1, <1>3, <1>7, <2>1 DEF Resumes
  <2>2. CASE at # L + 1
    <3>1. end = q /\ q \in (at + 1)..(L + 1) /\ at \in 1..L /\ at \in p..(L + 1)
      BY <1>3, <1>4, <2>2
    <3>2. CASE q = L + 1
      BY <1>1, <1>7, <3>1, <3>2 DEF Resumes
    <3>3. CASE q # L + 1
      <4>1. next = q + 1 /\ q \in 1..L /\ s[q] \in Sep /\ q + 1 - 1 = q
        BY <1>1, <1>4, <1>7, <2>2, <3>1, <3>3
      <4> QED  BY <1>1, <3>1, <4>1 DEF Resumes
    <3> QED  BY <3>2, <3>3
  <2> QED  BY <2>1, <2>2
<1>9. Uncut(s, b2, next)
  <2>1. /\ b2 \in Seq(Chars \cup {Ending}) /\ Len(b2) = L + 1
        /\ \A i \in 1..(L + 1) : b2[i] = IF i = end THEN Ending ELSE b[i]
    BY <1>1, <1>2, <1>8
  <2> HIDE DEF b2
  <2>2. b2[L + 1] = Ending
    BY <1>1, <1>2, <2>1
  <2>3. \A i \in next..L : i # end /\ i \in p..L /\ i \in 1..(L + 1)
    <3>1. \A i \in next..L : i # end
      <4>1. next = end \/ next = end + 1
        BY <1>7
      <4>2. CASE end = L + 1
        BY <1>1, <1>7, <4>2
      <4>3. CASE end # L + 1
        BY <1>1, <1>7, <1>8, <4>3
      <4> QED  BY <4>2, <4>3
    <3> QED  BY <1>1, <1>8, <3>1
  <2>4. \A i \in next..L : b2[i] = s[i]
    BY <1>2, <2>1, <2>3
  <2>5. next \in 1..(L + 1)
    BY <1>1, <1>8
  <2> QED  BY <1>8, <2>1, <2>2, <2>4, <2>5 DEF Uncut
<1>10. CASE at = L + 1
  <2>1. token = <<>> /\ next = L + 1
    BY <1>3, <1>7, <1>10
  <2>2. Before(s, next) = Before(s, p)
    <3>1. \A i \in Starts(s) : i < p /\ i < L + 1
      <4>1. \A i \in Starts(s) : ~ (i >= p)
        BY <1>4, <1>10 DEF From
      <4> QED  BY <1>1, <1>5, <4>1
    <3> QED  BY <2>1, <3>1 DEF Before
  <2>3. Out(ts, s, next)
    BY <2>2 DEF Out
  <2>4. Out(us, s, next)
    BY <2>1, <2>3, EndPut
  <2> QED  BY <1>9, <2>1, <2>4 DEF next, us, token, b2, end
<1>11. CASE at # L + 1
  <2>1. token \in Seq(Chars) /\ token # <<>> /\ token = TokenAt(s, at)
    BY <1>3, <1>11
  <2>2. us \in Seq(Seq(Chars)) /\ us # <<>> /\ us[Len(us)] = token
    BY <1>6, <2>1, PutLast
  <2>3. ~Done(us)
    BY <2>1, <2>2 DEF Done
  <2>4. Before(s, next) = Before(s, p) \cup {at}
    <3>1. ASSUME NEW i \in Starts(s) PROVE i < next <=> (i < p \/ i = at)
      <4>1. i \in 1..L /\ at \in 1..L /\ q \in (at + 1)..(L + 1) /\ q <= next /\ next <= q + 1
            /\ (i \in p..q => i = at) /\ next \in p..(L + 1) /\ at \in p..(L + 1)
        BY <1>4, <1>5, <1>8, <1>11, <3>1
      <4>2. at < next
        BY <1>1, <4>1
      <4>3. CASE i < p
        BY <1>1, <4>1, <4>3
      <4>4. CASE ~ (i < p)
        BY <1>1, <4>1, <4>2, <4>4
      <4> QED  BY <4>3, <4>4
    <3>2. at \in Starts(s)
      BY <1>4, <1>11
    <3> QED  BY <3>1, <3>2 DEF Before
  <2>5. Before(s, p) \subseteq Nat /\ (\A y \in Before(s, p) : y < at) /\ at \in DOMAIN s
    <3>1. at \in 1..L /\ at \in p..(L + 1)
      BY <1>4, <1>11
    <3>2. \A y \in Before(s, p) : y \in 1..L /\ y < p
      BY <1>5 DEF Before
    <3> QED  BY <1>1, <3>1, <3>2
  <2>6. TokensFrom(Append(ts, TokenAt(s, at)), s, Before(s, p) \cup {at})
    <3>1. PICK S : S = Before(s, p)
      OBVIOUS
    <3>2. S \subseteq Nat /\ (\A y \in S : y < at) /\ at \in DOMAIN s /\ TokensFrom(ts, s, S)
      BY <1>6, <2>5, <3>1
    <3>3. TokensFrom(Append(ts, TokenAt(s, at)), s, S \cup {at})
      BY <1>6, <3>2, TokensPut
    <3> QED  BY <3>1, <3>3
  <2>7. Out(us, s, next)
    BY <2>1, <2>2, <2>3, <2>4, <2>6 DEF Out
  <2> QED  BY <1>9, <2>3, <2>7 DEF next, us, token, b2, end
<1> QED  BY <1>10, <1>11

LEMMA WordStarts == WordInit => WordInv
<1> SUFFICES ASSUME WordInit PROVE WordInv
  OBVIOUS
<1>1. /\ word \in Words /\ edit = NoEdit /\ memory = <<>> /\ cur = 0 /\ tokens = <<>> /\ byte = 0
      /\ byte \in 0..255 /\ tokens \in Seq(Seq(Chars))
  BY DEF WordInit
<1>2. word \in Seq(Chars)
  BY <1>1, WordsAre
<1>3. EditsAgree
  <2>1. edit.op = "none" /\ "none" \notin Chars
    BY <1>1, WordAssumption DEF NoEdit
  <2>2. Agree(edit.op, edit.was, edit.ret, word)
    BY <2>1 DEF Agree
  <2> QED  BY <1>1, <2>2, ByteBack, EditsAre
<1>4. Before(word, cur) = {}
  <2>1. \A i \in Starts(word) : ~ (i < 0)
    BY <1>2 DEF Starts
  <2> QED  BY <1>1, <2>1 DEF Before
<1>5. Returned
  BY <1>1, <1>4, NoTokens DEF Returned, Exhausted
<1> QED  BY <1>1, <1>3, <1>5 DEF WordInv

LEMMA EditsAreNext == EditsAgree' <=> Agree(edit'.op, edit'.was, edit'.ret, word') /\ ReadsBack(byte')
  BY Zenon DEF EditsAgree, Agree, ReadsBack, Lower

LEMMA WordStep == WordInv /\ [WordNext]_wordVars => WordInv'
<1> SUFFICES ASSUME WordInv, [WordNext]_wordVars PROVE WordInv'
  OBVIOUS
<1>1. /\ word \in Words /\ byte \in 0..255 /\ EditsAgree /\ Returned
      /\ IF memory = <<>> THEN cur = 0 /\ tokens = <<>> ELSE Cutting
  BY DEF WordInv
<1>2. word \in Seq(Chars)
  BY <1>1, WordsAre
<1>3. Out(tokens, word, cur) /\ (Exhausted <=> Done(tokens)) /\ (Exhausted' <=> Done(tokens'))
  BY <1>1 DEF Out, Done, Returned, Exhausted
\* What str_sep does not touch.
<1>4. ASSUME word' = word, edit' = edit, byte' = byte
      PROVE  word' \in Words /\ byte' \in 0..255 /\ EditsAgree'
  <2>1. Agree(edit.op, edit.was, edit.ret, word) /\ ReadsBack(byte)
    BY <1>1, EditsAre
  <2>2. Agree(edit'.op, edit'.was, edit'.ret, word') /\ ReadsBack(byte')
    BY <1>4, <2>1
  <2> QED  BY <1>1, <1>4, <2>2, EditsAreNext
<1>5. ASSUME word' \in Words, byte' \in 0..255, EditsAgree', memory' # <<>>, Uncut(word', memory', cur'),
             Out(tokens', word', cur'), Done(tokens') => cur' = Len(word') + 1
      PROVE  WordInv'
  <2>1. Cutting' /\ Returned'
    BY <1>3, <1>5 DEF Cutting, Returned, Out, Done, Exhausted
  <2> QED  BY <1>5, <2>1 DEF WordInv
<1>6. ASSUME EditString PROVE WordInv'
  <2>1. word' \in Words /\ EditsAgree'
    BY <1>6, EditKeeps
  <2>2. memory = <<>> /\ memory' = memory /\ cur' = cur /\ tokens' = tokens /\ byte' = byte
    BY <1>6, Zenon DEF EditString, Edit
  <2>3. memory' = <<>> /\ cur' = 0 /\ tokens' = <<>> /\ byte' \in 0..255 /\ tokens' \in Seq(Seq(Chars))
    BY <1>1, <2>2
  <2>4. word' \in Seq(Chars)
    BY <2>1, WordsAre
  <2>5. Before(word', cur') = {}
    <3>1. \A i \in Starts(word') : ~ (i < 0)
      BY <2>4 DEF Starts
    <3> QED  BY <2>3, <3>1 DEF Before
  <2>6. Returned'
    <3>1. TokensFrom(tokens', word', Before(word', cur'))
      BY <2>3, <2>5, NoTokens
    <3> QED  BY <2>3, <3>1 DEF Returned, Exhausted
  <2> QED  BY <2>1, <2>3, <2>6 DEF WordInv
<1>7. ASSUME BeginTokens PROVE WordInv'
  <2>1. /\ memory = <<>> /\ memory' = Append(word, Ending) /\ cur' = 1
        /\ word' = word /\ edit' = edit /\ tokens' = tokens /\ byte' = byte
    BY <1>7 DEF BeginTokens
  <2>2. tokens = <<>> /\ tokens' = <<>>
    BY <1>1, <2>1
  <2>3. Len(word) \in Nat /\ memory' # <<>> /\ Uncut(word, memory', 1)
    BY <1>2, <2>1 DEF Uncut, Resumes
  <2>4. Before(word, 1) = {}
    BY <1>2 DEF Before, Starts
  <2>5. Out(<<>>, word, 1) /\ ~Done(<<>>)
    <3>1. ~Done(<<>>)
      BY DEF Done
    <3>2. TokensFrom(<<>>, word, Before(word, 1))
      BY <2>4, NoTokens
    <3> QED  BY <3>1, <3>2 DEF Out
  <2>6. word' \in Words /\ byte' \in 0..255 /\ EditsAgree'
    BY <1>4, <2>1
  <2>7. Uncut(word', memory', cur') /\ Out(tokens', word', cur') /\ ~Done(tokens')
    BY <2>1, <2>2, <2>3, <2>5
  <2> QED  BY <1>5, <2>3, <2>6, <2>7
<1>8. ASSUME StrSep PROVE WordInv'
  <2> DEFINE end == SepEnd(memory, cur)
             token == StringAt([memory EXCEPT ![end] = Ending], SepStart(memory, cur))
  <2>1. memory # <<>> /\ ~Exhausted /\ word' = word /\ edit' = edit /\ byte' = byte
    BY <1>8, Zenon DEF StrSep
  <2>2. \/ memory[cur] = Ending /\ tokens' = Append(tokens, <<>>) /\ memory' = memory /\ cur' = cur
        \/ /\ memory[cur] # Ending
           /\ memory' = [memory EXCEPT ![end] = Ending]
           /\ cur' = IF end = SepStop(memory, cur) THEN end ELSE end + 1
           /\ tokens' = Append(tokens, StringAt(memory', SepStart(memory, cur)))
    BY <1>8, Zenon DEF StrSep, SepEnd, SepStart, SepStop
  <2>3. Uncut(word, memory, cur) /\ ~Done(tokens)
    BY <1>1, <1>3, <2>1 DEF Cutting
  <2>4. word' \in Words /\ byte' \in 0..255 /\ EditsAgree'
    BY <1>4, <2>1
  <2>5. CASE memory[cur] = Ending
    <3>1. tokens' = Append(tokens, <<>>) /\ memory' = memory /\ cur' = cur
      BY <2>2, <2>5
    <3>2. Out(tokens', word, cur)
      BY <1>3, <2>3, <3>1, EndPut
    <3>3. cur = Len(word) + 1
      <4>1. \A i \in cur..Len(word) : memory[i] = word[i] /\ word[i] # Ending
        <5>1. \A i \in cur..Len(word) : memory[i] = word[i] /\ i \in 1..Len(word)
          BY <1>2, <2>3 DEF Uncut
        <5> QED  BY <1>2, <5>1, WordAssumption
      <4>2. cur \in 1..(Len(word) + 1) /\ Len(word) \in Nat
        BY <1>2, <2>3 DEF Uncut
      <4>3. ~ (cur \in cur..Len(word))
        BY <2>5, <4>1
      <4> QED  BY <4>2, <4>3
    <3> QED  BY <1>5, <2>1, <2>3, <2>4, <3>1, <3>2, <3>3
  <2>6. CASE memory[cur] # Ending
    <3>1. /\ memory' = [memory EXCEPT ![end] = Ending]
          /\ cur' = IF end = SepStop(memory, cur) THEN end ELSE end + 1
          /\ tokens' = Append(tokens, token)
      BY <2>2, <2>6
    <3>2. /\ Uncut(word, memory', cur') /\ Out(tokens', word, cur')
          /\ Done(tokens') => cur' = Len(word) + 1
      BY <1>2, <1>3, <2>3, <2>6, <3>1, SepKeeps
    <3>3. memory' # <<>>
      <4>1. Len(memory') = Len(word) + 1 /\ Len(word) \in Nat
        BY <1>2, <3>2 DEF Uncut
      <4> QED  BY <4>1
    <3> QED  BY <1>5, <2>1, <2>4, <3>2, <3>3
  <2> QED  BY <2>5, <2>6
<1>9. ASSUME NextByte PROVE WordInv'
  <2>1. /\ byte < 255 /\ byte' = byte + 1 /\ edit = NoEdit
        /\ word' = word /\ edit' = edit /\ memory' = memory /\ cur' = cur /\ tokens' = tokens
    BY <1>9 DEF NextByte
  <2>2. byte' \in 0..255
    BY <1>1, <2>1
  <2>3. Agree(edit'.op, edit'.was, edit'.ret, word') /\ ReadsBack(byte')
    BY <1>1, <2>1, <2>2, ByteBack, EditsAre
  <2>4. EditsAgree'
    BY <2>3, EditsAreNext
  <2>5. Returned' /\ (IF memory' = <<>> THEN cur' = 0 /\ tokens' = <<>> ELSE Cutting')
    BY <1>1, <2>1 DEF Returned, Cutting, Exhausted
  <2> QED  BY <1>1, <2>1, <2>2, <2>4, <2>5 DEF WordInv
<1>10. ASSUME UNCHANGED wordVars PROVE WordInv'
  <2>1. word' = word /\ edit' = edit /\ memory' = memory /\ cur' = cur /\ tokens' = tokens /\ byte' = byte
    BY <1>10 DEF wordVars
  <2>2. Returned' /\ (IF memory' = <<>> THEN cur' = 0 /\ tokens' = <<>> ELSE Cutting')
    BY <1>1, <2>1 DEF Returned, Cutting, Exhausted
  <2> QED  BY <1>4, <2>1, <2>2 DEF WordInv
<1> QED  BY <1>6, <1>7, <1>8, <1>9, <1>10 DEF WordNext

\* Every state of a program that calls strutils.c on a string has WordInv.
THEOREM WordsHold == WordSpec => []WordInv
<1> QED  BY WordStarts, WordStep, PTL DEF WordSpec

\* str_sep never leaves the string and the edits never make it longer, whatever the string.
THEOREM WordTypeCorrect == WordSpec => []WordTypeOK
<1>1. WordInv => WordTypeOK
  <2> SUFFICES ASSUME WordInv PROVE WordTypeOK
    OBVIOUS
  <2>1. word \in Words /\ byte \in 0..255 /\ (memory # <<>> => Cutting)
    BY DEF WordInv
  <2>2. word \in Seq(Chars)
    BY <2>1, WordsAre
  <2>3. memory # <<>> => Len(memory) = Len(word) + 1 /\ cur \in 1..Len(memory) /\ memory[Len(memory)] = Ending
    BY <2>1, <2>2 DEF Cutting, Uncut
  <2> QED  BY <2>1, <2>3 DEF WordTypeOK
<1> QED  BY <1>1, WordsHold, PTL

\* The edits of strutils.c leave what their descriptions say, hexadecimal digits read back,
\* and str_sep returns the tokens of strtok in their order and str_sep_count counts them,
\* for strings of every length over every set of characters.
THEOREM StringsAlwaysAgree == WordSpec => []StringsAgree
<1>1. WordInv => StringsAgree
  <2> SUFFICES ASSUME WordInv PROVE StringsAgree
    OBVIOUS
  <2>1. /\ word \in Words /\ EditsAgree /\ Returned
        /\ IF memory = <<>> THEN cur = 0 /\ tokens = <<>> ELSE Cutting
    BY DEF WordInv
  <2>2. word \in Seq(Chars)
    BY <2>1, WordsAre
  <2>3. TokensFrom(IF Exhausted THEN Front(tokens) ELSE tokens, word, {i \in Starts(word) : i < cur})
    BY <2>1, Zenon DEF Returned, Before
  <2>4. ASSUME Exhausted, NEW i \in Starts(word) PROVE i < cur
    <3>1. cur = Len(word) + 1
      BY <2>1, <2>4 DEF Exhausted, Cutting
    <3>2. i \in 1..Len(word)
      BY <2>2, <2>4 DEF Starts
    <3> QED  BY <2>2, <3>1, <3>2
  <2>5. StrSepCount(word) = Cardinality(Starts(word))
    BY <2>2, CountIs
  <2>6. TokensAgree
    BY <2>3, <2>4, <2>5, Zenon DEF TokensAgree
  <2> QED  BY <2>1, <2>6 DEF StringsAgree
<1> QED  BY <1>1, WordsHold, PTL
=============================================================================
