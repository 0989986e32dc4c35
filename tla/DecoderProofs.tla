---------------------------- MODULE DecoderProofs ----------------------------
(***************************************************************************)
(* What is decoded is what was sent, and whatever may be sent is decoded:  *)
(* for every message, of any length.                                       *)
(*                                                                         *)
(* The argument follows an ideal decoder over the bytes as they were sent. *)
(* From every state that the decoder can reach on its buffer, spoiled or   *)
(* not, the ideal one has a run to the message that was encoded, and every *)
(* read of the decoder is the first step of such a run.  Without a read to *)
(* come the run is over: all bytes were there, and all as they were sent.  *)
(* On a whole buffer the first step of the run is possible.                *)
(***************************************************************************)
EXTENDS Decoder, FunctionsProofs

-----------------------------------------------------------------------------
(* What a decoder reads that is never disturbed: steps over the bytes as   *)
(* they were sent.  A read of such a step touches no tag but the one it    *)
(* decides by.                                                             *)

(* A state of the decoder.                                                 *)
At(p, t, g) == [pos |-> p, todo |-> t, got |-> g]

(* There is no tag among these bytes.                                      *)
Plain(w, p, q) == \A i \in p + 1 .. q : ~ w[i].tag

(* What Took leaves of a state.                                            *)
TookIn(s, n, value, then) ==
    At(s.pos + n, then \o Tail(s.todo), [s.got EXCEPT ![Head(s.todo).field] = Append(@, value)])

(* The reads, each when it succeeds, and whatever a foreign tag does to    *)
(* the rest of the buffer.                                                 *)
IntStep(w, s, u) ==
    LET h == Head(s.todo)
    IN  /\ h.read = "int" /\ h.width \in Nat \ {0} /\ s.pos + h.width <= Len(w)
        /\ Plain(w, s.pos, s.pos + h.width)
        /\ u = TookIn(s, h.width, w[s.pos + 1].int, <<>>)

StringStep(w, s, u) ==
    /\ Head(s.todo).read = "cstring"
    /\ \E e \in s.pos + 1 .. Len(w) :
          /\ w[e].char = "NUL" /\ \A i \in s.pos + 1 .. e - 1 : w[i].char # "NUL"
          /\ Plain(w, s.pos, e)
          /\ u = TookIn(s, e - s.pos, [i \in 1 .. e - 1 - s.pos |-> w[s.pos + i].char], <<>>)

TagStep(k, w, s, u) ==
    LET h == Head(s.todo)
        c == w[s.pos + 1].char
    IN  /\ h.read = "tag" /\ "b" \notin h.tags /\ s.pos + 1 <= Len(w) /\ c \in h.tags
        /\ u = TookIn(s, 1, c, Announced(k, c))

CountStep(w, s, u) ==
    LET h == Head(s.todo)
    IN  /\ h.read = "count" /\ h.width \in Nat \ {0} /\ s.pos + h.width <= Len(w)
        /\ Plain(w, s.pos, s.pos + h.width)
        /\ u = At(s.pos + h.width,
                  h.once \o <<Loop(w[s.pos + 1].int, h.each)>> \o Tail(s.todo), s.got)

ShortStep(w, s, u) ==
    LET c == w[s.pos + 1].char
    IN  /\ Head(s.todo).read = "column" /\ s.pos + 1 <= Len(w) /\ c \in {"n", "u"}
        /\ u = TookIn(s, 1, <<c>>, <<>>)

TextStep(w, s, u) ==
    LET length == w[s.pos + 2].int
    IN  /\ Head(s.todo).read = "column" /\ w[s.pos + 1].char = "t"
        /\ length \in Nat /\ s.pos + 5 + length <= Len(w)
        /\ Plain(w, s.pos + 1, s.pos + 5 + length)
        /\ u = TookIn(s, 5 + length, <<"t", [i \in 1 .. length |-> w[s.pos + 5 + i].char]>>, <<>>)

LoopStep(s, u) ==
    LET h == Head(s.todo)
    IN  /\ h.read = "loop"
        /\ u = At(s.pos,
                  IF h.times <= 0 THEN Tail(s.todo)
                  ELSE h.each \o <<Loop(h.times - 1, h.each)>> \o Tail(s.todo), s.got)

Step(k, w, s, u) ==
    /\ s.todo # <<>>
    /\ \/ IntStep(w, s, u) \/ StringStep(w, s, u) \/ TagStep(k, w, s, u) \/ CountStep(w, s, u)
       \/ ShortStep(w, s, u) \/ TextStep(w, s, u) \/ LoopStep(s, u)

(* All bytes read, and the message they were made of.                      *)
Final(w, m) == At(Len(w), <<>>, m)

(* A run of n steps to that state.                                         *)
Run(k, w, m, s, r, n) ==
    /\ r[0] = s /\ r[n] = Final(w, m)
    /\ \A i \in 0 .. n - 1 : Step(k, w, r[i], r[i + 1])

Reaches(k, w, m, s) == \E n \in Nat : \E r : Run(k, w, m, s, r, n)

(* It ends where it is.                                                    *)
LEMMA ReachesEnd ==
    ASSUME NEW k, NEW w, NEW m
    PROVE  Reaches(k, w, m, Final(w, m))
<1> DEFINE r == [i \in Nat |-> Final(w, m)]
<1>1. Run(k, w, m, Final(w, m), r, 0)
  BY DEF Run
<1> QED
  BY <1>1 DEF Reaches

(* A run may start one step earlier.                                       *)
LEMMA ReachesStep ==
    ASSUME NEW k, NEW w, NEW m, NEW s, NEW u, Step(k, w, s, u), Reaches(k, w, m, u)
    PROVE  Reaches(k, w, m, s)
<1>1. PICK n \in Nat : \E r : Run(k, w, m, u, r, n)
  BY DEF Reaches
<1>2. PICK r : Run(k, w, m, u, r, n)
  BY <1>1
<1> DEFINE q == [i \in Nat |-> IF i = 0 THEN s ELSE r[i - 1]]
<1>3. q[0] = s /\ \A i \in Nat : q[i + 1] = r[i]
  <2>1. \A i \in Nat : i + 1 \in Nat /\ i + 1 # 0 /\ (i + 1) - 1 = i
    OBVIOUS
  <2> QED
    BY <2>1
<1> HIDE DEF q
<1>4. ASSUME NEW i \in 0 .. (n + 1) - 1
      PROVE  Step(k, w, q[i], q[i + 1])
  <2>1. CASE i = 0
    BY <1>2, <1>3, <2>1 DEF Run
  <2>2. CASE i # 0
    <3>1. i - 1 \in 0 .. n - 1 /\ i - 1 \in Nat /\ (i - 1) + 1 = i
      BY <2>2
    <3>2. Step(k, w, r[i - 1], r[i])
      BY <1>2, <3>1 DEF Run
    <3>3. q[i] = r[i - 1] /\ q[i + 1] = r[i]
      BY <1>3, <3>1
    <3> QED
      BY <3>2, <3>3
  <2> QED
    BY <2>1, <2>2
<1>5. Run(k, w, m, s, q, n + 1)
  BY <1>2, <1>3, <1>4 DEF Run
<1> QED
  BY <1>5 DEF Reaches

(* And a run that has not ended has a first step.                          *)
LEMMA ReachesFirst ==
    ASSUME NEW k, NEW w, NEW m, NEW s, Reaches(k, w, m, s), s # Final(w, m)
    PROVE  \E u : Step(k, w, s, u) /\ Reaches(k, w, m, u)
<1>1. PICK n \in Nat : \E r : Run(k, w, m, s, r, n)
  BY DEF Reaches
<1>2. PICK r : Run(k, w, m, s, r, n)
  BY <1>1
<1>3. n # 0
  BY <1>2 DEF Run
<1> DEFINE q == [i \in Nat |-> r[i + 1]]
<1>4. \A i \in Nat : q[i] = r[i + 1]
  OBVIOUS
<1> HIDE DEF q
<1>5. Step(k, w, r[0], r[0 + 1])
  BY <1>2, <1>3 DEF Run
<1>6. ASSUME NEW i \in 0 .. (n - 1) - 1
      PROVE  Step(k, w, q[i], q[i + 1])
  <2>1. i + 1 \in 0 .. n - 1 /\ i \in Nat /\ i + 1 \in Nat
    OBVIOUS
  <2> QED
    BY <1>2, <1>4, <2>1 DEF Run
<1>7. n - 1 \in Nat /\ (n - 1) + 1 = n /\ q[n - 1] = r[n]
  BY <1>3, <1>4
<1>8. Run(k, w, m, r[0 + 1], q, n - 1)
  <2>1. q[0] = r[0 + 1]
    BY <1>4
  <2> QED
    BY <1>2, <1>6, <1>7, <2>1 DEF Run
<1> QED
  BY <1>2, <1>5, <1>7, <1>8 DEF Run, Reaches

(* The bytes of a message: no tag in it is foreign.                        *)
Known == {"n", "u", "t", "d", "f", "i", "K", "O", "N"}

Byte ==
    [char : Characters \cup {"NUL", "none"}, int : Int, tag : {FALSE}] \cup {Tag(c) : c \in Known}

(* An integer is as many bytes as its width, and no tags.                  *)
LEMMA IntBytesAre ==
    ASSUME NEW x \in Nat, NEW n \in Int
    PROVE  /\ IntBytes(x, n) \in Seq(Byte) /\ Len(IntBytes(x, n)) = x
           /\ \A i \in 1 .. x : IntBytes(x, n)[i].int = n /\ ~ IntBytes(x, n)[i].tag
<1>1. IntByte(n) \in Byte /\ IntByte(n).int = n /\ ~ IntByte(n).tag
  BY DEF IntByte, Byte
<1>2. PICK b : b = IntByte(n)
  OBVIOUS
<1>3. IntBytes(x, n) = [i \in 1 .. x |-> b]
  BY <1>2 DEF IntBytes
<1>4. [i \in 1 .. x |-> b] \in Seq(Byte) /\ Len([i \in 1 .. x |-> b]) = x
  BY <1>1, <1>2, IsASeq, LenProperties
<1> QED
  BY <1>1, <1>2, <1>3, <1>4

(* A text is its characters, and no tags.                                  *)
LEMMA TextIs ==
    ASSUME NEW s \in Seq(Characters)
    PROVE  /\ Len(s) \in Nat /\ Text(s) \in Seq(Byte) /\ Len(Text(s)) = Len(s)
           /\ \A i \in 1 .. Len(s) : /\ Text(s)[i].char = s[i] /\ s[i] # "NUL"
                                     /\ ~ Text(s)[i].tag
<1>1. Len(s) \in Nat /\ DOMAIN s = 1 .. Len(s) /\ \A i \in 1 .. Len(s) : s[i] \in Characters
  BY LenProperties, ElementOfSeq
<1>2. \A i \in 1 .. Len(s) : Char(s[i]) \in Byte /\ Char(s[i]).char = s[i] /\ ~ Char(s[i]).tag
  BY <1>1 DEF Char, Byte
<1>3. Text(s) = [i \in 1 .. Len(s) |-> Char(s[i])]
  BY <1>1 DEF Text
<1>4. [i \in 1 .. Len(s) |-> Char(s[i])] \in Seq(Byte)
  BY <1>1, <1>2, IsASeq
<1>5. Len([i \in 1 .. Len(s) |-> Char(s[i])]) = Len(s)
  BY <1>1, <1>4, LenProperties
<1>6. \A i \in 1 .. Len(s) : s[i] # "NUL"
  BY <1>1, DecoderAssumption
<1> QED
  BY <1>1, <1>2, <1>3, <1>4, <1>5, <1>6

(* The same for a string, which ends with the first NUL.                   *)
LEMMA CStringIs ==
    ASSUME NEW s \in Seq(Characters)
    PROVE  /\ CString(s) \in Seq(Byte) /\ Len(CString(s)) = Len(s) + 1 /\ Len(s) \in Nat
           /\ \A i \in 1 .. Len(s) : CString(s)[i].char = s[i] /\ s[i] # "NUL"
           /\ CString(s)[Len(s) + 1].char = "NUL"
           /\ \A i \in 1 .. Len(s) + 1 : ~ CString(s)[i].tag
<1>1. PICK x : x = Text(s)
  OBVIOUS
<1>2. /\ Len(s) \in Nat /\ x \in Seq(Byte) /\ Len(x) = Len(s)
      /\ \A i \in 1 .. Len(s) : x[i].char = s[i] /\ s[i] # "NUL" /\ ~ x[i].tag
  BY <1>1, TextIs
<1>3. PICK e : e = Char("NUL")
  OBVIOUS
<1>4. e \in Byte /\ e.char = "NUL" /\ ~ e.tag
  BY <1>3 DEF Char, Byte
<1>5. /\ CString(s) = Append(x, e) /\ CString(s) \in Seq(Byte) /\ Len(CString(s)) = Len(s) + 1
      /\ \A i \in 1 .. Len(s) : CString(s)[i] = x[i]
      /\ CString(s)[Len(s) + 1] = e
  BY <1>1, <1>2, <1>3, <1>4, AppendProperties DEF CString
<1>6. \A i \in 1 .. Len(s) + 1 : i \in 1 .. Len(s) \/ i = Len(s) + 1
  BY <1>2
<1> QED
  BY <1>2, <1>4, <1>5, <1>6

(* Bytes at a position of the buffer.                                      *)
InPlace(w, p, a) ==
    /\ p \in Nat /\ Len(a) \in Nat /\ Len(w) \in Nat /\ p + Len(a) <= Len(w)
    /\ \A i \in 1 .. Len(a) : w[p + i] = a[i]

Made(c, a, b) == a \in Seq(Byte) /\ b \in Seq(Byte) /\ c = a \o b

(* Where two parts are, by where the whole is.                             *)
LEMMA PartsInPlace ==
    ASSUME NEW w, NEW p, NEW a, NEW b, NEW c, Made(c, a, b), InPlace(w, p, c)
    PROVE  /\ InPlace(w, p, a) /\ InPlace(w, p + Len(a), b)
           /\ c \in Seq(Byte) /\ Len(a) \in Nat /\ Len(b) \in Nat /\ Len(c) = Len(a) + Len(b)
<1>2. Joined(Byte, c, a, b)
  BY Joining DEF Made
<1>3. /\ c \in Seq(Byte) /\ Len(a) \in Nat /\ Len(b) \in Nat /\ Len(c) = Len(a) + Len(b)
      /\ \A i \in 1 .. Len(a) : c[i] = a[i]
      /\ \A i \in 1 .. Len(b) : c[Len(a) + i] = b[i]
  BY <1>2 DEF Joined
<1>4. p \in Nat /\ Len(w) \in Nat /\ p + Len(c) <= Len(w) /\ \A i \in 1 .. Len(c) : w[p + i] = c[i]
  BY DEF InPlace
<1>5. InPlace(w, p, a)
  BY <1>3, <1>4 DEF InPlace
<1>6. InPlace(w, p + Len(a), b)
  <2>1. \A i \in 1 .. Len(b) : Len(a) + i \in 1 .. Len(c) /\ (p + Len(a)) + i = p + (Len(a) + i)
    BY <1>3, <1>4
  <2>2. \A i \in 1 .. Len(b) : w[(p + Len(a)) + i] = b[i]
    BY <1>3, <1>4, <2>1
  <2> QED
    BY <1>3, <1>4, <2>2 DEF InPlace
<1> QED
  BY <1>3, <1>5, <1>6

(* The same for many parts, each behind the ones before it.                *)
LEMMA BlocksInPlace ==
    ASSUME NEW w, NEW p, NEW ss \in Seq(Seq(Byte)), NEW n \in Nat, n = Len(ss),
           \A k \in 1 .. n : Len(ss[k]) # 0, InPlace(w, p, FlattenSeq(ss))
    PROVE  /\ \A k \in 1 .. n : InPlace(w, p + Offset(ss, k), ss[k])
           /\ \A k \in 1 .. n : Offset(ss, k + 1) = Offset(ss, k) + Len(ss[k])
           /\ \A k \in 1 .. n + 1 : Offset(ss, k) \in Nat
           /\ Offset(ss, 1) = 0 /\ Offset(ss, n + 1) = Len(FlattenSeq(ss))
<1>1. PICK c : c = FlattenSeq(ss)
  OBVIOUS
<1>2. /\ FlatUpTo(ss, 0) = <<>> /\ c = FlatUpTo(ss, n)
      /\ \A k \in 0 .. n : FlatUpTo(ss, k) \in Seq(Byte)
      /\ \A k \in 1 .. n : ss[k] \in Seq(Byte)
  BY <1>1, FlatSteps, FlatType
<1>3. /\ \A k \in 0 .. n : Len(FlatUpTo(ss, k)) \in Nat
      /\ \A k \in 1 .. n : Len(ss[k]) \in Nat
  BY <1>2, LenProperties
<1>4. \A k \in 1 .. n + 1 : Offset(ss, k) \in Nat
  <2>1. \A k \in 1 .. n + 1 : k - 1 \in 0 .. n
    OBVIOUS
  <2> QED
    BY <1>3, <2>1 DEF Offset
<1>5. \A k \in 1 .. n : Offset(ss, k + 1) = Offset(ss, k) + Len(ss[k])
  <2>1. \A k \in 1 .. n : (k + 1) - 1 = k
    OBVIOUS
  <2>2. \A k \in 1 .. n : Len(FlatUpTo(ss, k)) = Len(FlatUpTo(ss, k - 1)) + Len(ss[k])
    BY FlatType
  <2> QED
    BY <2>1, <2>2 DEF Offset
<1>6. Offset(ss, 1) = 0 /\ Offset(ss, n + 1) = Len(c)
  <2>1. 1 - 1 = 0 /\ (n + 1) - 1 = n /\ Len(<<>>) = 0
    OBVIOUS
  <2> QED
    BY <1>2, <2>1 DEF Offset
<1>7. p \in Nat /\ Len(w) \in Nat /\ Len(c) \in Nat /\ p + Len(c) <= Len(w)
      /\ \A i \in 1 .. Len(c) : w[p + i] = c[i]
  BY <1>1 DEF InPlace
<1>8. ASSUME NEW k \in 1 .. n
      PROVE  InPlace(w, p + Offset(ss, k), ss[k])
  <2>1. PICK o : o = Offset(ss, k)
    OBVIOUS
  <2>2. o \in Nat /\ Len(ss[k]) \in Nat
    <3>1. k \in 1 .. n + 1
      OBVIOUS
    <3> QED
      BY <1>3, <1>4, <2>1, <3>1
  <2>3. \A j \in 1 .. Len(ss[k]) : o + j \in 1 .. Len(c) /\ c[o + j] = ss[k][j]
    BY <1>1, <2>1, FlatBlock
  <2>4. \A j \in 1 .. Len(ss[k]) : (p + o) + j = p + (o + j)
    BY <1>7, <2>2
  <2>5. \A j \in 1 .. Len(ss[k]) : w[(p + o) + j] = ss[k][j]
    BY <1>7, <2>3, <2>4
  <2>6. (p + o) + Len(ss[k]) <= Len(w)
    <3>1. Len(ss[k]) \in 1 .. Len(ss[k])
      BY <2>2
    <3>2. o + Len(ss[k]) \in 1 .. Len(c)
      BY <2>3, <3>1
    <3>3. PICK l : l = Len(ss[k])
      OBVIOUS
    <3>4. l \in Nat /\ o + l \in 1 .. Len(c)
      BY <2>2, <3>2, <3>3
    <3>5. (p + o) + l <= Len(w)
      BY <1>7, <2>2, <3>4
    <3> QED
      BY <3>3, <3>5
  <2>7. p + o \in Nat
    BY <1>7, <2>2
  <2> QED
    BY <1>7, <2>1, <2>2, <2>5, <2>6, <2>7 DEF InPlace
<1> QED
  BY <1>1, <1>4, <1>5, <1>6, <1>8

-----------------------------------------------------------------------------
(* Reads of a message, counted field by field.                             *)

(* What is still to be read: items, and loops over plain ones.             *)
Widths == {1, 2, 4, 8}

Plains ==
    {ReadInt(x, f) : x \in Widths, f \in Fields} \cup {ReadString(f) : f \in Fields}
        \cup {ReadTag(T, f) : T \in SUBSET {"d", "n", "f", "i", "K", "O", "N"}, f \in Fields}
        \cup {ReadColumn(f) : f \in Fields}

Items ==
    Plains
        \cup {ReadCount(x, once, each) : x \in Widths, once \in Seq(Plains), each \in Seq(Plains)}
        \cup {Loop(c, each) : c \in Int, each \in Seq(Plains)}

(* What is read of a message after n[f] entries of each field.             *)
Read(m, n) == [f \in Fields |-> [i \in 1 .. n[f] |-> m[f][i]]]

(* One more entry of a field.                                              *)
More(n, f) == [n EXCEPT ![f] = n[f] + 1]

(* From here on, the message is read to its end.                           *)
Good(k, w, m, p, t, n) == Reaches(k, w, m, At(p, t, Read(m, n)))

(* The parts of a state.                                                   *)
LEMMA AtFields ==
    ASSUME NEW p, NEW t, NEW g
    PROVE  At(p, t, g).pos = p /\ At(p, t, g).todo = t /\ At(p, t, g).got = g
  BY DEF At

(* Reading an entry appends it.                                            *)
LEMMA MoreRead ==
    ASSUME NEW m, NEW n \in [Fields -> Nat], NEW f \in Fields
    PROVE  /\ [Read(m, n) EXCEPT ![f] = Append(Read(m, n)[f], m[f][n[f] + 1])] = Read(m, More(n, f))
           /\ More(n, f) \in [Fields -> Nat]
<1>1. More(n, f) \in [Fields -> Nat] /\ More(n, f)[f] = n[f] + 1
      /\ \A g \in Fields : g # f => More(n, f)[g] = n[g]
  BY DEF More
<1>2. n[f] \in Nat
  OBVIOUS
<1>3. PICK c \in Nat : c = n[f]
  BY <1>2
<1> DEFINE S == {m[f][i] : i \in 1 .. c + 1}
           a == [i \in 1 .. c |-> m[f][i]]
           b == [i \in 1 .. c + 1 |-> m[f][i]]
<1>4. /\ \A i \in 1 .. c + 1 : m[f][i] \in S /\ b[i] = m[f][i]
      /\ \A i \in 1 .. c : m[f][i] \in S /\ a[i] = m[f][i]
  OBVIOUS
<1>5. a \in Seq(S) /\ b \in Seq(S) /\ Len(a) = c /\ Len(b) = c + 1
  <2> HIDE DEF S
  <2>1. [i \in 1 .. c |-> m[f][i]] \in Seq(S) /\ [i \in 1 .. c + 1 |-> m[f][i]] \in Seq(S)
    BY <1>4, IsASeq
  <2>2. Len([i \in 1 .. c |-> m[f][i]]) = c /\ Len([i \in 1 .. c + 1 |-> m[f][i]]) = c + 1
    BY <2>1, LenProperties
  <2> QED
    BY <2>1, <2>2
<1>6. Append(a, m[f][c + 1]) = b
  <2> HIDE DEF S, a, b
  <2>1. c + 1 \in 1 .. c + 1
    OBVIOUS
  <2>2. PICK v : v = m[f][c + 1]
    OBVIOUS
  <2>3. v \in S
    BY <1>4, <2>1, <2>2
  <2>4. /\ Append(a, v) \in Seq(S) /\ Len(Append(a, v)) = c + 1
        /\ \A i \in 1 .. c : Append(a, v)[i] = a[i]
        /\ Append(a, v)[c + 1] = v
    BY <1>5, <2>3, AppendProperties
  <2>5. \A i \in 1 .. c + 1 : i \in 1 .. c \/ i = c + 1
    OBVIOUS
  <2>6. \A i \in 1 .. c + 1 : Append(a, v)[i] = b[i]
    BY <1>4, <2>2, <2>4, <2>5
  <2>7. Append(a, v) = b
    BY <1>5, <2>4, <2>6, SeqEqual
  <2> QED
    BY <2>2, <2>7
<1>7. Read(m, n)[f] = a
  BY <1>3 DEF Read
<1>8. Read(m, More(n, f))[f] = b
  BY <1>1, <1>3 DEF Read
<1>9. \A g \in Fields : g # f => Read(m, More(n, f))[g] = Read(m, n)[g]
  BY <1>1 DEF Read
<1> HIDE DEF a, b
<1>10. PICK r : r = Read(m, n)
  OBVIOUS
<1>11. PICK q : q = Read(m, More(n, f))
  OBVIOUS
<1>12. r = [g \in Fields |-> r[g]] /\ q = [g \in Fields |-> q[g]]
  BY <1>10, <1>11 DEF Read
<1>13. [r EXCEPT ![f] = b] = q
  BY <1>8, <1>9, <1>10, <1>11, <1>12
<1> QED
  BY <1>1, <1>3, <1>6, <1>7, <1>10, <1>11, <1>13

(* What is read next, and what then.                                       *)
LEMMA TailOf ==
    ASSUME NEW t \in Seq(Items), t # <<>>
    PROVE  Tail(t) \in Seq(Items) /\ <<>> \o Tail(t) = Tail(t) /\ Head(t) \in Items
<1> QED
  BY HeadTailProperties, ConcatEmptySeq

(* A read of a field comes next.                                           *)
ToRead(t, f) == t \in Seq(Items) /\ t # <<>> /\ Head(t).field = f

(* The entry of the field that was not read yet.                           *)
NextIs(m, n, f, v) == n \in [Fields -> Nat] /\ f \in Fields /\ v = m[f][n[f] + 1]

(* Taking in that entry.                                                   *)
LEMMA TakenIn ==
    ASSUME NEW m, NEW n, NEW f, NEW p, NEW t, NEW x, NEW then, NEW v,
           ToRead(t, f), NextIs(m, n, f, v),
           NEW s, s = At(p, t, Read(m, n)), NEW u, u = TookIn(s, x, v, then)
    PROVE  u = At(p + x, then \o Tail(t), Read(m, More(n, f)))
<1>1. PICK g : g = Read(m, n)
  OBVIOUS
<1>2. /\ At(p, t, g).pos = p /\ At(p, t, g).todo = t /\ At(p, t, g).got = g
  BY AtFields
<1>3. [g EXCEPT ![f] = Append(g[f], v)] = Read(m, More(n, f))
  BY <1>1, MoreRead DEF NextIs
<1>4. TookIn(At(p, t, g), x, v, then)
        = At(p + x, then \o Tail(t), [g EXCEPT ![f] = Append(g[f], v)])
  BY <1>2 DEF TookIn, ToRead
<1> QED
  BY <1>1, <1>3, <1>4

(* The same for a read that adds no others.                                *)
LEMMA TakenAlone ==
    ASSUME NEW m, NEW n, NEW f, NEW p, NEW t, NEW x, NEW v,
           ToRead(t, f), NextIs(m, n, f, v),
           NEW s, s = At(p, t, Read(m, n)), NEW u, u = TookIn(s, x, v, <<>>)
    PROVE  u = At(p + x, Tail(t), Read(m, More(n, f)))
<1>1. PICK e : e = <<>>
  OBVIOUS
<1>2. u = TookIn(s, x, v, e)
  BY <1>1
<1>3. u = At(p + x, e \o Tail(t), Read(m, More(n, f)))
  BY <1>2, TakenIn
<1>4. e \o Tail(t) = Tail(t)
  BY <1>1, TailOf DEF ToRead
<1> QED
  BY <1>3, <1>4

(* An integer in place is read.                                            *)
LEMMA IntRead ==
    ASSUME NEW k, NEW w, NEW m, NEW p, NEW x \in Widths, NEW f, NEW v \in Int,
           NEW t \in Seq(Items), t # <<>>, Head(t) = ReadInt(x, f),
           NEW n, NextIs(m, n, f, v),
           InPlace(w, p, IntBytes(x, v)), Good(k, w, m, p + x, Tail(t), More(n, f))
    PROVE  Good(k, w, m, p, t, n)
<1>1. PICK s : s = At(p, t, Read(m, n))
  OBVIOUS
<1>2. s.pos = p /\ s.todo = t
  BY <1>1, AtFields
<1>3. PICK h : h = Head(t)
  OBVIOUS
<1>4. h.read = "int" /\ h.width = x /\ h.field = f
  BY <1>3 DEF ReadInt
<1>5. x \in Nat /\ x >= 1
  BY DEF Widths
<1>6. /\ p \in Nat /\ p + x <= Len(w) /\ Len(w) \in Nat
      /\ \A i \in 1 .. x : w[p + i].int = v /\ ~ w[p + i].tag
  <2>1. PICK b : b = IntBytes(x, v)
    OBVIOUS
  <2>2. Len(b) = x /\ \A i \in 1 .. x : b[i].int = v /\ ~ b[i].tag
    BY <1>5, <2>1, IntBytesAre
  <2> QED
    BY <1>5, <2>1, <2>2 DEF InPlace
<1>7. Plain(w, p, p + x)
  <2>1. \A i \in p + 1 .. p + x : i - p \in 1 .. x /\ p + (i - p) = i
    BY <1>5, <1>6
  <2> QED
    BY <1>6, <2>1 DEF Plain
<1>8. w[p + 1].int = v
  BY <1>5, <1>6
<1>9. PICK u : u = TookIn(s, x, v, <<>>)
  OBVIOUS
<1>10. u = At(p + x, Tail(t), Read(m, More(n, f)))
  <2>1. ToRead(t, f)
    BY <1>3, <1>4 DEF ToRead
  <2> QED
    BY <1>1, <1>9, <2>1, TakenAlone
<1>11. IntStep(w, s, u)
  BY <1>2, <1>3, <1>4, <1>5, <1>6, <1>7, <1>8, <1>9 DEF IntStep
<1>12. Step(k, w, s, u)
  BY <1>2, <1>11 DEF Step
<1>13. Reaches(k, w, m, u)
  BY <1>10 DEF Good
<1> QED
  BY <1>1, <1>12, <1>13, ReachesStep DEF Good

(* A string in place is read: no NUL comes before its end.                 *)
LEMMA StringRead ==
    ASSUME NEW k, NEW w, NEW m, NEW p, NEW f, NEW v \in Seq(Characters),
           NEW t \in Seq(Items), t # <<>>, Head(t) = ReadString(f),
           NEW n, NextIs(m, n, f, v),
           InPlace(w, p, CString(v)), Good(k, w, m, p + (Len(v) + 1), Tail(t), More(n, f))
    PROVE  Good(k, w, m, p, t, n)
<1>1. PICK s : s = At(p, t, Read(m, n))
  OBVIOUS
<1>2. s.pos = p /\ s.todo = t
  BY <1>1, AtFields
<1>3. PICK h : h = Head(t)
  OBVIOUS
<1>4. h.read = "cstring" /\ h.field = f
  BY <1>3 DEF ReadString
<1>5. PICK x : x = Len(v)
  OBVIOUS
<1>6. /\ p \in Nat /\ x \in Nat /\ p + (x + 1) <= Len(w) /\ Len(w) \in Nat
      /\ \A i \in 1 .. x : w[p + i].char = v[i] /\ v[i] # "NUL"
      /\ w[p + (x + 1)].char = "NUL"
      /\ \A i \in 1 .. x + 1 : ~ w[p + i].tag
  <2>1. PICK b : b = CString(v)
    OBVIOUS
  <2>2. /\ Len(b) = x + 1 /\ x \in Nat
        /\ \A i \in 1 .. x : b[i].char = v[i] /\ v[i] # "NUL"
        /\ b[x + 1].char = "NUL" /\ \A i \in 1 .. x + 1 : ~ b[i].tag
    BY <1>5, <2>1, CStringIs
  <2>3. /\ p \in Nat /\ Len(w) \in Nat /\ p + (x + 1) <= Len(w)
        /\ \A i \in 1 .. x + 1 : w[p + i] = b[i]
    BY <2>1, <2>2 DEF InPlace
  <2>4. x + 1 \in 1 .. x + 1 /\ \A i \in 1 .. x : i \in 1 .. x + 1
    BY <2>2
  <2>5. w[p + (x + 1)].char = "NUL"
    BY <2>2, <2>3, <2>4
  <2>6. \A i \in 1 .. x : w[p + i].char = v[i] /\ v[i] # "NUL"
    BY <2>2, <2>3, <2>4
  <2>7. \A i \in 1 .. x + 1 : ~ w[p + i].tag
    BY <2>2, <2>3
  <2> QED
    BY <2>2, <2>3, <2>5, <2>6, <2>7
<1>7. PICK e : e = p + (x + 1)
  OBVIOUS
<1>8. /\ e \in p + 1 .. Len(w) /\ e - p = x + 1 /\ e - 1 - p = x
      /\ w[e].char = "NUL"
  BY <1>6, <1>7
<1>9. \A i \in p + 1 .. e - 1 : w[i].char # "NUL"
  <2>1. \A i \in p + 1 .. e - 1 : i - p \in 1 .. x /\ p + (i - p) = i
    BY <1>6, <1>7
  <2> QED
    BY <1>6, <2>1
<1>10. Plain(w, p, e)
  <2>1. \A i \in p + 1 .. e : i - p \in 1 .. x + 1 /\ p + (i - p) = i
    BY <1>6, <1>7
  <2> QED
    BY <1>6, <2>1 DEF Plain
<1>11. [i \in 1 .. x |-> w[p + i].char] = v
  <2>1. v = [i \in 1 .. x |-> v[i]]
    BY <1>5, LenProperties
  <2> QED
    BY <1>6, <2>1
<1>12. PICK u : u = TookIn(s, x + 1, v, <<>>)
  OBVIOUS
<1>13. u = At(p + (x + 1), Tail(t), Read(m, More(n, f)))
  <2>1. ToRead(t, f)
    BY <1>3, <1>4 DEF ToRead
  <2>2. PICK y : y = x + 1
    OBVIOUS
  <2>3. u = TookIn(s, y, v, <<>>)
    BY <1>12, <2>2
  <2>4. u = At(p + y, Tail(t), Read(m, More(n, f)))
    BY <1>1, <2>1, <2>3, TakenAlone
  <2> QED
    BY <2>2, <2>4
<1>14. StringStep(w, s, u)
  <2>1. u = TookIn(s, e - p, [i \in 1 .. e - 1 - p |-> w[p + i].char], <<>>)
    BY <1>8, <1>11, <1>12
  <2>2. Head(s.todo).read = "cstring"
    BY <1>2, <1>3, <1>4
  <2>3. /\ e \in s.pos + 1 .. Len(w)
        /\ w[e].char = "NUL" /\ \A i \in s.pos + 1 .. e - 1 : w[i].char # "NUL"
        /\ Plain(w, s.pos, e)
        /\ u = TookIn(s, e - s.pos, [i \in 1 .. e - 1 - s.pos |-> w[s.pos + i].char], <<>>)
    BY <1>2, <1>8, <1>9, <1>10, <2>1
  <2> QED
    BY <2>2, <2>3 DEF StringStep
<1>15. Step(k, w, s, u)
  BY <1>2, <1>14 DEF Step
<1>16. Reaches(k, w, m, u)
  BY <1>5, <1>13 DEF Good
<1> QED
  BY <1>1, <1>15, <1>16, ReachesStep DEF Good

(* A character in place.                                                   *)
TagAt(w, p, c) == p \in Nat /\ Len(w) \in Nat /\ p + 1 <= Len(w) /\ w[p + 1].char = c

(* A tag in place is read, and what it announces comes next.               *)
LEMMA TagRead ==
    ASSUME NEW k, NEW w, NEW m, NEW p, NEW f, NEW c, NEW T, c \in T, "b" \notin T,
           NEW t \in Seq(Items), t # <<>>, Head(t) = ReadTag(T, f),
           NEW n, NextIs(m, n, f, c),
           TagAt(w, p, c), Good(k, w, m, p + 1, Announced(k, c) \o Tail(t), More(n, f))
    PROVE  Good(k, w, m, p, t, n)
<1>1. PICK s : s = At(p, t, Read(m, n))
  OBVIOUS
<1>2. s.pos = p /\ s.todo = t
  BY <1>1, AtFields
<1>3. PICK h : h = Head(t)
  OBVIOUS
<1>4. h.read = "tag" /\ h.field = f /\ h.tags = T
  BY <1>3 DEF ReadTag
<1>5. PICK a : a = Announced(k, c)
  OBVIOUS
<1>6. PICK u : u = TookIn(s, 1, c, a)
  OBVIOUS
<1>7. u = At(p + 1, a \o Tail(t), Read(m, More(n, f)))
  <2>1. ToRead(t, f)
    BY <1>3, <1>4 DEF ToRead
  <2> QED
    BY <1>1, <1>6, <2>1, TakenIn
<1>8. TagStep(k, w, s, u)
  BY <1>2, <1>3, <1>4, <1>5, <1>6 DEF TagStep, TagAt
<1>9. Step(k, w, s, u)
  BY <1>2, <1>8 DEF Step
<1>10. Reaches(k, w, m, u)
  BY <1>5, <1>7 DEF Good
<1> QED
  BY <1>1, <1>9, <1>10, ReachesStep DEF Good

(* A count in place is read.                                               *)
LEMMA CountRead ==
    ASSUME NEW k, NEW w, NEW m, NEW p, NEW x \in Widths, NEW v \in Int, NEW once, NEW each,
           NEW t \in Seq(Items), t # <<>>, Head(t) = ReadCount(x, once, each), NEW n,
           InPlace(w, p, IntBytes(x, v)),
           Good(k, w, m, p + x, once \o <<Loop(v, each)>> \o Tail(t), n)
    PROVE  Good(k, w, m, p, t, n)
<1>1. PICK s : s = At(p, t, Read(m, n))
  OBVIOUS
<1>2. s.pos = p /\ s.todo = t /\ s.got = Read(m, n)
  BY <1>1, AtFields
<1>3. PICK h : h = Head(t)
  OBVIOUS
<1>4. h.read = "count" /\ h.width = x /\ h.once = once /\ h.each = each
  BY <1>3 DEF ReadCount
<1>5. x \in Nat /\ x >= 1
  BY DEF Widths
<1>6. /\ p \in Nat /\ p + x <= Len(w) /\ Len(w) \in Nat
      /\ \A i \in 1 .. x : w[p + i].int = v /\ ~ w[p + i].tag
  <2>1. PICK b : b = IntBytes(x, v)
    OBVIOUS
  <2>2. Len(b) = x /\ \A i \in 1 .. x : b[i].int = v /\ ~ b[i].tag
    BY <1>5, <2>1, IntBytesAre
  <2> QED
    BY <1>5, <2>1, <2>2 DEF InPlace
<1>7. Plain(w, p, p + x)
  <2>1. \A i \in p + 1 .. p + x : i - p \in 1 .. x /\ p + (i - p) = i
    BY <1>5, <1>6
  <2> QED
    BY <1>6, <2>1 DEF Plain
<1>8. w[p + 1].int = v
  BY <1>5, <1>6
<1>9. PICK u : u = At(p + x, once \o <<Loop(v, each)>> \o Tail(t), Read(m, n))
  OBVIOUS
<1>10. CountStep(w, s, u)
  BY <1>2, <1>3, <1>4, <1>5, <1>6, <1>7, <1>8, <1>9 DEF CountStep
<1>11. Step(k, w, s, u)
  BY <1>2, <1>10 DEF Step
<1>12. Reaches(k, w, m, u)
  BY <1>9 DEF Good
<1> QED
  BY <1>1, <1>11, <1>12, ReachesStep DEF Good

(* A loop is entered once more, or left.                                   *)
LEMMA LoopRead ==
    ASSUME NEW k, NEW w, NEW m, NEW p, NEW c \in Nat, NEW each,
           NEW t \in Seq(Items), t # <<>>, Head(t) = Loop(c, each), NEW n,
           Good(k, w, m, p, IF c = 0 THEN Tail(t)
                            ELSE each \o <<Loop(c - 1, each)>> \o Tail(t), n)
    PROVE  Good(k, w, m, p, t, n)
<1>1. PICK s : s = At(p, t, Read(m, n))
  OBVIOUS
<1>2. s.pos = p /\ s.todo = t /\ s.got = Read(m, n)
  BY <1>1, AtFields
<1>3. PICK h : h = Head(t)
  OBVIOUS
<1>4. h.read = "loop" /\ h.times = c /\ h.each = each
  BY <1>3 DEF Loop
<1>5. PICK q : q = IF c = 0 THEN Tail(t) ELSE each \o <<Loop(c - 1, each)>> \o Tail(t)
  OBVIOUS
<1>6. PICK u : u = At(p, q, Read(m, n))
  OBVIOUS
<1>7. LoopStep(s, u)
  <2>1. c <= 0 <=> c = 0
    OBVIOUS
  <2> QED
    BY <1>2, <1>3, <1>4, <1>5, <1>6, <2>1 DEF LoopStep
<1>8. Step(k, w, s, u)
  BY <1>2, <1>7 DEF Step
<1>9. Reaches(k, w, m, u)
  BY <1>5, <1>6 DEF Good
<1> QED
  BY <1>1, <1>8, <1>9, ReachesStep DEF Good

(* A tag is one byte.                                                      *)
LEMMA TagByte ==
    ASSUME NEW c, c \in {"n", "u", "t", "d", "f", "i", "K", "O", "N"}
    PROVE  /\ <<Tag(c)>> \in Seq(Byte) /\ Len(<<Tag(c)>>) = 1
           /\ <<Tag(c)>>[1] = Tag(c) /\ Tag(c).char = c
<1>1. Tag(c) \in Byte
  BY DEF Byte, Known
<1>2. Tag(c).char = c
  BY DEF Tag
<1>3. PICK b : b = Tag(c)
  OBVIOUS
<1> QED
  BY <1>1, <1>2, <1>3

(* And that byte is the character to read.                                 *)
LEMMA TagInPlace ==
    ASSUME NEW w, NEW p, NEW c, c \in {"n", "u", "t", "d", "f", "i", "K", "O", "N"},
           NEW a, a = <<Tag(c)>>, InPlace(w, p, a)
    PROVE  TagAt(w, p, c) /\ a \in Seq(Byte) /\ Len(a) = 1
<1>1. PICK b : b = Tag(c)
  OBVIOUS
<1>2. b.char = c /\ Len(a) = 1 /\ a[1] = b /\ a \in Seq(Byte)
  BY <1>1, TagByte
<1>3. w[p + 1] = a[1]
  <2>1. 1 \in 1 .. Len(a)
    BY <1>2
  <2> QED
    BY <2>1 DEF InPlace
<1> QED
  BY <1>2, <1>3 DEF InPlace, TagAt

(* A column of a tuple takes at least one byte.                            *)
LEMMA ColumnBytesAre ==
    ASSUME NEW v \in ColumnValue
    PROVE  ColumnBytes(v) \in Seq(Byte) /\ Len(ColumnBytes(v)) \in Nat \ {0}
<1>1. CASE v \in {<<"n">>, <<"u">>}
  <2>1. PICK c : c \in {"n", "u"} /\ v = <<c>>
    BY <1>1
  <2>2. v[1] = c /\ c # "t"
    BY <2>1
  <2>3. PICK a : a = <<Tag(c)>>
    OBVIOUS
  <2>4. ColumnBytes(v) = a
    BY <2>2, <2>3 DEF ColumnBytes
  <2>5. a \in Seq(Byte) /\ Len(a) = 1
    BY <2>1, <2>3, TagByte
  <2> QED
    BY <2>4, <2>5
<1>2. CASE v \in {"t"} \X Seq(Characters)
  <2>1. PICK s \in Seq(Characters) : v = <<"t", s>>
    BY <1>2
  <2>2. v[1] = "t" /\ v[2] = s
    BY <2>1
  <2>3. PICK a : a = <<Tag("t")>>
    OBVIOUS
  <2>4. PICK b : b = IntBytes(4, Len(s))
    OBVIOUS
  <2>5. PICK x : x = Text(s)
    OBVIOUS
  <2>6. ColumnBytes(v) = (a \o b) \o x
    BY <2>2, <2>3, <2>4, <2>5 DEF ColumnBytes
  <2>7. a \in Seq(Byte) /\ Len(a) = 1
    BY <2>3, TagByte
  <2>8. x \in Seq(Byte) /\ Len(s) \in Nat /\ Len(x) = Len(s)
    BY <2>5, TextIs
  <2>9. b \in Seq(Byte) /\ Len(b) = 4
    <3>1. Len(s) \in Int /\ 4 \in Nat
      BY <2>8
    <3> QED
      BY <2>4, <3>1, IntBytesAre
  <2>10. PICK d : d = a \o b
    OBVIOUS
  <2>11. Joined(Byte, d, a, b)
    BY <2>7, <2>9, <2>10, Joining
  <2>12. d \in Seq(Byte) /\ Len(d) = 5
    BY <2>7, <2>9, <2>11 DEF Joined
  <2>13. PICK e : e = d \o x
    OBVIOUS
  <2>14. Joined(Byte, e, d, x)
    BY <2>8, <2>12, <2>13, Joining
  <2>15. e \in Seq(Byte) /\ Len(e) = 5 + Len(s)
    BY <2>8, <2>12, <2>14 DEF Joined
  <2>16. Len(e) \in Nat \ {0}
    BY <2>8, <2>15
  <2> QED
    BY <2>6, <2>10, <2>13, <2>15, <2>16
<1> QED
  BY <1>1, <1>2 DEF ColumnValue

(* A NULL or an unchanged column is read.                                  *)
LEMMA ShortRead ==
    ASSUME NEW k, NEW w, NEW m, NEW p, NEW f, NEW c, c \in {"n", "u"}, NEW v, v = <<c>>,
           NEW t \in Seq(Items), t # <<>>, Head(t) = ReadColumn(f),
           NEW n, NextIs(m, n, f, v),
           TagAt(w, p, c), Good(k, w, m, p + 1, Tail(t), More(n, f))
    PROVE  Good(k, w, m, p, t, n)
<1>1. PICK s : s = At(p, t, Read(m, n))
  OBVIOUS
<1>2. s.pos = p /\ s.todo = t
  BY <1>1, AtFields
<1>3. PICK h : h = Head(t)
  OBVIOUS
<1>4. h.read = "column" /\ h.field = f
  BY <1>3 DEF ReadColumn
<1>5. PICK u : u = TookIn(s, 1, v, <<>>)
  OBVIOUS
<1>6. u = At(p + 1, Tail(t), Read(m, More(n, f)))
  <2>1. ToRead(t, f)
    BY <1>3, <1>4 DEF ToRead
  <2> QED
    BY <1>1, <1>5, <2>1, TakenAlone
<1>7. ShortStep(w, s, u)
  BY <1>2, <1>3, <1>4, <1>5 DEF ShortStep, TagAt
<1>8. Step(k, w, s, u)
  BY <1>2, <1>7 DEF Step
<1>9. Reaches(k, w, m, u)
  BY <1>6 DEF Good
<1> QED
  BY <1>1, <1>8, <1>9, ReachesStep DEF Good

(* A column with a text is read: tag, length, characters.                  *)
LEMMA TextRead ==
    ASSUME NEW k, NEW w, NEW m, NEW p, NEW f, NEW s \in Seq(Characters), NEW v, v = <<"t", s>>,
           NEW t \in Seq(Items), t # <<>>, Head(t) = ReadColumn(f),
           NEW n, NextIs(m, n, f, v),
           TagAt(w, p, "t"), InPlace(w, p + 1, IntBytes(4, Len(s))), InPlace(w, p + 5, Text(s)),
           Good(k, w, m, p + (5 + Len(s)), Tail(t), More(n, f))
    PROVE  Good(k, w, m, p, t, n)
<1>1. PICK z : z = At(p, t, Read(m, n))
  OBVIOUS
<1>2. z.pos = p /\ z.todo = t
  BY <1>1, AtFields
<1>3. PICK h : h = Head(t)
  OBVIOUS
<1>4. h.read = "column" /\ h.field = f
  BY <1>3 DEF ReadColumn
<1>5. PICK l : l = Len(s)
  OBVIOUS
<1>6. PICK x : x = Text(s)
  OBVIOUS
<1>7. PICK b : b = IntBytes(4, l)
  OBVIOUS
<1>8. l \in Nat /\ Len(x) = l /\ \A i \in 1 .. l : x[i].char = s[i] /\ ~ x[i].tag
  BY <1>5, <1>6, TextIs
<1>9. Len(b) = 4 /\ \A i \in 1 .. 4 : b[i].int = l /\ ~ b[i].tag
  <2>1. l \in Int /\ 4 \in Nat
    BY <1>8
  <2> QED
    BY <1>7, <2>1, IntBytesAre
<1>10. /\ p \in Nat /\ Len(w) \in Nat /\ w[p + 1].char = "t"
       /\ InPlace(w, p + 1, b) /\ InPlace(w, p + 5, x)
  BY <1>5, <1>6, <1>7 DEF TagAt
<1>11. \A i \in 1 .. 4 : w[(p + 1) + i] = b[i]
  BY <1>9, <1>10 DEF InPlace
<1>12. (p + 5) + l <= Len(w) /\ \A i \in 1 .. l : w[(p + 5) + i] = x[i]
  BY <1>8, <1>10 DEF InPlace
<1>13. w[p + 2].int = l
  <2>1. (p + 1) + 1 = p + 2 /\ 1 \in 1 .. 4
    BY <1>10
  <2> QED
    BY <1>9, <1>11, <2>1
<1>14. Plain(w, p + 1, (p + 5) + l)
  <2>1. \A i \in p + 2 .. (p + 5) + l :
            \/ i - (p + 1) \in 1 .. 4 /\ (p + 1) + (i - (p + 1)) = i
            \/ i - (p + 5) \in 1 .. l /\ (p + 5) + (i - (p + 5)) = i
    BY <1>8, <1>10
  <2>2. \A i \in p + 2 .. (p + 5) + l : ~ w[i].tag
    <3> SUFFICES ASSUME NEW i \in p + 2 .. (p + 5) + l
                 PROVE  ~ w[i].tag
      OBVIOUS
    <3>1. CASE i - (p + 1) \in 1 .. 4 /\ (p + 1) + (i - (p + 1)) = i
      <4>1. PICK j \in 1 .. 4 : (p + 1) + j = i
        BY <3>1
      <4> QED
        BY <1>9, <1>11, <4>1
    <3>2. CASE i - (p + 5) \in 1 .. l /\ (p + 5) + (i - (p + 5)) = i
      <4>1. PICK j \in 1 .. l : (p + 5) + j = i
        BY <3>2
      <4> QED
        BY <1>8, <1>12, <4>1
    <3> QED
      BY <2>1, <3>1, <3>2
  <2>3. (p + 1) + 1 = p + 2
    BY <1>10
  <2> QED
    BY <2>2, <2>3 DEF Plain
<1>15. [i \in 1 .. l |-> w[(p + 5) + i].char] = s
  <2>1. s = [i \in 1 .. l |-> s[i]]
    BY <1>5, LenProperties
  <2> QED
    BY <1>8, <1>12, <2>1
<1>16. PICK y : y = 5 + l
  OBVIOUS
<1>17. PICK u : u = TookIn(z, y, v, <<>>)
  OBVIOUS
<1>18. u = At(p + y, Tail(t), Read(m, More(n, f)))
  <2>1. ToRead(t, f)
    BY <1>3, <1>4 DEF ToRead
  <2> QED
    BY <1>1, <1>17, <2>1, TakenAlone
<1>19. TextStep(w, z, u)
  <2>1. u = TookIn(z, 5 + l, <<"t", [i \in 1 .. l |-> w[(p + 5) + i].char]>>, <<>>)
    BY <1>15, <1>16, <1>17
  <2>2. Head(z.todo).read = "column" /\ w[z.pos + 1].char = "t" /\ w[z.pos + 2].int = l
    BY <1>2, <1>3, <1>4, <1>10, <1>13
  <2>3. l \in Nat /\ z.pos + 5 + l <= Len(w) /\ Plain(w, z.pos + 1, z.pos + 5 + l)
    BY <1>2, <1>8, <1>12, <1>14
  <2>4. u = TookIn(z, 5 + l, <<"t", [i \in 1 .. l |-> w[z.pos + 5 + i].char]>>, <<>>)
    BY <1>2, <2>1
  <2> QED
    BY <2>2, <2>3, <2>4 DEF TextStep
<1>20. Step(k, w, z, u)
  BY <1>2, <1>19 DEF Step
<1>21. Reaches(k, w, m, u)
  BY <1>5, <1>16, <1>18 DEF Good
<1> QED
  BY <1>1, <1>20, <1>21, ReachesStep DEF Good

(* Any column is read.                                                     *)
LEMMA ColumnRead ==
    ASSUME NEW k, NEW w, NEW m, NEW p, NEW f, NEW v \in ColumnValue,
           NEW t \in Seq(Items), t # <<>>, Head(t) = ReadColumn(f),
           NEW n, NextIs(m, n, f, v), InPlace(w, p, ColumnBytes(v)),
           Good(k, w, m, p + Len(ColumnBytes(v)), Tail(t), More(n, f))
    PROVE  Good(k, w, m, p, t, n)
<1>1. CASE v \in {<<"n">>, <<"u">>}
  <2>1. PICK c : c \in {"n", "u"} /\ v = <<c>>
    BY <1>1
  <2>2. v[1] = c /\ c # "t"
    BY <2>1
  <2>3. PICK a : a = <<Tag(c)>>
    OBVIOUS
  <2>4. ColumnBytes(v) = a
    BY <2>2, <2>3 DEF ColumnBytes
  <2>5. TagAt(w, p, c) /\ Len(a) = 1
    BY <2>1, <2>3, <2>4, TagInPlace
  <2>6. Good(k, w, m, p + 1, Tail(t), More(n, f))
    BY <2>4, <2>5
  <2> QED
    BY <2>1, <2>5, <2>6, ShortRead
<1>2. CASE v \in {"t"} \X Seq(Characters)
  <2>1. PICK s \in Seq(Characters) : v = <<"t", s>>
    BY <1>2
  <2>2. v[1] = "t" /\ v[2] = s
    BY <2>1
  <2>3. PICK a : a = <<Tag("t")>>
    OBVIOUS
  <2>4. PICK b : b = IntBytes(4, Len(s))
    OBVIOUS
  <2>5. PICK x : x = Text(s)
    OBVIOUS
  <2>6. ColumnBytes(v) = (a \o b) \o x
    BY <2>2, <2>3, <2>4, <2>5 DEF ColumnBytes
  <2>7. a \in Seq(Byte) /\ Len(a) = 1
    BY <2>3, TagByte
  <2>8. x \in Seq(Byte) /\ Len(s) \in Nat /\ Len(x) = Len(s)
    BY <2>5, TextIs
  <2>9. b \in Seq(Byte) /\ Len(b) = 4
    <3>1. Len(s) \in Int /\ 4 \in Nat
      BY <2>8
    <3> QED
      BY <2>4, <3>1, IntBytesAre
  <2>10. PICK d : d = a \o b
    OBVIOUS
  <2>11. d \in Seq(Byte) /\ Len(d) = 5
    <3>1. Joined(Byte, d, a, b)
      BY <2>7, <2>9, <2>10, Joining
    <3> QED
      BY <2>7, <2>9, <3>1 DEF Joined
  <2>12. PICK e : e = d \o x
    OBVIOUS
  <2>13. InPlace(w, p, d) /\ InPlace(w, p + Len(d), x) /\ Len(e) = Len(d) + Len(x)
    <3>1. InPlace(w, p, e)
      BY <2>6, <2>10, <2>12
    <3>2. Made(e, d, x)
      BY <2>8, <2>11, <2>12 DEF Made
    <3> QED
      BY <3>1, <3>2, PartsInPlace
  <2>14. InPlace(w, p, a) /\ InPlace(w, p + Len(a), b)
    <3>1. Made(d, a, b)
      BY <2>7, <2>9, <2>10 DEF Made
    <3> QED
      BY <2>13, <3>1, PartsInPlace
  <2>15. TagAt(w, p, "t")
    BY <2>3, <2>14, TagInPlace
  <2>16. /\ InPlace(w, p + 1, IntBytes(4, Len(s))) /\ InPlace(w, p + 5, Text(s))
         /\ Len(ColumnBytes(v)) = 5 + Len(s)
    BY <2>4, <2>5, <2>6, <2>7, <2>8, <2>10, <2>11, <2>12, <2>13, <2>14
  <2>17. Good(k, w, m, p + (5 + Len(s)), Tail(t), More(n, f))
    BY <2>16
  <2> QED
    BY <2>1, <2>15, <2>16, <2>17, TextRead
<1> QED
  BY <1>1, <1>2 DEF ColumnValue

-----------------------------------------------------------------------------
(* Loops, inside of what is still to be read.                              *)

(* Reads, then a loop, then the rest.                                      *)
Nested(t, e, l, r) == e \in Seq(Items) /\ l \in Items /\ r \in Seq(Items) /\ t = e \o <<l>> \o r

(* Where its parts are.                                                    *)
LEMMA NestedType ==
    ASSUME NEW t, NEW e, NEW l, NEW r, Nested(t, e, l, r)
    PROVE  /\ t \in Seq(Items) /\ t # <<>>
           /\ Len(e) \in Nat /\ Len(r) \in Nat /\ Len(t) = Len(e) + 1 + Len(r)
           /\ \A i \in 1 .. Len(e) : t[i] = e[i]
           /\ t[Len(e) + 1] = l
           /\ \A i \in 1 .. Len(r) : t[Len(e) + 1 + i] = r[i]
<1>1. /\ t \in Seq(Items)
      /\ Len(e) \in Nat /\ Len(r) \in Nat /\ Len(t) = Len(e) + 1 + Len(r)
      /\ \A i \in 1 .. Len(e) : t[i] = e[i]
      /\ t[Len(e) + 1] = l
      /\ \A i \in 1 .. Len(r) : t[Len(e) + 1 + i] = r[i]
  BY AroundOne DEF Nested
<1>2. t # <<>>
  <2>1. Len(t) # 0 /\ Len(<<>>) = 0
    BY <1>1
  <2> QED
    BY <2>1
<1> QED
  BY <1>1, <1>2

(* Without reads before it, the loop comes next.                           *)
LEMMA NestedLast ==
    ASSUME NEW t, NEW e, NEW l, NEW r, e = <<>>, Nested(t, e, l, r)
    PROVE  t \in Seq(Items) /\ t # <<>> /\ Head(t) = l /\ Tail(t) = r
<1>1. Len(e) = 0
  OBVIOUS
<1>2. /\ t \in Seq(Items) /\ t # <<>> /\ Len(r) \in Nat /\ Len(t) = 0 + 1 + Len(r)
      /\ t[0 + 1] = l /\ \A i \in 1 .. Len(r) : t[0 + 1 + i] = r[i]
  <2>1. /\ t \in Seq(Items) /\ t # <<>> /\ Len(r) \in Nat
        /\ Len(t) = Len(e) + 1 + Len(r) /\ t[Len(e) + 1] = l
        /\ \A i \in 1 .. Len(r) : t[Len(e) + 1 + i] = r[i]
    BY NestedType
  <2> QED
    BY <1>1, <2>1
<1>3. /\ Head(t) = t[1] /\ Tail(t) \in Seq(Items) /\ Len(Tail(t)) = Len(t) - 1
      /\ \A i \in 1 .. Len(Tail(t)) : Tail(t)[i] = t[i + 1]
  BY <1>2, HeadTailProperties
<1>4. Len(Tail(t)) = Len(r) /\ \A i \in 1 .. Len(r) : Tail(t)[i] = r[i]
  <2>1. \A i \in 1 .. Len(r) : 0 + 1 + i = i + 1
    BY <1>2
  <2> QED
    BY <1>2, <1>3, <2>1
<1>5. Tail(t) = r
  BY <1>2, <1>3, <1>4, SeqEqual DEF Nested
<1> QED
  BY <1>2, <1>3, <1>5

(* Otherwise the first of them does.                                       *)
LEMMA NestedNext ==
    ASSUME NEW t, NEW e, NEW l, NEW r, Nested(t, e, l, r), e # <<>>
    PROVE  t \in Seq(Items) /\ t # <<>> /\ Head(t) = Head(e) /\ Nested(Tail(t), Tail(e), l, r)
<1>1. /\ t \in Seq(Items) /\ t # <<>>
      /\ Len(e) \in Nat /\ Len(r) \in Nat /\ Len(t) = Len(e) + 1 + Len(r)
      /\ \A i \in 1 .. Len(e) : t[i] = e[i]
      /\ t[Len(e) + 1] = l
      /\ \A i \in 1 .. Len(r) : t[Len(e) + 1 + i] = r[i]
  BY NestedType
<1>2. e \in Seq(Items) /\ l \in Items /\ r \in Seq(Items)
  BY DEF Nested
<1>3. PICK y : y = Tail(t)
  OBVIOUS
<1>4. PICK d : d = Tail(e)
  OBVIOUS
<1>5. /\ Head(t) = t[1] /\ y \in Seq(Items) /\ Len(y) = Len(t) - 1
      /\ \A i \in 1 .. Len(y) : y[i] = t[i + 1]
  BY <1>1, <1>3, HeadTailProperties
<1>6. /\ Head(e) = e[1] /\ d \in Seq(Items) /\ Len(d) = Len(e) - 1
      /\ \A i \in 1 .. Len(d) : d[i] = e[i + 1]
  BY <1>2, <1>4, HeadTailProperties
<1>7. Len(e) # 0
  BY <1>2, EmptySeq
<1>8. Head(t) = Head(e)
  <2>1. 1 \in 1 .. Len(e)
    BY <1>1, <1>7
  <2> QED
    BY <1>1, <1>5, <1>6, <2>1
<1>9. PICK x : x = d \o <<l>> \o r
  OBVIOUS
<1>10. Nested(x, d, l, r)
  BY <1>2, <1>6, <1>9 DEF Nested
<1>11. /\ x \in Seq(Items) /\ Len(d) \in Nat /\ Len(x) = Len(d) + 1 + Len(r)
       /\ \A i \in 1 .. Len(d) : x[i] = d[i]
       /\ x[Len(d) + 1] = l
       /\ \A i \in 1 .. Len(r) : x[Len(d) + 1 + i] = r[i]
  BY <1>10, NestedType
<1>12. PICK c : c = Len(d)
  OBVIOUS
<1>13. c \in Nat /\ Len(e) = c + 1
  BY <1>1, <1>6, <1>11, <1>12
<1>14. Len(x) = c + 1 + Len(r) /\ Len(y) = c + 1 + Len(r)
  BY <1>1, <1>5, <1>11, <1>12, <1>13
<1>15. \A i \in 1 .. c + 1 + Len(r) : x[i] = y[i]
  <2> SUFFICES ASSUME NEW i \in 1 .. c + 1 + Len(r)
               PROVE  x[i] = y[i]
    OBVIOUS
  <2>1. y[i] = t[i + 1]
    BY <1>5, <1>14
  <2>2. CASE i \in 1 .. c
    <3>1. x[i] = e[i + 1]
      BY <1>6, <1>11, <1>12, <2>2
    <3>2. i + 1 \in 1 .. Len(e)
      BY <1>13, <2>2
    <3> QED
      BY <1>1, <2>1, <3>1, <3>2
  <2>3. CASE i = c + 1
    BY <1>1, <1>11, <1>12, <1>13, <2>1, <2>3
  <2>4. CASE i \notin 1 .. c /\ i # c + 1
    <3>1. PICK j : j = i - (c + 1)
      OBVIOUS
    <3>2. j \in 1 .. Len(r) /\ c + 1 + j = i /\ (c + 1) + 1 + j = i + 1
      BY <1>1, <1>13, <2>4, <3>1
    <3>3. x[i] = r[j]
      BY <1>11, <1>12, <3>2
    <3>4. t[i + 1] = r[j]
      BY <1>1, <1>13, <3>2
    <3> QED
      BY <2>1, <3>3, <3>4
  <2> QED
    BY <2>2, <2>3, <2>4
<1>16. x = y
  BY <1>5, <1>11, <1>14, <1>15, SeqEqual
<1> QED
  BY <1>1, <1>3, <1>4, <1>8, <1>10, <1>16

(* A loop is an item.                                                      *)
LEMMA LoopItem ==
    ASSUME NEW c \in Int, NEW each \in Seq(Plains)
    PROVE  Loop(c, each) \in Items /\ each \in Seq(Items)
<1>1. Loop(c, each) \in Items
  BY DEF Items
<1>2. Plains \subseteq Items
  BY DEF Items
<1>3. Len(each) \in Nat /\ \A i \in 1 .. Len(each) : each[i] \in Items
  BY <1>2, LenProperties, ElementOfSeq
<1>4. each = [i \in 1 .. Len(each) |-> each[i]]
  BY LenProperties
<1>5. [i \in 1 .. Len(each) |-> each[i]] \in Seq(Items)
  BY <1>3, IsASeq
<1> QED
  BY <1>1, <1>4, <1>5

(* One iteration of a loop, as far as it goes.                             *)
Turn(k, w, m, P, N, each, r, j) ==
    \A l \in Items : \A t :
        /\ Nested(t, each, l, r)
        /\ \A z : Nested(z, <<>>, l, r) => Good(k, w, m, P[j + 1], z, N[j + 1])
        => Good(k, w, m, P[j], t, N[j])

(* A loop comes next.                                                      *)
Looping(t, c, each, r) == t \in Seq(Items) /\ t # <<>> /\ Head(t) = Loop(c, each) /\ Tail(t) = r

(* When every iteration leads to the next one, the loop is passed, however *)
(* often it runs.                                                          *)
LEMMA LoopGood ==
    ASSUME NEW k, NEW w, NEW m, NEW P, NEW N, NEW each \in Seq(Plains), NEW r \in Seq(Items),
           NEW c \in Nat, \A j \in 0 .. c - 1 : Turn(k, w, m, P, N, each, r, j),
           Good(k, w, m, P[c], r, N[c]),
           NEW t, Looping(t, c, each, r)
    PROVE  Good(k, w, m, P[0], t, N[0])
<1> DEFINE T == {i \in Nat : i <= c =>
                    \A z : Looping(z, i, each, r) => Good(k, w, m, P[c - i], z, N[c - i])}
<1>1. 0 \in T
  <2> SUFFICES ASSUME NEW z, Looping(z, 0, each, r)
               PROVE  Good(k, w, m, P[c - 0], z, N[c - 0])
    OBVIOUS
  <2>1. c - 0 = c
    OBVIOUS
  <2>2. z \in Seq(Items) /\ z # <<>> /\ Head(z) = Loop(0, each) /\ Tail(z) = r
    BY DEF Looping
  <2>3. Good(k, w, m, P[c], z, N[c])
    <3>1. PICK p : p = P[c]
      OBVIOUS
    <3>2. PICK n : n = N[c]
      OBVIOUS
    <3>3. Good(k, w, m, p, IF 0 = 0 THEN Tail(z) ELSE each \o <<Loop(0 - 1, each)>> \o Tail(z), n)
      BY <2>2, <3>1, <3>2
    <3>4. Good(k, w, m, p, z, n)
      BY <2>2, <3>3, LoopRead
    <3> QED
      BY <3>1, <3>2, <3>4
  <2> QED
    BY <2>1, <2>3
<1>2. ASSUME NEW i \in Nat, i \in T
      PROVE  i + 1 \in T
  <2> SUFFICES ASSUME i + 1 <= c, NEW z, Looping(z, i + 1, each, r)
               PROVE  Good(k, w, m, P[c - (i + 1)], z, N[c - (i + 1)])
    OBVIOUS
  <2>1. PICK j : j = c - (i + 1)
    OBVIOUS
  <2>2. j \in 0 .. c - 1 /\ j + 1 = c - i /\ i <= c
    BY <2>1
  <2>3. PICK l : l = Loop(i, each)
    OBVIOUS
  <2>4. l \in Items /\ each \in Seq(Items)
    BY <2>3, LoopItem
  <2>5. PICK y : y = each \o <<l>> \o r
    OBVIOUS
  <2>6. Nested(y, each, l, r)
    BY <2>4, <2>5 DEF Nested
  <2>7. ASSUME NEW x, Nested(x, <<>>, l, r)
        PROVE  Good(k, w, m, P[j + 1], x, N[j + 1])
    <3>1. x \in Seq(Items) /\ x # <<>> /\ Head(x) = l /\ Tail(x) = r
      BY <2>7, NestedLast
    <3>2. Looping(x, i, each, r)
      BY <2>3, <3>1 DEF Looping
    <3> QED
      BY <1>2, <2>2, <3>2
  <2>8. Turn(k, w, m, P, N, each, r, j)
    BY <2>2
  <2>9. Good(k, w, m, P[j], y, N[j])
    BY <2>4, <2>6, <2>7, <2>8 DEF Turn
  <2>10. z \in Seq(Items) /\ z # <<>> /\ Head(z) = Loop(i + 1, each) /\ Tail(z) = r
    BY DEF Looping
  <2>11. PICK p : p = P[j]
    OBVIOUS
  <2>12. PICK n : n = N[j]
    OBVIOUS
  <2>13. PICK b : b = i + 1
    OBVIOUS
  <2>14. b \in Nat /\ b # 0 /\ b - 1 = i /\ Head(z) = Loop(b, each)
    BY <2>10, <2>13
  <2>15. Good(k, w, m, p, IF b = 0 THEN Tail(z) ELSE each \o <<Loop(b - 1, each)>> \o Tail(z), n)
    BY <2>3, <2>5, <2>9, <2>10, <2>11, <2>12, <2>14
  <2>16. Good(k, w, m, p, z, n)
    BY <2>10, <2>14, <2>15, LoopRead
  <2> QED
    BY <2>1, <2>11, <2>12, <2>16
<1> HIDE DEF T
<1>3. c \in T
  BY <1>1, <1>2, Induction
<1>4. c <= c /\ c - c = 0
  OBVIOUS
<1> QED
  BY <1>3, <1>4 DEF T

(* So many entries of a field.                                             *)
Counts(n, f, c) == [n EXCEPT ![f] = c]

(* One more of them.                                                       *)
LEMMA CountsMore ==
    ASSUME NEW n \in [Fields -> Nat], NEW f \in Fields, NEW c \in Nat
    PROVE  /\ Counts(n, f, c) \in [Fields -> Nat] /\ Counts(n, f, c)[f] = c
           /\ More(Counts(n, f, c), f) = Counts(n, f, c + 1)
           /\ n[f] = c => Counts(n, f, c) = n
<1>1. PICK q : q = Counts(n, f, c)
  OBVIOUS
<1>2. q \in [Fields -> Nat] /\ q[f] = c /\ \A g \in Fields : g # f => q[g] = n[g]
  BY <1>1 DEF Counts
<1>3. More(q, f) = Counts(n, f, c + 1)
  <2>1. PICK x : x = More(q, f)
    OBVIOUS
  <2>2. PICK y : y = Counts(n, f, c + 1)
    OBVIOUS
  <2>3. x \in [Fields -> Nat] /\ x[f] = c + 1 /\ \A g \in Fields : g # f => x[g] = n[g]
    BY <1>2, <2>1 DEF More
  <2>4. y \in [Fields -> Nat] /\ y[f] = c + 1 /\ \A g \in Fields : g # f => y[g] = n[g]
    BY <2>2 DEF Counts
  <2> QED
    BY <2>1, <2>2, <2>3, <2>4
<1>4. n[f] = c => q = n
  BY <1>2
<1> QED
  BY <1>1, <1>2, <1>3, <1>4

(* The columns of a tuple.                                                 *)
TupleList(m, f) == [i \in 1 .. Len(m[f]) |-> ColumnBytes(m[f][i])]

(* One after the other, and none of them empty.                            *)
LEMMA TupleListIs ==
    ASSUME NEW m, NEW f, m[f] \in Seq(ColumnValue), NEW c, c = Len(m[f]),
           NEW ss, ss = TupleList(m, f)
    PROVE  /\ c \in Nat /\ ss \in Seq(Seq(Byte)) /\ Len(ss) = c
           /\ \A i \in 1 .. c : m[f][i] \in ColumnValue /\ ss[i] = ColumnBytes(m[f][i])
           /\ \A i \in 1 .. c : Len(ss[i]) # 0
<1>1. c \in Nat /\ \A i \in 1 .. c : m[f][i] \in ColumnValue
  BY LenProperties, ElementOfSeq
<1>2. \A i \in 1 .. c : ColumnBytes(m[f][i]) \in Seq(Byte) /\ Len(ColumnBytes(m[f][i])) # 0
  <2> SUFFICES ASSUME NEW i \in 1 .. c
               PROVE  ColumnBytes(m[f][i]) \in Seq(Byte) /\ Len(ColumnBytes(m[f][i])) # 0
    OBVIOUS
  <2>1. PICK v : v = m[f][i]
    OBVIOUS
  <2>2. v \in ColumnValue
    BY <1>1, <2>1
  <2>3. ColumnBytes(v) \in Seq(Byte) /\ Len(ColumnBytes(v)) # 0
    BY <2>2, ColumnBytesAre
  <2> QED
    BY <2>1, <2>3
<1>3. ss = [i \in 1 .. c |-> ColumnBytes(m[f][i])]
  BY DEF TupleList
<1>4. ss \in Seq(Seq(Byte)) /\ Len(ss) = c
  BY <1>1, <1>2, <1>3, IsASeq, LenProperties
<1> QED
  BY <1>1, <1>2, <1>3, <1>4

(* The loop over the columns of a tuple reads one at a time.               *)
LEMMA OneColumn ==
    ASSUME NEW f \in Fields
    PROVE  /\ <<ReadColumn(f)>> \in Seq(Plains) /\ <<ReadColumn(f)>> # <<>>
           /\ Head(<<ReadColumn(f)>>) = ReadColumn(f) /\ Tail(<<ReadColumn(f)>>) = <<>>
<1>1. ReadColumn(f) \in Plains
  BY DEF Plains
<1> QED
  BY <1>1

(* All columns of a tuple are read, however many there are.                *)
LEMMA ColumnsRead ==
    ASSUME NEW k, NEW w, NEW m, NEW p, NEW f \in Fields, m[f] \in Seq(ColumnValue),
           NEW n \in [Fields -> Nat], n[f] = 0,
           NEW ss, ss = TupleList(m, f), InPlace(w, p, FlattenSeq(ss)),
           NEW r \in Seq(Items),
           Good(k, w, m, p + Len(FlattenSeq(ss)), r, Counts(n, f, Len(m[f]))),
           NEW t, Looping(t, Len(m[f]), <<ReadColumn(f)>>, r)
    PROVE  Good(k, w, m, p, t, n)
<1>1. PICK c : c = Len(m[f])
  OBVIOUS
<1>2. /\ c \in Nat /\ ss \in Seq(Seq(Byte)) /\ Len(ss) = c
      /\ \A i \in 1 .. c : m[f][i] \in ColumnValue /\ ss[i] = ColumnBytes(m[f][i])
      /\ \A i \in 1 .. c : Len(ss[i]) # 0
  BY <1>1, TupleListIs
<1>3. PICK each : each = <<ReadColumn(f)>>
  OBVIOUS
<1>4. /\ each \in Seq(Plains) /\ each # <<>> /\ Head(each) = ReadColumn(f) /\ Tail(each) = <<>>
  BY <1>3, OneColumn
<1>5. /\ \A i \in 1 .. c : InPlace(w, p + Offset(ss, i), ss[i])
      /\ \A i \in 1 .. c : Offset(ss, i + 1) = Offset(ss, i) + Len(ss[i])
      /\ \A i \in 1 .. c + 1 : Offset(ss, i) \in Nat
      /\ Offset(ss, 1) = 0 /\ Offset(ss, c + 1) = Len(FlattenSeq(ss))
  BY SMTT(30), <1>2, BlocksInPlace
<1>6. p \in Nat
  BY DEF InPlace
<1>7. PICK P : P = [j \in 0 .. c |-> p + Offset(ss, j + 1)]
  OBVIOUS
<1>8. PICK N : N = [j \in 0 .. c |-> Counts(n, f, j)]
  OBVIOUS
<1>9. ASSUME NEW j \in 0 .. c - 1
      PROVE  Turn(k, w, m, P, N, each, r, j)
  <2> SUFFICES ASSUME NEW l \in Items, NEW z, Nested(z, each, l, r),
                      \A y : Nested(y, <<>>, l, r) => Good(k, w, m, P[j + 1], y, N[j + 1])
               PROVE  Good(k, w, m, P[j], z, N[j])
    BY DEF Turn
  <2>1. j + 1 \in 1 .. c /\ j \in 0 .. c /\ j + 1 \in 0 .. c /\ j \in Nat /\ j + 1 \in 1 .. c + 1
    BY <1>2
  <2>2. PICK v : v = m[f][j + 1]
    OBVIOUS
  <2>3. v \in ColumnValue /\ ss[j + 1] = ColumnBytes(v)
    BY <1>2, <2>1, <2>2
  <2>4. PICK o : o = P[j]
    OBVIOUS
  <2>5. PICK q : q = N[j]
    OBVIOUS
  <2>6. o = p + Offset(ss, j + 1) /\ InPlace(w, o, ColumnBytes(v))
    BY <1>5, <1>7, <2>1, <2>3, <2>4
  <2>7. q = Counts(n, f, j)
    BY <1>8, <2>1, <2>5
  <2>8. q \in [Fields -> Nat] /\ q[f] = j /\ More(q, f) = N[j + 1]
    BY SMTT(30), <1>8, <2>1, <2>7, CountsMore
  <2>9. NextIs(m, q, f, v)
    BY <2>2, <2>8 DEF NextIs
  <2>10. P[j + 1] = o + Len(ColumnBytes(v))
    <3>1. P[j + 1] = p + Offset(ss, (j + 1) + 1)
      BY <1>7, <2>1
    <3>2. Offset(ss, (j + 1) + 1) = Offset(ss, j + 1) + Len(ss[j + 1])
      BY <1>5, <2>1
    <3>3. Offset(ss, j + 1) \in Nat /\ Len(ss[j + 1]) \in Nat
      BY <1>5, <2>1, <2>3, ColumnBytesAre
    <3> QED
      BY <1>6, <2>3, <2>6, <3>1, <3>2, <3>3
  <2>11. z \in Seq(Items) /\ z # <<>> /\ Head(z) = ReadColumn(f) /\ Nested(Tail(z), <<>>, l, r)
    <3>1. z \in Seq(Items) /\ z # <<>> /\ Head(z) = Head(each) /\ Nested(Tail(z), Tail(each), l, r)
      BY <1>4, NestedNext
    <3> QED
      BY <1>4, <3>1
  <2>12. Good(k, w, m, o + Len(ColumnBytes(v)), Tail(z), More(q, f))
    BY <2>8, <2>10, <2>11
  <2>13. Good(k, w, m, o, z, q)
    BY <2>3, <2>6, <2>9, <2>11, <2>12, ColumnRead
  <2> QED
    BY <2>4, <2>5, <2>13
<1>10. P[0] = p /\ N[0] = n
  <2>1. 0 \in 0 .. c /\ 0 + 1 = 1 /\ 0 \in Nat
    BY <1>2
  <2>2. P[0] = p + Offset(ss, 1) /\ N[0] = Counts(n, f, 0)
    BY <1>7, <1>8, <2>1
  <2> QED
    BY <1>5, <1>6, <2>1, <2>2, CountsMore
<1>11. Good(k, w, m, P[c], r, N[c])
  <2>1. c \in 0 .. c
    BY <1>2
  <2>2. P[c] = p + Len(FlattenSeq(ss)) /\ N[c] = Counts(n, f, c)
    BY <1>5, <1>7, <1>8, <2>1
  <2> QED
    BY <1>1, <2>2
<1>12. Looping(t, c, each, r)
  BY <1>1, <1>3
<1>13. Good(k, w, m, P[0], t, N[0])
  BY <1>2, <1>4, <1>9, <1>11, <1>12, LoopGood
<1> QED
  BY <1>10, <1>13

(* A tuple, from its number of columns.                                    *)
ReadTuple(f) == ReadCount(2, <<>>, <<ReadColumn(f)>>)

(* Its number of columns, then the columns.                                *)
TupleAt(w, p, m, f) ==
    /\ InPlace(w, p, IntBytes(2, Len(m[f])))
    /\ InPlace(w, p + 2, FlattenSeq(TupleList(m, f)))

(* The bytes of the columns.                                               *)
TupleLength(m, f) == Len(FlattenSeq(TupleList(m, f)))

(* A tuple in place is read.                                               *)
LEMMA TupleRead ==
    ASSUME NEW k, NEW w, NEW m, NEW p, NEW f \in Fields, m[f] \in Seq(ColumnValue),
           NEW n \in [Fields -> Nat], n[f] = 0, TupleAt(w, p, m, f),
           NEW t \in Seq(Items), t # <<>>, Head(t) = ReadTuple(f),
           Good(k, w, m, (p + 2) + TupleLength(m, f), Tail(t), Counts(n, f, Len(m[f])))
    PROVE  Good(k, w, m, p, t, n)
<1>1. PICK c : c = Len(m[f])
  OBVIOUS
<1>2. PICK ss : ss = TupleList(m, f)
  OBVIOUS
<1>3. c \in Nat
  BY <1>1, TupleListIs
<1>4. PICK r : r = Tail(t)
  OBVIOUS
<1>5. PICK each : each = <<ReadColumn(f)>>
  OBVIOUS
<1>6. each \in Seq(Plains)
  BY <1>5, OneColumn
<1>7. PICK l : l = Loop(c, each)
  OBVIOUS
<1>8. l \in Items /\ r \in Seq(Items)
  BY <1>3, <1>4, <1>6, <1>7, LoopItem, TailOf
<1>9. PICK e : e = <<>>
  OBVIOUS
<1>10. PICK z : z = e \o <<l>> \o r
  OBVIOUS
<1>11. Nested(z, e, l, r)
  <2>1. e \in Seq(Items)
    BY <1>9
  <2> QED
    BY <1>8, <1>10, <2>1 DEF Nested
<1>12. Looping(z, c, each, r)
  BY <1>7, <1>9, <1>11, NestedLast DEF Looping
<1>13. PICK q : q = p + 2
  OBVIOUS
<1>14. Good(k, w, m, q, z, n)
  <2>1. InPlace(w, q, FlattenSeq(ss))
    BY <1>2, <1>13 DEF TupleAt
  <2>2. Good(k, w, m, q + Len(FlattenSeq(ss)), r, Counts(n, f, Len(m[f])))
    BY <1>2, <1>4, <1>13 DEF TupleLength
  <2>3. Looping(z, Len(m[f]), <<ReadColumn(f)>>, r)
    BY <1>1, <1>5, <1>12
  <2> QED
    BY <1>2, <1>8, <2>1, <2>2, <2>3, ColumnsRead
<1>15. Head(t) = ReadCount(2, e, each) /\ 2 \in Widths /\ c \in Int
  BY <1>3, <1>5, <1>9 DEF ReadTuple, Widths
<1>16. InPlace(w, p, IntBytes(2, c))
  BY <1>1 DEF TupleAt
<1>17. Good(k, w, m, p + 2, e \o <<Loop(c, each)>> \o Tail(t), n)
  BY <1>4, <1>7, <1>10, <1>13, <1>14
<1> QED
  BY <1>15, <1>16, <1>17, CountRead

-----------------------------------------------------------------------------
(* Messages, whole and in parts.                                           *)

(* Nothing is read yet.                                                    *)
Zero == [f \in Fields |-> 0]

(* Everything is.                                                          *)
Complete(m, n) == n \in [Fields -> Nat] /\ \A f \in Fields : n[f] = Len(m[f])

(* A decoder starts with nothing.                                          *)
LEMMA NothingRead ==
    ASSUME NEW m
    PROVE  Read(m, Zero) = Nothing /\ Zero \in [Fields -> Nat]
<1>1. \A f \in Fields : Zero[f] = 0
  BY DEF Zero
<1>2. \A f \in Fields : [i \in 1 .. Zero[f] |-> m[f][i]] = <<>>
  <2> SUFFICES ASSUME NEW f \in Fields
               PROVE  [i \in 1 .. Zero[f] |-> m[f][i]] = <<>>
    OBVIOUS
  <2>1. PICK g : g = [i \in 1 .. 0 |-> m[f][i]]
    OBVIOUS
  <2>2. g \in Seq({}) /\ Len(g) = 0
    <3>1. [i \in 1 .. 0 |-> m[f][i]] \in Seq({})
      BY IsASeq
    <3>2. Len([i \in 1 .. 0 |-> m[f][i]]) = 0
      BY <3>1, LenProperties
    <3> QED
      BY <2>1, <3>1, <3>2
  <2>3. g = <<>>
    BY <2>2, EmptySeq
  <2> QED
    BY <1>1, <2>1, <2>3
<1> QED
  BY <1>2 DEF Read, Nothing, Zero

(* Every field of a message is a list.                                     *)
LEMMA ListsOfMessage ==
    ASSUME NEW k \in Kinds, NEW m, WellFormed(k, m)
    PROVE  /\ m = [f \in Fields |-> m[f]]
           /\ \A f \in Fields \ FieldsOf[k] : m[f] = <<>>
           /\ \A f \in {"lsn", "end_lsn", "commit_ts", "xid", "flags", "type_oid", "rel_id",
                        "type_mod"} : m[f] \in Seq(Int)
           /\ \A f \in {"name", "namespace", "columns"} : m[f] \in Seq(Seq(Characters))
           /\ \A f \in {"key", "old", "new"} : m[f] \in Seq(ColumnValue)
           /\ m["replica_identity"] \in Seq({"d", "n", "f", "i"})
           /\ k \in {"B", "C", "O", "Y"} => \A f \in FieldsOf[k] : One(m[f])
  BY DEF WellFormed

(* And ends with the message.                                              *)
LEMMA AllRead ==
    ASSUME NEW m, NEW n, Complete(m, n), m = [f \in Fields |-> m[f]],
           \A f \in Fields : \E S : m[f] \in Seq(S)
    PROVE  Read(m, n) = m
<1>1. ASSUME NEW f \in Fields
      PROVE  [i \in 1 .. n[f] |-> m[f][i]] = m[f]
  <2>1. PICK S : m[f] \in Seq(S)
    OBVIOUS
  <2>2. m[f] = [i \in 1 .. Len(m[f]) |-> m[f][i]]
    BY <2>1, LenProperties
  <2> QED
    BY <2>2 DEF Complete
<1>2. [f \in Fields |-> [i \in 1 .. n[f] |-> m[f][i]]] = [f \in Fields |-> m[f]]
  BY <1>1
<1> QED
  BY <1>2 DEF Read

(* The last byte is read with the last field.                              *)
LEMMA GoodEnd ==
    ASSUME NEW k, NEW w, NEW m, NEW n, Complete(m, n), m = [f \in Fields |-> m[f]],
           \A f \in Fields : \E S : m[f] \in Seq(S), NEW p, p = Len(w), NEW t, t = <<>>
    PROVE  Good(k, w, m, p, t, n)
<1>1. Read(m, n) = m
  BY AllRead
<1>2. Reaches(k, w, m, Final(w, m))
  BY ReachesEnd
<1> QED
  BY <1>1, <1>2 DEF Good, Final

(* Fields of one entry.                                                    *)
LEMMA OneEntry ==
    ASSUME NEW S, NEW list \in Seq(S), One(list)
    PROVE  list[1] \in S
<1>1. 1 \in 1 .. Len(list)
  BY DEF One
<1> QED
  BY <1>1, ElementOfSeq

(* This item comes next, and then the rest.                                *)
Then(t, item, rest) == t \in Seq(Items) /\ t # <<>> /\ Head(t) = item /\ Tail(t) = rest

(* Integers and strings are items.                                         *)
LEMMA PlainItems ==
    ASSUME NEW f \in Fields
    PROVE  /\ ReadInt(1, f) \in Items /\ ReadInt(2, f) \in Items /\ ReadInt(4, f) \in Items
           /\ ReadInt(8, f) \in Items /\ ReadString(f) \in Items
  BY DEF Items, Plains, Widths

(* Three parts, and four.                                                  *)
Made3(d, a, b, c) ==
    a \in Seq(Byte) /\ b \in Seq(Byte) /\ c \in Seq(Byte) /\ d = a \o b \o c

Made4(e, a, b, c, d) ==
    /\ a \in Seq(Byte) /\ b \in Seq(Byte) /\ c \in Seq(Byte) /\ d \in Seq(Byte)
    /\ e = a \o b \o c \o d

(* Where three parts are.                                                  *)
LEMMA ThreeParts ==
    ASSUME NEW w, NEW p, NEW a, NEW b, NEW c, NEW d, Made3(d, a, b, c), InPlace(w, p, d)
    PROVE  /\ Len(a) \in Nat /\ Len(b) \in Nat /\ Len(c) \in Nat
           /\ d \in Seq(Byte) /\ Len(d) = Len(a) + Len(b) + Len(c)
           /\ InPlace(w, p, a) /\ InPlace(w, p + Len(a), b) /\ InPlace(w, (p + Len(a)) + Len(b), c)
<1>1. PICK x : x = a \o b
  OBVIOUS
<1>2. Made(x, a, b)
  BY <1>1 DEF Made, Made3
<1>3. x \in Seq(Byte) /\ Len(x) = Len(a) + Len(b) /\ Len(a) \in Nat /\ Len(b) \in Nat
  <2>1. Joined(Byte, x, a, b)
    BY <1>2, Joining DEF Made
  <2> QED
    BY <2>1 DEF Joined
<1>4. Made(d, x, c)
  BY <1>1, <1>3 DEF Made, Made3
<1>5. /\ InPlace(w, p, x) /\ InPlace(w, p + Len(x), c)
      /\ d \in Seq(Byte) /\ Len(c) \in Nat /\ Len(d) = Len(x) + Len(c)
  BY <1>4, PartsInPlace
<1>6. InPlace(w, p, a) /\ InPlace(w, p + Len(a), b)
  BY <1>2, <1>5, PartsInPlace
<1>7. p \in Nat /\ p + Len(x) = (p + Len(a)) + Len(b)
  BY <1>3 DEF InPlace
<1> QED
  BY <1>3, <1>5, <1>6, <1>7

(* Where four parts are.                                                   *)
LEMMA FourParts ==
    ASSUME NEW w, NEW p, NEW a, NEW b, NEW c, NEW d, NEW e, Made4(e, a, b, c, d), InPlace(w, p, e)
    PROVE  /\ Len(a) \in Nat /\ Len(b) \in Nat /\ Len(c) \in Nat /\ Len(d) \in Nat
           /\ e \in Seq(Byte) /\ Len(e) = Len(a) + Len(b) + Len(c) + Len(d)
           /\ InPlace(w, p, a) /\ InPlace(w, p + Len(a), b) /\ InPlace(w, (p + Len(a)) + Len(b), c)
           /\ InPlace(w, ((p + Len(a)) + Len(b)) + Len(c), d)
<1>1. PICK x : x = a \o b
  OBVIOUS
<1>2. Joined(Byte, x, a, b)
  BY <1>1, Joining DEF Made4
<1>3. x \in Seq(Byte) /\ Len(x) = Len(a) + Len(b) /\ Len(a) \in Nat /\ Len(b) \in Nat
  BY <1>2 DEF Joined
<1>4. Made(x, a, b) /\ Made3(e, x, c, d)
  BY <1>1, <1>3 DEF Made, Made3, Made4
<1>5. /\ Len(c) \in Nat /\ Len(d) \in Nat
      /\ e \in Seq(Byte) /\ Len(e) = Len(x) + Len(c) + Len(d)
      /\ InPlace(w, p, x) /\ InPlace(w, p + Len(x), c) /\ InPlace(w, (p + Len(x)) + Len(c), d)
  BY <1>4, ThreeParts
<1>6. InPlace(w, p, a) /\ InPlace(w, p + Len(a), b)
  BY <1>4, <1>5, PartsInPlace
<1>7. p \in Nat /\ p + Len(x) = (p + Len(a)) + Len(b)
  BY <1>3, <1>5 DEF InPlace
<1> QED
  BY <1>3, <1>5, <1>6, <1>7

(* A buffer is in place in itself.                                         *)
LEMMA Whole ==
    ASSUME NEW w \in Seq(Byte)
    PROVE  InPlace(w, 0, w)
  BY LenProperties DEF InPlace

(* What is put together of bytes is bytes.                                 *)
LEMMA MadeBytes ==
    ASSUME NEW w, NEW a, NEW b, NEW c, NEW d
    PROVE  /\ Made(w, a, b) => w \in Seq(Byte)
           /\ Made3(w, a, b, c) => w \in Seq(Byte)
           /\ Made4(w, a, b, c, d) => w \in Seq(Byte)
<1>1. \A x, y, z : Made(z, x, y) => z \in Seq(Byte)
  <2> SUFFICES ASSUME NEW x, NEW y, NEW z, Made(z, x, y)
               PROVE  z \in Seq(Byte)
    OBVIOUS
  <2>1. Joined(Byte, z, x, y)
    BY Joining DEF Made
  <2> QED
    BY <2>1 DEF Joined
<1>2. PICK x : x = a \o b
  OBVIOUS
<1>3. ASSUME Made3(w, a, b, c)
      PROVE  w \in Seq(Byte)
  <2>1. Made(x, a, b)
    BY <1>2, <1>3 DEF Made, Made3
  <2>2. x \in Seq(Byte)
    BY <1>1, <2>1
  <2>3. Made(w, x, c)
    BY <1>2, <1>3, <2>2 DEF Made, Made3
  <2> QED
    BY <1>1, <2>3
<1>4. ASSUME Made4(w, a, b, c, d)
      PROVE  w \in Seq(Byte)
  <2>1. Made(x, a, b)
    BY <1>2, <1>4 DEF Made, Made4
  <2>2. x \in Seq(Byte)
    BY <1>1, <2>1
  <2>3. PICK y : y = x \o c
    OBVIOUS
  <2>4. Made(y, x, c)
    BY <1>4, <2>2, <2>3 DEF Made, Made4
  <2>5. y \in Seq(Byte)
    BY <1>1, <2>4
  <2>6. Made(w, y, d)
    BY <1>2, <1>4, <2>3, <2>5 DEF Made, Made4
  <2> QED
    BY <1>1, <2>6
<1> QED
  BY <1>1, <1>3, <1>4

(* The parts of a whole buffer.                                            *)
LEMMA WholeOfTwo ==
    ASSUME NEW w, NEW a, NEW b, Made(w, a, b)
    PROVE  /\ Len(a) \in Nat /\ Len(b) \in Nat /\ Len(w) = Len(a) + Len(b)
           /\ InPlace(w, 0, a) /\ InPlace(w, Len(a), b)
<1>1. PICK p : p = 0
  OBVIOUS
<1>2. w \in Seq(Byte)
  BY Joining DEF Made, Joined
<1>3. InPlace(w, p, w)
  BY <1>1, <1>2, Whole
<1>4. /\ Len(a) \in Nat /\ Len(b) \in Nat /\ Len(w) = Len(a) + Len(b)
      /\ InPlace(w, p, a) /\ InPlace(w, p + Len(a), b)
  BY <1>3, PartsInPlace
<1>5. p + Len(a) = Len(a)
  BY <1>1, <1>4
<1> QED
  BY <1>1, <1>4, <1>5

(* The same for three.                                                     *)
LEMMA WholeOfThree ==
    ASSUME NEW w, NEW a, NEW b, NEW c, Made3(w, a, b, c)
    PROVE  /\ Len(a) \in Nat /\ Len(b) \in Nat /\ Len(c) \in Nat
           /\ Len(w) = Len(a) + Len(b) + Len(c)
           /\ InPlace(w, 0, a) /\ InPlace(w, Len(a), b) /\ InPlace(w, Len(a) + Len(b), c)
<1>1. PICK x : x = a \o b
  OBVIOUS
<1>2. Joined(Byte, x, a, b)
  BY <1>1, Joining DEF Made3
<1>3. x \in Seq(Byte) /\ Len(x) = Len(a) + Len(b)
  BY <1>2 DEF Joined
<1>4. Made(w, x, c) /\ Made(x, a, b)
  BY <1>1, <1>3 DEF Made, Made3
<1>5. /\ Len(x) \in Nat /\ Len(c) \in Nat /\ Len(w) = Len(x) + Len(c)
      /\ InPlace(w, 0, x) /\ InPlace(w, Len(x), c)
  BY <1>4, WholeOfTwo
<1>6. PICK p : p = 0
  OBVIOUS
<1>7. /\ Len(a) \in Nat /\ Len(b) \in Nat
      /\ InPlace(w, p, a) /\ InPlace(w, p + Len(a), b)
  BY <1>4, <1>5, <1>6, PartsInPlace
<1>8. p + Len(a) = Len(a)
  BY <1>6, <1>7
<1> QED
  BY <1>3, <1>5, <1>6, <1>7, <1>8

(* The same for four.                                                      *)
LEMMA WholeOfFour ==
    ASSUME NEW w, NEW a, NEW b, NEW c, NEW d, Made4(w, a, b, c, d)
    PROVE  /\ Len(a) \in Nat /\ Len(b) \in Nat /\ Len(c) \in Nat /\ Len(d) \in Nat
           /\ Len(w) = Len(a) + Len(b) + Len(c) + Len(d)
           /\ InPlace(w, 0, a) /\ InPlace(w, Len(a), b) /\ InPlace(w, Len(a) + Len(b), c)
           /\ InPlace(w, Len(a) + Len(b) + Len(c), d)
<1>1. PICK x : x = a \o b \o c
  OBVIOUS
<1>2. Made3(x, a, b, c)
  BY <1>1 DEF Made3, Made4
<1>3. x \in Seq(Byte) /\ Len(x) = Len(a) + Len(b) + Len(c)
  <2>1. PICK y : y = a \o b
    OBVIOUS
  <2>2. Joined(Byte, y, a, b)
    BY <2>1, Joining DEF Made4
  <2>3. y \in Seq(Byte) /\ Len(y) = Len(a) + Len(b)
    BY <2>2 DEF Joined
  <2>4. Joined(Byte, x, y, c)
    BY <1>1, <2>1, <2>3, Joining DEF Made4
  <2> QED
    BY <2>3, <2>4 DEF Joined
<1>4. Made(w, x, d)
  BY <1>1, <1>3 DEF Made, Made4
<1>5. /\ Len(x) \in Nat /\ Len(d) \in Nat /\ Len(w) = Len(x) + Len(d)
      /\ InPlace(w, 0, x) /\ InPlace(w, Len(x), d)
  BY <1>4, WholeOfTwo
<1>6. PICK p : p = 0
  OBVIOUS
<1>7. /\ Len(a) \in Nat /\ Len(b) \in Nat /\ Len(c) \in Nat
      /\ InPlace(w, p, a) /\ InPlace(w, p + Len(a), b) /\ InPlace(w, (p + Len(a)) + Len(b), c)
  BY <1>2, <1>5, <1>6, ThreeParts
<1>8. p + Len(a) = Len(a)
  BY <1>6, <1>7
<1> QED
  BY <1>3, <1>5, <1>6, <1>7, <1>8

-----------------------------------------------------------------------------
(* Fields that a message has once.                                         *)

(* Every field is a list of something.                                     *)
LEMMA FieldLists ==
    ASSUME NEW k \in Kinds, NEW m, WellFormed(k, m)
    PROVE  \A f \in Fields : \E S : m[f] \in Seq(S)
<1>1. ASSUME NEW f \in Fields, f # "tags"
      PROVE  \E S : m[f] \in Seq(S)
  <2>1. \/ m[f] \in Seq(Int) \/ m[f] \in Seq(Seq(Characters)) \/ m[f] \in Seq(ColumnValue)
        \/ m[f] \in Seq({"d", "n", "f", "i"})
    BY <1>1, ListsOfMessage DEF Fields
  <2> QED
    BY <2>1
<1>2. \E S : m["tags"] \in Seq(S)
  <2>1. \/ m["tags"] = <<>> \/ m["tags"] = <<"N">> \/ m["tags"] = <<"K", "N">>
        \/ m["tags"] = <<"O", "N">> \/ m["tags"] = <<"K">> \/ m["tags"] = <<"O">>
    <3>1. k \notin {"I", "U", "D"} => "tags" \in Fields \ FieldsOf[k]
      BY DEF Kinds, FieldsOf, Fields
    <3>2. k \notin {"I", "U", "D"} => m["tags"] = <<>>
      BY <3>1, ListsOfMessage
    <3> QED
      BY <3>2 DEF WellFormed
  <2>2. /\ <<>> \in Seq({"N", "K", "O"}) /\ <<"N">> \in Seq({"N", "K", "O"})
        /\ <<"K", "N">> \in Seq({"N", "K", "O"}) /\ <<"O", "N">> \in Seq({"N", "K", "O"})
        /\ <<"K">> \in Seq({"N", "K", "O"}) /\ <<"O">> \in Seq({"N", "K", "O"})
    OBVIOUS
  <2> QED
    BY <2>1, <2>2
<1> QED
  BY <1>1, <1>2

(* At the end of the buffer, when all fields are read, the message is.     *)
LEMMA MessageGood ==
    ASSUME NEW k \in Kinds, NEW m, WellFormed(k, m), NEW w, NEW n, Complete(m, n),
           NEW p, p = Len(w), NEW t, t = <<>>
    PROVE  Good(k, w, m, p, t, n)
<1>1. m = [f \in Fields |-> m[f]]
  BY ListsOfMessage
<1>2. \A f \in Fields : \E S : m[f] \in Seq(S)
  BY FieldLists
<1> QED
  BY <1>1, <1>2, GoodEnd

(* A field of one integer, and one of one string.                          *)
IntOf(m, f, x) == IntBytes(x, m[f][1])

StringOf(m, f) == CString(m[f][1])

(* Such fields in a message.                                               *)
OneInt(m, f) == f \in Fields /\ m[f] \in Seq(Int) /\ One(m[f])

OneString(m, f) == f \in Fields /\ m[f] \in Seq(Seq(Characters)) /\ One(m[f])

(* Their bytes: of an integer,                                             *)
LEMMA IntOfIs ==
    ASSUME NEW m, NEW f, NEW x \in Widths, OneInt(m, f)
    PROVE  m[f][1] \in Int /\ IntOf(m, f, x) \in Seq(Byte) /\ Len(IntOf(m, f, x)) = x
<1>1. PICK v : v = m[f][1]
  OBVIOUS
<1>2. v \in Int
  BY <1>1, OneEntry DEF OneInt
<1>3. x \in Nat
  BY DEF Widths
<1>4. IntBytes(x, v) \in Seq(Byte) /\ Len(IntBytes(x, v)) = x
  BY <1>2, <1>3, IntBytesAre
<1> QED
  BY <1>1, <1>2, <1>4 DEF IntOf

(* and of a string.                                                        *)
LEMMA StringOfIs ==
    ASSUME NEW m, NEW f, OneString(m, f)
    PROVE  /\ m[f][1] \in Seq(Characters) /\ StringOf(m, f) \in Seq(Byte)
           /\ Len(StringOf(m, f)) = Len(m[f][1]) + 1 /\ Len(m[f][1]) \in Nat
<1>1. PICK v : v = m[f][1]
  OBVIOUS
<1>2. v \in Seq(Characters)
  BY <1>1, OneEntry DEF OneString
<1>3. CString(v) \in Seq(Byte) /\ Len(CString(v)) = Len(v) + 1 /\ Len(v) \in Nat
  BY <1>2, CStringIs
<1> QED
  BY <1>1, <1>2, <1>3 DEF StringOf

(* Such a field is read: an integer,                                       *)
LEMMA FirstInt ==
    ASSUME NEW k, NEW w, NEW m, NEW p, NEW t, NEW r, NEW n \in [Fields -> Nat],
           NEW x \in Widths, NEW f, OneInt(m, f), n[f] = 0, Then(t, ReadInt(x, f), r),
           InPlace(w, p, IntOf(m, f, x)), Good(k, w, m, p + x, r, Counts(n, f, 1))
    PROVE  Good(k, w, m, p, t, n)
<1>1. PICK v : v = m[f][1]
  OBVIOUS
<1>2. v \in Int
  BY <1>1, IntOfIs
<1>3. f \in Fields
  BY DEF OneInt
<1>4. NextIs(m, n, f, v)
  BY <1>1, <1>3 DEF NextIs
<1>5. More(n, f) = Counts(n, f, 1)
  BY DEF More, Counts
<1>6. t \in Seq(Items) /\ t # <<>> /\ Head(t) = ReadInt(x, f) /\ Tail(t) = r
  BY DEF Then
<1>7. InPlace(w, p, IntBytes(x, v))
  BY <1>1 DEF IntOf
<1>8. Good(k, w, m, p + x, Tail(t), More(n, f))
  BY <1>5, <1>6
<1> QED
  BY <1>2, <1>4, <1>6, <1>7, <1>8, IntRead

(* and a string.                                                           *)
LEMMA FirstString ==
    ASSUME NEW k, NEW w, NEW m, NEW p, NEW t, NEW r, NEW n \in [Fields -> Nat],
           NEW f, OneString(m, f), n[f] = 0, Then(t, ReadString(f), r),
           InPlace(w, p, StringOf(m, f)),
           Good(k, w, m, p + Len(StringOf(m, f)), r, Counts(n, f, 1))
    PROVE  Good(k, w, m, p, t, n)
<1>1. PICK v : v = m[f][1]
  OBVIOUS
<1>2. v \in Seq(Characters) /\ Len(StringOf(m, f)) = Len(v) + 1
  BY <1>1, StringOfIs
<1>3. f \in Fields
  BY DEF OneString
<1>4. NextIs(m, n, f, v)
  BY <1>1, <1>3 DEF NextIs
<1>5. More(n, f) = Counts(n, f, 1)
  BY DEF More, Counts
<1>6. t \in Seq(Items) /\ t # <<>> /\ Head(t) = ReadString(f) /\ Tail(t) = r
  BY DEF Then
<1>7. InPlace(w, p, CString(v))
  BY <1>1 DEF StringOf
<1>8. Good(k, w, m, p + (Len(v) + 1), Tail(t), More(n, f))
  BY <1>2, <1>5, <1>6
<1> QED
  BY <1>2, <1>4, <1>6, <1>7, <1>8, StringRead

(* All fields are read when each has been read once.                       *)
LEMMA OnesComplete ==
    ASSUME NEW k \in {"B", "C", "O", "Y"}, NEW m, WellFormed(k, m), NEW n \in [Fields -> Nat],
           \A f \in FieldsOf[k] : n[f] = 1, \A f \in Fields \ FieldsOf[k] : n[f] = 0
    PROVE  Complete(m, n)
<1>1. k \in Kinds
  BY DEF Kinds, FieldsOf
<1>2. \A f \in FieldsOf[k] : Len(m[f]) = 1
  BY <1>1, ListsOfMessage DEF One
<1>3. \A f \in Fields \ FieldsOf[k] : m[f] = <<>>
  BY <1>1, ListsOfMessage
<1>4. \A f \in Fields \ FieldsOf[k] : Len(m[f]) = 0
  <2>1. Len(<<>>) = 0
    OBVIOUS
  <2> QED
    BY <1>3, <2>1
<1>5. \A f \in Fields : n[f] = Len(m[f])
  BY <1>2, <1>4
<1> QED
  BY <1>5 DEF Complete

-----------------------------------------------------------------------------
(* Messages of such fields only.                                           *)

(* Begin is read (protocol.py:222-223).                                    *)
LEMMA BeginGood ==
    ASSUME NEW m, WellFormed("B", m), NEW w, w = BeginBytes(m)
    PROVE  w \in Seq(Byte) /\ Good("B", w, m, 0, Decoders["B"], Zero)
<1>1. "B" \in Kinds /\ FieldsOf["B"] = {"lsn", "commit_ts", "xid"}
  BY DEF Kinds, FieldsOf
<1>2. OneInt(m, "lsn") /\ OneInt(m, "commit_ts") /\ OneInt(m, "xid")
  BY <1>1, ListsOfMessage DEF OneInt, Fields
<1>3. PICK a : a = IntOf(m, "lsn", 8)
  OBVIOUS
<1>4. PICK b : b = IntOf(m, "commit_ts", 8)
  OBVIOUS
<1>5. PICK c : c = IntOf(m, "xid", 4)
  OBVIOUS
<1>6. /\ a \in Seq(Byte) /\ Len(a) = 8
      /\ b \in Seq(Byte) /\ Len(b) = 8
      /\ c \in Seq(Byte) /\ Len(c) = 4
  <2>1. 4 \in Widths /\ 8 \in Widths
    BY DEF Widths
  <2> QED
    BY <1>2, <1>3, <1>4, <1>5, <2>1, IntOfIs
<1>7. Made3(w, a, b, c)
  BY <1>3, <1>4, <1>5, <1>6 DEF Made3, BeginBytes, IntOf
<1>8. w \in Seq(Byte)
  BY <1>7, MadeBytes
<1>9. PICK q1 : q1 = Len(a)
  OBVIOUS
<1>10. PICK q2 : q2 = Len(a) + Len(b)
  OBVIOUS
<1>11. PICK q3 : q3 = Len(a) + Len(b) + Len(c)
  OBVIOUS
<1>12. /\ InPlace(w, 0, a) /\ InPlace(w, q1, b) /\ InPlace(w, q2, c)
      /\ Len(w) = q3 /\ q1 = 0 + Len(a) /\ q2 = q1 + Len(b) /\ q3 = q2 + Len(c)
  BY <1>7, <1>9, <1>10, <1>11, WholeOfThree
<1>13. PICK t0 : t0 = Decoders["B"]
  OBVIOUS
<1>14. PICK t1 : t1 = <<ReadInt(8, "commit_ts"), ReadInt(4, "xid")>>
  OBVIOUS
<1>15. PICK t2 : t2 = <<ReadInt(4, "xid")>>
  OBVIOUS
<1>16. /\ Then(t0, ReadInt(8, "lsn"), t1)
      /\ Then(t1, ReadInt(8, "commit_ts"), t2)
      /\ Then(t2, ReadInt(4, "xid"), <<>>)
  <2>1. /\ ReadInt(8, "lsn") \in Items
        /\ ReadInt(8, "commit_ts") \in Items
        /\ ReadInt(4, "xid") \in Items
    BY PlainItems DEF Fields
  <2>2. t0 = <<ReadInt(8, "lsn"), ReadInt(8, "commit_ts"),
              ReadInt(4, "xid")>>
    BY <1>13 DEF Decoders
  <2> QED
    BY <1>14, <1>15, <2>1, <2>2 DEF Then
<1>17. PICK n1 : n1 = Counts(Zero, "lsn", 1)
  OBVIOUS
<1>18. PICK n2 : n2 = Counts(n1, "commit_ts", 1)
  OBVIOUS
<1>19. PICK n3 : n3 = Counts(n2, "xid", 1)
  OBVIOUS
<1>20. /\ Zero \in [Fields -> Nat] /\ n1 \in [Fields -> Nat] /\ n2 \in [Fields -> Nat]
       /\ n3 \in [Fields -> Nat]
       /\ Zero["lsn"] = 0 /\ n1["commit_ts"] = 0 /\ n2["xid"] = 0
       /\ \A f \in {"lsn", "commit_ts", "xid"} : n3[f] = 1
       /\ \A f \in Fields \ {"lsn", "commit_ts", "xid"} : n3[f] = 0
  BY <1>17, <1>18, <1>19 DEF Counts, Zero, Fields
<1>21. Complete(m, n3)
  BY <1>1, <1>20, OnesComplete
<1>22. Good("B", w, m, q3, <<>>, n3)
  BY <1>1, <1>12, <1>21, MessageGood
<1>23. Good("B", w, m, q2, t2, n2)
  <2>1. Good("B", w, m, q2 + 4, <<>>, n3)
    BY <1>6, <1>12, <1>22
  <2> QED
    BY <1>2, <1>5, <1>12, <1>16, <1>19, <1>20, <2>1, FirstInt DEF Widths
<1>24. Good("B", w, m, q1, t1, n1)
  <2>1. Good("B", w, m, q1 + 8, t2, n2)
    BY <1>6, <1>12, <1>23
  <2> QED
    BY <1>2, <1>4, <1>12, <1>16, <1>18, <1>20, <2>1, FirstInt DEF Widths
<1>25. Good("B", w, m, 0, t0, Zero)
  <2>1. Good("B", w, m, 0 + 8, t1, n1)
    BY <1>6, <1>12, <1>24
  <2> QED
    BY <1>2, <1>3, <1>12, <1>16, <1>17, <1>20, <2>1, FirstInt DEF Widths
<1> QED
  BY <1>13, <1>8, <1>25

(* Commit is read (protocol.py:226-232).                                   *)
LEMMA CommitGood ==
    ASSUME NEW m, WellFormed("C", m), NEW w, w = CommitBytes(m)
    PROVE  w \in Seq(Byte) /\ Good("C", w, m, 0, Decoders["C"], Zero)
<1>1. "C" \in Kinds /\ FieldsOf["C"] = {"flags", "lsn", "end_lsn", "commit_ts"}
  BY DEF Kinds, FieldsOf
<1>2. OneInt(m, "flags") /\ OneInt(m, "lsn") /\ OneInt(m, "end_lsn") /\ OneInt(m, "commit_ts")
  BY <1>1, ListsOfMessage DEF OneInt, Fields
<1>3. PICK a : a = IntOf(m, "flags", 1)
  OBVIOUS
<1>4. PICK b : b = IntOf(m, "lsn", 8)
  OBVIOUS
<1>5. PICK c : c = IntOf(m, "end_lsn", 8)
  OBVIOUS
<1>6. PICK d : d = IntOf(m, "commit_ts", 8)
  OBVIOUS
<1>7. /\ a \in Seq(Byte) /\ Len(a) = 1
      /\ b \in Seq(Byte) /\ Len(b) = 8
      /\ c \in Seq(Byte) /\ Len(c) = 8
      /\ d \in Seq(Byte) /\ Len(d) = 8
  <2>1. 1 \in Widths /\ 8 \in Widths
    BY DEF Widths
  <2> QED
    BY <1>2, <1>3, <1>4, <1>5, <1>6, <2>1, IntOfIs
<1>8. Made4(w, a, b, c, d)
  BY <1>3, <1>4, <1>5, <1>6, <1>7 DEF Made4, CommitBytes, IntOf
<1>9. w \in Seq(Byte)
  BY <1>8, MadeBytes
<1>10. PICK q1 : q1 = Len(a)
  OBVIOUS
<1>11. PICK q2 : q2 = Len(a) + Len(b)
  OBVIOUS
<1>12. PICK q3 : q3 = Len(a) + Len(b) + Len(c)
  OBVIOUS
<1>13. PICK q4 : q4 = Len(a) + Len(b) + Len(c) + Len(d)
  OBVIOUS
<1>14. /\ InPlace(w, 0, a) /\ InPlace(w, q1, b) /\ InPlace(w, q2, c) /\ InPlace(w, q3, d)
      /\ Len(w) = q4 /\ q1 = 0 + Len(a) /\ q2 = q1 + Len(b) /\ q3 = q2 + Len(c) /\ q4 = q3 + Len(d)
  BY <1>8, <1>10, <1>11, <1>12, <1>13, WholeOfFour
<1>15. PICK t0 : t0 = Decoders["C"]
  OBVIOUS
<1>16. PICK t1 : t1 = <<ReadInt(8, "lsn"), ReadInt(8, "end_lsn"), ReadInt(8, "commit_ts")>>
  OBVIOUS
<1>17. PICK t2 : t2 = <<ReadInt(8, "end_lsn"), ReadInt(8, "commit_ts")>>
  OBVIOUS
<1>18. PICK t3 : t3 = <<ReadInt(8, "commit_ts")>>
  OBVIOUS
<1>19. /\ Then(t0, ReadInt(1, "flags"), t1)
      /\ Then(t1, ReadInt(8, "lsn"), t2)
      /\ Then(t2, ReadInt(8, "end_lsn"), t3)
      /\ Then(t3, ReadInt(8, "commit_ts"), <<>>)
  <2>1. /\ ReadInt(1, "flags") \in Items
        /\ ReadInt(8, "lsn") \in Items
        /\ ReadInt(8, "end_lsn") \in Items
        /\ ReadInt(8, "commit_ts") \in Items
    BY PlainItems DEF Fields
  <2>2. t0 = <<ReadInt(1, "flags"), ReadInt(8, "lsn"),
              ReadInt(8, "end_lsn"), ReadInt(8, "commit_ts")>>
    BY <1>15 DEF Decoders
  <2> QED
    BY <1>16, <1>17, <1>18, <2>1, <2>2 DEF Then
<1>20. PICK n1 : n1 = Counts(Zero, "flags", 1)
  OBVIOUS
<1>21. PICK n2 : n2 = Counts(n1, "lsn", 1)
  OBVIOUS
<1>22. PICK n3 : n3 = Counts(n2, "end_lsn", 1)
  OBVIOUS
<1>23. PICK n4 : n4 = Counts(n3, "commit_ts", 1)
  OBVIOUS
<1>24. /\ Zero \in [Fields -> Nat] /\ n1 \in [Fields -> Nat] /\ n2 \in [Fields -> Nat]
       /\ n3 \in [Fields -> Nat] /\ n4 \in [Fields -> Nat]
       /\ Zero["flags"] = 0 /\ n1["lsn"] = 0 /\ n2["end_lsn"] = 0 /\ n3["commit_ts"] = 0
       /\ \A f \in {"flags", "lsn", "end_lsn", "commit_ts"} : n4[f] = 1
       /\ \A f \in Fields \ {"flags", "lsn", "end_lsn", "commit_ts"} : n4[f] = 0
  BY <1>20, <1>21, <1>22, <1>23 DEF Counts, Zero, Fields
<1>25. Complete(m, n4)
  BY <1>1, <1>24, OnesComplete
<1>26. Good("C", w, m, q4, <<>>, n4)
  BY <1>1, <1>14, <1>25, MessageGood
<1>27. Good("C", w, m, q3, t3, n3)
  <2>1. Good("C", w, m, q3 + 8, <<>>, n4)
    BY <1>7, <1>14, <1>26
  <2> QED
    BY <1>2, <1>6, <1>14, <1>19, <1>23, <1>24, <2>1, FirstInt DEF Widths
<1>28. Good("C", w, m, q2, t2, n2)
  <2>1. Good("C", w, m, q2 + 8, t3, n3)
    BY <1>7, <1>14, <1>27
  <2> QED
    BY <1>2, <1>5, <1>14, <1>19, <1>22, <1>24, <2>1, FirstInt DEF Widths
<1>29. Good("C", w, m, q1, t1, n1)
  <2>1. Good("C", w, m, q1 + 8, t2, n2)
    BY <1>7, <1>14, <1>28
  <2> QED
    BY <1>2, <1>4, <1>14, <1>19, <1>21, <1>24, <2>1, FirstInt DEF Widths
<1>30. Good("C", w, m, 0, t0, Zero)
  <2>1. Good("C", w, m, 0 + 1, t1, n1)
    BY <1>7, <1>14, <1>29
  <2> QED
    BY <1>2, <1>3, <1>14, <1>19, <1>20, <1>24, <2>1, FirstInt DEF Widths
<1> QED
  BY <1>15, <1>9, <1>30

(* Origin is read.                                                         *)
LEMMA OriginGood ==
    ASSUME NEW m, WellFormed("O", m), NEW w, w = OriginBytes(m)
    PROVE  w \in Seq(Byte) /\ Good("O", w, m, 0, Decoders["O"], Zero)
<1>1. "O" \in Kinds /\ FieldsOf["O"] = {"lsn", "name"}
  BY DEF Kinds, FieldsOf
<1>2. OneInt(m, "lsn") /\ OneString(m, "name")
  BY <1>1, ListsOfMessage DEF OneInt, OneString, Fields
<1>3. PICK a : a = IntOf(m, "lsn", 8)
  OBVIOUS
<1>4. PICK b : b = StringOf(m, "name")
  OBVIOUS
<1>5. /\ a \in Seq(Byte) /\ Len(a) = 8
      /\ b \in Seq(Byte) /\ Len(b) = Len(StringOf(m, "name"))
  <2>1. 8 \in Widths
    BY DEF Widths
  <2> QED
    BY <1>2, <1>3, <1>4, <2>1, IntOfIs, StringOfIs
<1>6. Made(w, a, b)
  BY <1>3, <1>4, <1>5 DEF Made, OriginBytes, IntOf, StringOf
<1>7. w \in Seq(Byte)
  BY <1>6, MadeBytes
<1>8. PICK q1 : q1 = Len(a)
  OBVIOUS
<1>9. PICK q2 : q2 = Len(a) + Len(b)
  OBVIOUS
<1>10. /\ InPlace(w, 0, a) /\ InPlace(w, q1, b)
      /\ Len(w) = q2 /\ q1 = 0 + Len(a) /\ q2 = q1 + Len(b)
  BY <1>6, <1>8, <1>9, WholeOfTwo
<1>11. PICK t0 : t0 = Decoders["O"]
  OBVIOUS
<1>12. PICK t1 : t1 = <<ReadString("name")>>
  OBVIOUS
<1>13. /\ Then(t0, ReadInt(8, "lsn"), t1)
      /\ Then(t1, ReadString("name"), <<>>)
  <2>1. /\ ReadInt(8, "lsn") \in Items
        /\ ReadString("name") \in Items
    BY PlainItems DEF Fields
  <2>2. t0 = <<ReadInt(8, "lsn"), ReadString("name")>>
    BY <1>11 DEF Decoders
  <2> QED
    BY <1>12, <2>1, <2>2 DEF Then
<1>14. PICK n1 : n1 = Counts(Zero, "lsn", 1)
  OBVIOUS
<1>15. PICK n2 : n2 = Counts(n1, "name", 1)
  OBVIOUS
<1>16. /\ Zero \in [Fields -> Nat] /\ n1 \in [Fields -> Nat] /\ n2 \in [Fields -> Nat]
       /\ Zero["lsn"] = 0 /\ n1["name"] = 0
       /\ \A f \in {"lsn", "name"} : n2[f] = 1
       /\ \A f \in Fields \ {"lsn", "name"} : n2[f] = 0
  BY <1>14, <1>15 DEF Counts, Zero, Fields
<1>17. Complete(m, n2)
  BY <1>1, <1>16, OnesComplete
<1>18. Good("O", w, m, q2, <<>>, n2)
  BY <1>1, <1>10, <1>17, MessageGood
<1>19. Good("O", w, m, q1, t1, n1)
  <2>1. Good("O", w, m, q1 + Len(StringOf(m, "name")), <<>>, n2)
    BY <1>5, <1>10, <1>18
  <2> QED
    BY <1>2, <1>4, <1>10, <1>13, <1>15, <1>16, <2>1, FirstString
<1>20. Good("O", w, m, 0, t0, Zero)
  <2>1. Good("O", w, m, 0 + 8, t1, n1)
    BY <1>5, <1>10, <1>19
  <2> QED
    BY <1>2, <1>3, <1>10, <1>13, <1>14, <1>16, <2>1, FirstInt DEF Widths
<1> QED
  BY <1>11, <1>7, <1>20

(* Type is read.                                                           *)
LEMMA TypeGood ==
    ASSUME NEW m, WellFormed("Y", m), NEW w, w = TypeBytes(m)
    PROVE  w \in Seq(Byte) /\ Good("Y", w, m, 0, Decoders["Y"], Zero)
<1>1. "Y" \in Kinds /\ FieldsOf["Y"] = {"type_oid", "namespace", "name"}
  BY DEF Kinds, FieldsOf
<1>2. OneInt(m, "type_oid") /\ OneString(m, "namespace") /\ OneString(m, "name")
  BY <1>1, ListsOfMessage DEF OneInt, OneString, Fields
<1>3. PICK a : a = IntOf(m, "type_oid", 4)
  OBVIOUS
<1>4. PICK b : b = StringOf(m, "namespace")
  OBVIOUS
<1>5. PICK c : c = StringOf(m, "name")
  OBVIOUS
<1>6. /\ a \in Seq(Byte) /\ Len(a) = 4
      /\ b \in Seq(Byte) /\ Len(b) = Len(StringOf(m, "namespace"))
      /\ c \in Seq(Byte) /\ Len(c) = Len(StringOf(m, "name"))
  <2>1. 4 \in Widths
    BY DEF Widths
  <2> QED
    BY <1>2, <1>3, <1>4, <1>5, <2>1, IntOfIs, StringOfIs
<1>7. Made3(w, a, b, c)
  BY <1>3, <1>4, <1>5, <1>6 DEF Made3, TypeBytes, IntOf, StringOf
<1>8. w \in Seq(Byte)
  BY <1>7, MadeBytes
<1>9. PICK q1 : q1 = Len(a)
  OBVIOUS
<1>10. PICK q2 : q2 = Len(a) + Len(b)
  OBVIOUS
<1>11. PICK q3 : q3 = Len(a) + Len(b) + Len(c)
  OBVIOUS
<1>12. /\ InPlace(w, 0, a) /\ InPlace(w, q1, b) /\ InPlace(w, q2, c)
      /\ Len(w) = q3 /\ q1 = 0 + Len(a) /\ q2 = q1 + Len(b) /\ q3 = q2 + Len(c)
  BY <1>7, <1>9, <1>10, <1>11, WholeOfThree
<1>13. PICK t0 : t0 = Decoders["Y"]
  OBVIOUS
<1>14. PICK t1 : t1 = <<ReadString("namespace"), ReadString("name")>>
  OBVIOUS
<1>15. PICK t2 : t2 = <<ReadString("name")>>
  OBVIOUS
<1>16. /\ Then(t0, ReadInt(4, "type_oid"), t1)
      /\ Then(t1, ReadString("namespace"), t2)
      /\ Then(t2, ReadString("name"), <<>>)
  <2>1. /\ ReadInt(4, "type_oid") \in Items
        /\ ReadString("namespace") \in Items
        /\ ReadString("name") \in Items
    BY PlainItems DEF Fields
  <2>2. t0 = <<ReadInt(4, "type_oid"), ReadString("namespace"),
              ReadString("name")>>
    BY <1>13 DEF Decoders
  <2> QED
    BY <1>14, <1>15, <2>1, <2>2 DEF Then
<1>17. PICK n1 : n1 = Counts(Zero, "type_oid", 1)
  OBVIOUS
<1>18. PICK n2 : n2 = Counts(n1, "namespace", 1)
  OBVIOUS
<1>19. PICK n3 : n3 = Counts(n2, "name", 1)
  OBVIOUS
<1>20. /\ Zero \in [Fields -> Nat] /\ n1 \in [Fields -> Nat] /\ n2 \in [Fields -> Nat]
       /\ n3 \in [Fields -> Nat]
       /\ Zero["type_oid"] = 0 /\ n1["namespace"] = 0 /\ n2["name"] = 0
       /\ \A f \in {"type_oid", "namespace", "name"} : n3[f] = 1
       /\ \A f \in Fields \ {"type_oid", "namespace", "name"} : n3[f] = 0
  BY <1>17, <1>18, <1>19 DEF Counts, Zero, Fields
<1>21. Complete(m, n3)
  BY <1>1, <1>20, OnesComplete
<1>22. Good("Y", w, m, q3, <<>>, n3)
  BY <1>1, <1>12, <1>21, MessageGood
<1>23. Good("Y", w, m, q2, t2, n2)
  <2>1. Good("Y", w, m, q2 + Len(StringOf(m, "name")), <<>>, n3)
    BY <1>6, <1>12, <1>22
  <2> QED
    BY <1>2, <1>5, <1>12, <1>16, <1>19, <1>20, <2>1, FirstString
<1>24. Good("Y", w, m, q1, t1, n1)
  <2>1. Good("Y", w, m, q1 + Len(StringOf(m, "namespace")), t2, n2)
    BY <1>6, <1>12, <1>23
  <2> QED
    BY <1>2, <1>4, <1>12, <1>16, <1>18, <1>20, <2>1, FirstString
<1>25. Good("Y", w, m, 0, t0, Zero)
  <2>1. Good("Y", w, m, 0 + 4, t1, n1)
    BY <1>6, <1>12, <1>24
  <2> QED
    BY <1>2, <1>3, <1>12, <1>16, <1>17, <1>20, <2>1, FirstInt DEF Widths
<1> QED
  BY <1>13, <1>8, <1>25

-----------------------------------------------------------------------------
(* The columns of a relation.                                              *)

(* What a relation has for each of its columns.                            *)
ColumnFields == {"flags", "columns", "type_oid", "type_mod"}

(* A relation's columns, each of four fields.                              *)
Described(m, c) ==
    /\ m["flags"] \in Seq(Int) /\ m["type_oid"] \in Seq(Int) /\ m["type_mod"] \in Seq(Int)
    /\ m["columns"] \in Seq(Seq(Characters))
    /\ \A f \in ColumnFields : Len(m[f]) = c

(* And how they are read.                                                  *)
ReadDescription ==
    <<ReadInt(1, "flags"), ReadString("columns"), ReadInt(4, "type_oid"), ReadInt(4, "type_mod")>>

(* As Then, but of any sequence.                                           *)
Rest(t, item, rest) == t # <<>> /\ Head(t) = item /\ Tail(t) = rest

(* The fields of a column.                                                 *)
LEMMA DescriptionIs ==
    ASSUME NEW m, NEW c \in Nat, Described(m, c), NEW i \in 1 .. c
    PROVE  /\ m["flags"][i] \in Int /\ m["type_oid"][i] \in Int /\ m["type_mod"][i] \in Int
           /\ m["columns"][i] \in Seq(Characters)
<1>1. i \in 1 .. Len(m["flags"]) /\ i \in 1 .. Len(m["type_oid"]) /\ i \in 1 .. Len(m["type_mod"])
      /\ i \in 1 .. Len(m["columns"])
  BY DEF Described, ColumnFields
<1> QED
  BY <1>1, ElementOfSeq DEF Described

(* The bytes of a column, and their four parts.                            *)
IsDescription(d, m, i) == d = RelationColumn(m, i)

DescriptionParts(d, m, i, a, b, e, g) ==
    /\ a = IntBytes(1, m["flags"][i]) /\ b = CString(m["columns"][i])
    /\ e = IntBytes(4, m["type_oid"][i]) /\ g = IntBytes(4, m["type_mod"][i])
    /\ Len(a) = 1 /\ Len(e) = 4 /\ Len(g) = 4 /\ Len(b) = Len(m["columns"][i]) + 1
    /\ Len(b) \in Nat /\ Made4(d, a, b, e, g)

(* A column has these parts.                                               *)
LEMMA DescriptionMade ==
    ASSUME NEW m, NEW c \in Nat, Described(m, c), NEW i \in 1 .. c, NEW d, IsDescription(d, m, i)
    PROVE  \E a, b, e, g : DescriptionParts(d, m, i, a, b, e, g)
<1>1. PICK v1 : v1 = m["flags"][i]
  OBVIOUS
<1>2. PICK v2 : v2 = m["columns"][i]
  OBVIOUS
<1>3. PICK v3 : v3 = m["type_oid"][i]
  OBVIOUS
<1>4. PICK v4 : v4 = m["type_mod"][i]
  OBVIOUS
<1>5. v1 \in Int /\ v2 \in Seq(Characters) /\ v3 \in Int /\ v4 \in Int
  BY <1>1, <1>2, <1>3, <1>4, DescriptionIs
<1>6. PICK a : a = IntBytes(1, v1)
  OBVIOUS
<1>7. PICK b : b = CString(v2)
  OBVIOUS
<1>8. PICK e : e = IntBytes(4, v3)
  OBVIOUS
<1>9. PICK g : g = IntBytes(4, v4)
  OBVIOUS
<1>10. /\ a \in Seq(Byte) /\ Len(a) = 1 /\ b \in Seq(Byte) /\ Len(b) = Len(v2) + 1
       /\ Len(v2) \in Nat /\ e \in Seq(Byte) /\ Len(e) = 4 /\ g \in Seq(Byte) /\ Len(g) = 4
  <2>1. 1 \in Nat /\ 4 \in Nat
    OBVIOUS
  <2> QED
    BY <1>5, <1>6, <1>7, <1>8, <1>9, <2>1, IntBytesAre, CStringIs
<1>11. d = a \o b \o e \o g
  BY <1>1, <1>2, <1>3, <1>4, <1>6, <1>7, <1>8, <1>9 DEF IsDescription, RelationColumn
<1>12. Made4(d, a, b, e, g)
  BY <1>10, <1>11 DEF Made4
<1>13. DescriptionParts(d, m, i, a, b, e, g)
  BY <1>1, <1>2, <1>3, <1>4, <1>6, <1>7, <1>8, <1>9, <1>10, <1>12 DEF DescriptionParts
<1> QED
  BY <1>13

(* The reads, one by one.                                                  *)
LEMMA FourReads ==
    /\ ReadDescription \in Seq(Plains)
    /\ \E t1, t2, t3 : /\ Rest(ReadDescription, ReadInt(1, "flags"), t1)
                       /\ Rest(t1, ReadString("columns"), t2)
                       /\ Rest(t2, ReadInt(4, "type_oid"), t3)
                       /\ Rest(t3, ReadInt(4, "type_mod"), <<>>)
<1>1. /\ ReadInt(1, "flags") \in Plains /\ ReadString("columns") \in Plains
      /\ ReadInt(4, "type_oid") \in Plains /\ ReadInt(4, "type_mod") \in Plains
  BY DEF Plains, Widths, Fields
<1>2. ReadDescription \in Seq(Plains)
  BY <1>1 DEF ReadDescription
<1>3. PICK t1 : t1 = <<ReadString("columns"), ReadInt(4, "type_oid"), ReadInt(4, "type_mod")>>
  OBVIOUS
<1>4. PICK t2 : t2 = <<ReadInt(4, "type_oid"), ReadInt(4, "type_mod")>>
  OBVIOUS
<1>5. PICK t3 : t3 = <<ReadInt(4, "type_mod")>>
  OBVIOUS
<1>6. /\ Rest(ReadDescription, ReadInt(1, "flags"), t1)
      /\ Rest(t1, ReadString("columns"), t2)
      /\ Rest(t2, ReadInt(4, "type_oid"), t3)
      /\ Rest(t3, ReadInt(4, "type_mod"), <<>>)
  BY <1>3, <1>4, <1>5 DEF Rest, ReadDescription
<1> QED
  BY <1>2, <1>6

(* One column of a relation is read.                                       *)
ColumnTaken(n) == More(More(More(More(n, "flags"), "columns"), "type_oid"), "type_mod")

(* A column in place is read.                                              *)
LEMMA DescriptionRead ==
    ASSUME NEW k, NEW w, NEW m, NEW p, NEW c \in Nat, Described(m, c), NEW j \in 0 .. c - 1,
           NEW n \in [Fields -> Nat], \A f \in ColumnFields : n[f] = j,
           NEW d, IsDescription(d, m, j + 1), InPlace(w, p, d),
           NEW l, NEW r, NEW t, Nested(t, ReadDescription, l, r),
           \A y : Nested(y, <<>>, l, r) => Good(k, w, m, p + Len(d), y, ColumnTaken(n))
    PROVE  Good(k, w, m, p, t, n)
<1>1. PICK i : i = j + 1
  OBVIOUS
<1>2. i \in 1 .. c /\ IsDescription(d, m, i)
  BY <1>1
<1>3. \E a, b, e, g : DescriptionParts(d, m, i, a, b, e, g)
  BY <1>2, DescriptionMade
<1>4. PICK a, b, e, g : DescriptionParts(d, m, i, a, b, e, g)
  BY <1>3
<1>5. /\ InPlace(w, p, a) /\ InPlace(w, p + Len(a), b) /\ InPlace(w, (p + Len(a)) + Len(b), e)
      /\ InPlace(w, ((p + Len(a)) + Len(b)) + Len(e), g)
      /\ Len(d) = Len(a) + Len(b) + Len(e) + Len(g)
  <2>1. Made4(d, a, b, e, g)
    BY <1>4 DEF DescriptionParts
  <2> QED
    BY <2>1, FourParts
<1>6. /\ Len(a) = 1 /\ Len(e) = 4 /\ Len(g) = 4 /\ Len(b) = Len(m["columns"][i]) + 1
      /\ Len(b) \in Nat /\ p \in Nat
  BY <1>4, <1>5 DEF DescriptionParts, InPlace
<1>7. PICK p1 : p1 = p + Len(a)
  OBVIOUS
<1>8. PICK p2 : p2 = p1 + Len(b)
  OBVIOUS
<1>9. PICK p3 : p3 = p2 + Len(e)
  OBVIOUS
<1>10. PICK p4 : p4 = p3 + Len(g)
  OBVIOUS
<1>11. /\ InPlace(w, p1, b) /\ InPlace(w, p2, e) /\ InPlace(w, p3, g)
  BY <1>5, <1>7, <1>8, <1>9
<1>12. p4 = p + Len(d)
  <2>1. Len(a) \in Nat /\ Len(b) \in Nat /\ Len(e) \in Nat /\ Len(g) \in Nat /\ p \in Nat
    BY <1>6
  <2> QED
    BY <1>5, <1>7, <1>8, <1>9, <1>10, <2>1
<1>13. PICK n1 : n1 = More(n, "flags")
  OBVIOUS
<1>14. PICK n2 : n2 = More(n1, "columns")
  OBVIOUS
<1>15. PICK n3 : n3 = More(n2, "type_oid")
  OBVIOUS
<1>16. PICK n4 : n4 = More(n3, "type_mod")
  OBVIOUS
<1>17. n4 = ColumnTaken(n)
  BY <1>13, <1>14, <1>15, <1>16 DEF ColumnTaken
<1>18. /\ n["flags"] = j /\ n1["columns"] = j /\ n2["type_oid"] = j /\ n3["type_mod"] = j
       /\ n1 \in [Fields -> Nat] /\ n2 \in [Fields -> Nat] /\ n3 \in [Fields -> Nat]
  BY SMTT(30), <1>13, <1>14, <1>15 DEF More, ColumnFields, Fields
<1>19. PICK v1 : v1 = m["flags"][i]
  OBVIOUS
<1>20. PICK v2 : v2 = m["columns"][i]
  OBVIOUS
<1>21. PICK v3 : v3 = m["type_oid"][i]
  OBVIOUS
<1>22. PICK v4 : v4 = m["type_mod"][i]
  OBVIOUS
<1>23. v1 \in Int /\ v2 \in Seq(Characters) /\ v3 \in Int /\ v4 \in Int
  BY <1>2, <1>19, <1>20, <1>21, <1>22, DescriptionIs
<1>24. /\ NextIs(m, n, "flags", v1) /\ NextIs(m, n1, "columns", v2)
       /\ NextIs(m, n2, "type_oid", v3) /\ NextIs(m, n3, "type_mod", v4)
  BY <1>1, <1>18, <1>19, <1>20, <1>21, <1>22 DEF NextIs, Fields
<1>25. a = IntBytes(1, v1) /\ b = CString(v2) /\ e = IntBytes(4, v3) /\ g = IntBytes(4, v4)
  BY <1>4, <1>19, <1>20, <1>21, <1>22 DEF DescriptionParts
<1>26. \E t1, t2, t3 : /\ Rest(ReadDescription, ReadInt(1, "flags"), t1)
                       /\ Rest(t1, ReadString("columns"), t2)
                       /\ Rest(t2, ReadInt(4, "type_oid"), t3)
                       /\ Rest(t3, ReadInt(4, "type_mod"), <<>>)
  BY FourReads
<1>27. PICK t1, t2, t3 : /\ Rest(ReadDescription, ReadInt(1, "flags"), t1)
                         /\ Rest(t1, ReadString("columns"), t2)
                         /\ Rest(t2, ReadInt(4, "type_oid"), t3)
                         /\ Rest(t3, ReadInt(4, "type_mod"), <<>>)
  BY <1>26
<1>28. PICK y1 : y1 = Tail(t)
  OBVIOUS
<1>29. PICK y2 : y2 = Tail(y1)
  OBVIOUS
<1>30. PICK y3 : y3 = Tail(y2)
  OBVIOUS
<1>31. PICK y4 : y4 = Tail(y3)
  OBVIOUS
<1>32. t \in Seq(Items) /\ t # <<>> /\ Head(t) = ReadInt(1, "flags") /\ Nested(y1, t1, l, r)
  BY <1>27, <1>28, NestedNext DEF Rest
<1>33. y1 \in Seq(Items) /\ y1 # <<>> /\ Head(y1) = ReadString("columns") /\ Nested(y2, t2, l, r)
  BY <1>27, <1>29, <1>32, NestedNext DEF Rest
<1>34. y2 \in Seq(Items) /\ y2 # <<>> /\ Head(y2) = ReadInt(4, "type_oid") /\ Nested(y3, t3, l, r)
  BY <1>27, <1>30, <1>33, NestedNext DEF Rest
<1>35. y3 \in Seq(Items) /\ y3 # <<>> /\ Head(y3) = ReadInt(4, "type_mod") /\ Nested(y4, <<>>, l, r)
  <2>1. t3 # <<>> /\ Head(t3) = ReadInt(4, "type_mod") /\ Tail(t3) = <<>>
    BY <1>27 DEF Rest
  <2>2. y3 \in Seq(Items) /\ y3 # <<>> /\ Head(y3) = Head(t3) /\ Nested(Tail(y3), Tail(t3), l, r)
    BY <1>34, <2>1, NestedNext
  <2> QED
    BY <1>31, <2>1, <2>2
<1>36. 1 \in Widths /\ 4 \in Widths
  BY DEF Widths
<1>37. Good(k, w, m, p4, y4, n4)
  BY <1>12, <1>17, <1>35
<1>38. Good(k, w, m, p3, y3, n3)
  <2>1. Good(k, w, m, p3 + 4, Tail(y3), More(n3, "type_mod"))
    BY <1>6, <1>10, <1>16, <1>31, <1>37
  <2>2. InPlace(w, p3, IntBytes(4, v4))
    BY <1>11, <1>25
  <2> QED
    BY <1>23, <1>24, <1>35, <1>36, <2>1, <2>2, IntRead
<1>39. Good(k, w, m, p2, y2, n2)
  <2>1. Good(k, w, m, p2 + 4, Tail(y2), More(n2, "type_oid"))
    BY <1>6, <1>9, <1>15, <1>30, <1>38
  <2>2. InPlace(w, p2, IntBytes(4, v3))
    BY <1>11, <1>25
  <2> QED
    BY <1>23, <1>24, <1>34, <1>36, <2>1, <2>2, IntRead
<1>40. Good(k, w, m, p1, y1, n1)
  <2>1. Good(k, w, m, p1 + (Len(v2) + 1), Tail(y1), More(n1, "columns"))
    BY <1>6, <1>8, <1>14, <1>20, <1>29, <1>39
  <2>2. InPlace(w, p1, CString(v2))
    BY <1>11, <1>25
  <2> QED
    BY <1>23, <1>24, <1>33, <2>1, <2>2, StringRead
<1>41. Good(k, w, m, p, t, n)
  <2>1. Good(k, w, m, p + 1, Tail(t), More(n, "flags"))
    BY <1>6, <1>7, <1>13, <1>28, <1>40
  <2>2. InPlace(w, p, IntBytes(1, v1))
    BY <1>5, <1>25
  <2> QED
    BY <1>23, <1>24, <1>32, <1>36, <2>1, <2>2, IntRead
<1> QED
  BY <1>41

(* All columns.                                                            *)
RelationList(m, c) == [i \in 1 .. c |-> RelationColumn(m, i)]

(* One after the other, and none of them empty.                            *)
LEMMA RelationListIs ==
    ASSUME NEW m, NEW c \in Nat, Described(m, c), NEW ss, ss = RelationList(m, c)
    PROVE  /\ ss \in Seq(Seq(Byte)) /\ Len(ss) = c
           /\ \A i \in 1 .. c : IsDescription(ss[i], m, i)
           /\ \A i \in 1 .. c : Len(ss[i]) # 0
<1>1. ASSUME NEW i \in 1 .. c
      PROVE  RelationColumn(m, i) \in Seq(Byte) /\ Len(RelationColumn(m, i)) # 0
  <2>1. PICK d : IsDescription(d, m, i)
    BY DEF IsDescription
  <2>2. \E a, b, e, g : DescriptionParts(d, m, i, a, b, e, g)
    BY <2>1, DescriptionMade
  <2>3. PICK a, b, e, g : DescriptionParts(d, m, i, a, b, e, g)
    BY <2>2
  <2>4. Made4(d, a, b, e, g) /\ Len(a) = 1 /\ Len(e) = 4 /\ Len(g) = 4 /\ Len(b) \in Nat
    BY <2>3 DEF DescriptionParts
  <2>5. Len(d) = Len(a) + Len(b) + Len(e) + Len(g)
    <3>1. Made4(d, a, b, e, g)
      BY <2>4
    <3> QED
      BY <3>1, WholeOfFour
  <2>6. d \in Seq(Byte)
    BY <2>4 DEF Made4
  <2>7. Len(d) # 0
    BY <2>4, <2>5
  <2> QED
    BY <2>1, <2>6, <2>7 DEF IsDescription
<1>2. ss = [i \in 1 .. c |-> RelationColumn(m, i)]
  BY DEF RelationList
<1>3. ss \in Seq(Seq(Byte)) /\ Len(ss) = c
  BY <1>1, <1>2, IsASeq, LenProperties
<1>4. \A i \in 1 .. c : ss[i] = RelationColumn(m, i)
  BY <1>2
<1> QED
  BY <1>1, <1>3, <1>4 DEF IsDescription

(* The fields read after j columns.                                        *)
ColumnsTaken(n, j) == [f \in Fields |-> IF f \in ColumnFields THEN j ELSE n[f]]

(* One more of them.                                                       *)
LEMMA ColumnsTakenMore ==
    ASSUME NEW n \in [Fields -> Nat], \A f \in ColumnFields : n[f] = 0, NEW j \in Nat
    PROVE  /\ ColumnsTaken(n, j) \in [Fields -> Nat]
           /\ \A f \in ColumnFields : ColumnsTaken(n, j)[f] = j
           /\ \A f \in Fields \ ColumnFields : ColumnsTaken(n, j)[f] = n[f]
           /\ ColumnTaken(ColumnsTaken(n, j)) = ColumnsTaken(n, j + 1)
           /\ ColumnsTaken(n, 0) = n
<1>1. PICK q : q = ColumnsTaken(n, j)
  OBVIOUS
<1>2. ColumnFields \subseteq Fields
  BY DEF ColumnFields, Fields
<1>3. /\ q \in [Fields -> Nat] /\ \A f \in ColumnFields : q[f] = j
      /\ \A f \in Fields \ ColumnFields : q[f] = n[f]
  BY <1>1, <1>2 DEF ColumnsTaken
<1>4. ColumnTaken(q) = ColumnsTaken(n, j + 1)
  <2>1. PICK x : x = ColumnTaken(q)
    OBVIOUS
  <2>2. PICK y : y = ColumnsTaken(n, j + 1)
    OBVIOUS
  <2>3. /\ x \in [Fields -> Nat] /\ \A f \in ColumnFields : x[f] = j + 1
        /\ \A f \in Fields \ ColumnFields : x[f] = n[f]
    <3>1. /\ "flags" \in ColumnFields /\ "columns" \in ColumnFields /\ "type_oid" \in ColumnFields
          /\ "type_mod" \in ColumnFields
      BY DEF ColumnFields
    <3>2. PICK q1 : q1 = More(q, "flags")
      OBVIOUS
    <3>3. PICK q2 : q2 = More(q1, "columns")
      OBVIOUS
    <3>4. PICK q3 : q3 = More(q2, "type_oid")
      OBVIOUS
    <3>5. x = More(q3, "type_mod")
      BY <2>1, <3>2, <3>3, <3>4 DEF ColumnTaken
    <3>6. q1 \in [Fields -> Nat] /\ q1["flags"] = j + 1
          /\ \A f \in Fields : f # "flags" => q1[f] = q[f]
      BY <1>2, <1>3, <3>1, <3>2 DEF More
    <3>7. q2 \in [Fields -> Nat] /\ q2["columns"] = j + 1
          /\ \A f \in Fields : f # "columns" => q2[f] = q1[f]
      BY <1>2, <1>3, <3>1, <3>3, <3>6 DEF More
    <3>8. q3 \in [Fields -> Nat] /\ q3["type_oid"] = j + 1
          /\ \A f \in Fields : f # "type_oid" => q3[f] = q2[f]
      BY <1>2, <1>3, <3>1, <3>4, <3>6, <3>7 DEF More
    <3>9. x \in [Fields -> Nat] /\ x["type_mod"] = j + 1
          /\ \A f \in Fields : f # "type_mod" => x[f] = q3[f]
      BY <1>2, <1>3, <3>1, <3>5, <3>6, <3>7, <3>8 DEF More
    <3> QED
      BY <1>2, <1>3, <3>6, <3>7, <3>8, <3>9 DEF ColumnFields
  <2>4. /\ y \in [Fields -> Nat] /\ \A f \in ColumnFields : y[f] = j + 1
        /\ \A f \in Fields \ ColumnFields : y[f] = n[f]
    BY <1>2, <2>2 DEF ColumnsTaken
  <2> QED
    BY <2>1, <2>2, <2>3, <2>4
<1>5. ColumnsTaken(n, 0) = n
  BY DEF ColumnsTaken
<1> QED
  BY <1>1, <1>3, <1>4, <1>5

(* All columns are read, however many there are.                           *)
LEMMA DescriptionsRead ==
    ASSUME NEW k, NEW w, NEW m, NEW p, NEW c \in Nat, Described(m, c),
           NEW n \in [Fields -> Nat], \A f \in ColumnFields : n[f] = 0,
           NEW ss, ss = RelationList(m, c), InPlace(w, p, FlattenSeq(ss)),
           NEW r \in Seq(Items),
           Good(k, w, m, p + Len(FlattenSeq(ss)), r, ColumnsTaken(n, c)),
           NEW t, Looping(t, c, ReadDescription, r)
    PROVE  Good(k, w, m, p, t, n)
<1>1. /\ ss \in Seq(Seq(Byte)) /\ Len(ss) = c
      /\ \A i \in 1 .. c : IsDescription(ss[i], m, i)
      /\ \A i \in 1 .. c : Len(ss[i]) # 0
  BY RelationListIs
<1>2. PICK each : each = ReadDescription
  OBVIOUS
<1>3. each \in Seq(Plains)
  BY <1>2, FourReads
<1>4. /\ \A i \in 1 .. c : InPlace(w, p + Offset(ss, i), ss[i])
      /\ \A i \in 1 .. c : Offset(ss, i + 1) = Offset(ss, i) + Len(ss[i])
      /\ \A i \in 1 .. c + 1 : Offset(ss, i) \in Nat
      /\ Offset(ss, 1) = 0 /\ Offset(ss, c + 1) = Len(FlattenSeq(ss))
  BY <1>1, BlocksInPlace
<1>5. p \in Nat
  BY DEF InPlace
<1>6. PICK P : P = [j \in 0 .. c |-> p + Offset(ss, j + 1)]
  OBVIOUS
<1>7. PICK N : N = [j \in 0 .. c |-> ColumnsTaken(n, j)]
  OBVIOUS
<1>8. ASSUME NEW j \in 0 .. c - 1
      PROVE  Turn(k, w, m, P, N, each, r, j)
  <2> SUFFICES ASSUME NEW l \in Items, NEW z, Nested(z, each, l, r),
                      \A y : Nested(y, <<>>, l, r) => Good(k, w, m, P[j + 1], y, N[j + 1])
               PROVE  Good(k, w, m, P[j], z, N[j])
    BY DEF Turn
  <2>1. j + 1 \in 1 .. c /\ j \in 0 .. c /\ j + 1 \in 0 .. c /\ j \in Nat /\ j + 1 \in 1 .. c + 1
    OBVIOUS
  <2>2. PICK d : d = ss[j + 1]
    OBVIOUS
  <2>3. IsDescription(d, m, j + 1)
    BY <1>1, <2>1, <2>2
  <2>4. PICK o : o = P[j]
    OBVIOUS
  <2>5. PICK q : q = N[j]
    OBVIOUS
  <2>6. o = p + Offset(ss, j + 1) /\ InPlace(w, o, d)
    BY <1>4, <1>6, <2>1, <2>2, <2>4
  <2>7. q = ColumnsTaken(n, j)
    BY <1>7, <2>1, <2>5
  <2>8. q \in [Fields -> Nat] /\ ColumnTaken(q) = N[j + 1] /\ \A f \in ColumnFields : q[f] = j
    <3>1. /\ ColumnsTaken(n, j) \in [Fields -> Nat]
          /\ \A f \in ColumnFields : ColumnsTaken(n, j)[f] = j
          /\ ColumnTaken(ColumnsTaken(n, j)) = ColumnsTaken(n, j + 1)
      BY <2>1, ColumnsTakenMore
    <3>2. N[j + 1] = ColumnsTaken(n, j + 1)
      BY <1>7, <2>1
    <3> QED
      BY <2>7, <3>1, <3>2
  <2>9. P[j + 1] = o + Len(d)
    <3>1. P[j + 1] = p + Offset(ss, (j + 1) + 1)
      BY <1>6, <2>1
    <3>2. Offset(ss, (j + 1) + 1) = Offset(ss, j + 1) + Len(ss[j + 1])
      BY <1>4, <2>1
    <3>3. Offset(ss, j + 1) \in Nat /\ Len(d) \in Nat
      BY <1>4, <2>1, <2>6 DEF InPlace
    <3> QED
      BY <1>5, <2>2, <2>6, <3>1, <3>2, <3>3
  <2>10. \A y : Nested(y, <<>>, l, r) => Good(k, w, m, o + Len(d), y, ColumnTaken(q))
    BY <2>8, <2>9
  <2>11. Nested(z, ReadDescription, l, r)
    BY <1>2
  <2>12. Good(k, w, m, o, z, q)
    BY <2>3, <2>6, <2>8, <2>10, <2>11, DescriptionRead
  <2> QED
    BY <2>4, <2>5, <2>12
<1>9. P[0] = p /\ N[0] = n
  <2>1. 0 \in 0 .. c /\ 0 + 1 = 1 /\ 0 \in Nat
    OBVIOUS
  <2>2. P[0] = p + Offset(ss, 1) /\ N[0] = ColumnsTaken(n, 0)
    BY <1>6, <1>7, <2>1
  <2>3. ColumnsTaken(n, 0) = n
    BY <2>1, ColumnsTakenMore
  <2> QED
    BY <1>4, <1>5, <2>2, <2>3
<1>10. Good(k, w, m, P[c], r, N[c])
  <2>1. c \in 0 .. c
    OBVIOUS
  <2>2. P[c] = p + Len(FlattenSeq(ss)) /\ N[c] = ColumnsTaken(n, c)
    BY <1>4, <1>6, <1>7, <2>1
  <2> QED
    BY <2>2
<1>11. Looping(t, c, each, r)
  BY <1>2
<1>12. Good(k, w, m, P[0], t, N[0])
  BY <1>3, <1>8, <1>10, <1>11, LoopGood
<1> QED
  BY <1>9, <1>12

(* The same from their number on.                                          *)
LEMMA DescriptionsCounted ==
    ASSUME NEW k, NEW w, NEW m, NEW p, NEW c \in Nat, Described(m, c),
           NEW n \in [Fields -> Nat], \A f \in ColumnFields : n[f] = 0,
           NEW ss, ss = RelationList(m, c),
           InPlace(w, p, IntBytes(2, c)), InPlace(w, p + 2, FlattenSeq(ss)),
           NEW t, Then(t, ReadCount(2, <<>>, ReadDescription), <<>>),
           Good(k, w, m, (p + 2) + Len(FlattenSeq(ss)), <<>>, ColumnsTaken(n, c))
    PROVE  Good(k, w, m, p, t, n)
<1>1. PICK r : r = <<>>
  OBVIOUS
<1>2. r \in Seq(Items)
  BY <1>1
<1>3. PICK each : each = ReadDescription
  OBVIOUS
<1>4. each \in Seq(Plains)
  BY <1>3, FourReads
<1>5. PICK l : l = Loop(c, each)
  OBVIOUS
<1>6. l \in Items
  BY <1>4, <1>5, LoopItem
<1>7. PICK e : e = <<>>
  OBVIOUS
<1>8. PICK z : z = e \o <<l>> \o r
  OBVIOUS
<1>9. Nested(z, e, l, r)
  <2>1. e \in Seq(Items)
    BY <1>7
  <2> QED
    BY <1>2, <1>6, <1>8, <2>1 DEF Nested
<1>10. Looping(z, c, each, r)
  BY <1>5, <1>7, <1>9, NestedLast DEF Looping
<1>11. PICK q : q = p + 2
  OBVIOUS
<1>12. Good(k, w, m, q, z, n)
  <2>1. InPlace(w, q, FlattenSeq(ss))
    BY <1>11
  <2>2. Good(k, w, m, q + Len(FlattenSeq(ss)), r, ColumnsTaken(n, c))
    BY <1>1, <1>11
  <2>3. Looping(z, c, ReadDescription, r)
    BY <1>3, <1>10
  <2> QED
    BY <1>2, <2>1, <2>2, <2>3, DescriptionsRead
<1>13. /\ t \in Seq(Items) /\ t # <<>> /\ Head(t) = ReadCount(2, e, each) /\ Tail(t) = r
       /\ 2 \in Widths /\ c \in Int
  BY <1>1, <1>3, <1>7 DEF Then, Widths
<1>14. Good(k, w, m, p + 2, e \o <<Loop(c, each)>> \o Tail(t), n)
  BY <1>5, <1>8, <1>11, <1>12, <1>13
<1> QED
  BY <1>13, <1>14, CountRead

(* The fields of a relation.                                               *)
LEMMA RelationFields ==
    ASSUME NEW m, WellFormed("R", m), NEW c, c = Len(m["columns"])
    PROVE  /\ OneInt(m, "rel_id") /\ OneString(m, "namespace") /\ OneString(m, "name")
           /\ Len(m["replica_identity"]) = 1
           /\ m["replica_identity"][1] \in {"d", "n", "f", "i"}
           /\ c \in Nat /\ Described(m, c)
           /\ \A f \in Fields \ FieldsOf["R"] : Len(m[f]) = 0
<1>1. "R" \in Kinds /\ FieldsOf["R"] = {"rel_id", "namespace", "name", "replica_identity", "flags",
                                        "columns", "type_oid", "type_mod"}
  BY DEF Kinds, FieldsOf
<1>2. /\ \A f \in {"rel_id", "namespace", "name", "replica_identity"} : One(m[f])
      /\ \A f \in {"flags", "type_oid", "type_mod"} : Len(m[f]) = Len(m["columns"])
  BY DEF WellFormed
<1>3. OneInt(m, "rel_id") /\ OneString(m, "namespace") /\ OneString(m, "name")
  BY <1>1, <1>2, ListsOfMessage DEF OneInt, OneString, Fields
<1>4. Len(m["replica_identity"]) = 1 /\ m["replica_identity"][1] \in {"d", "n", "f", "i"}
  <2>1. One(m["replica_identity"]) /\ m["replica_identity"] \in Seq({"d", "n", "f", "i"})
    BY <1>1, <1>2, ListsOfMessage
  <2> QED
    BY <2>1, OneEntry DEF One
<1>5. c \in Nat
  <2>1. m["columns"] \in Seq(Seq(Characters))
    BY <1>1, ListsOfMessage
  <2> QED
    BY <2>1, LenProperties
<1>6. Described(m, c)
  <2>1. /\ m["flags"] \in Seq(Int) /\ m["type_oid"] \in Seq(Int) /\ m["type_mod"] \in Seq(Int)
        /\ m["columns"] \in Seq(Seq(Characters))
    BY <1>1, ListsOfMessage
  <2>2. \A f \in ColumnFields : Len(m[f]) = c
    BY <1>2 DEF ColumnFields
  <2> QED
    BY <2>1, <2>2 DEF Described
<1>7. \A f \in Fields \ FieldsOf["R"] : Len(m[f]) = 0
  <2>1. \A f \in Fields \ FieldsOf["R"] : m[f] = <<>>
    BY <1>1, ListsOfMessage
  <2>2. Len(<<>>) = 0
    OBVIOUS
  <2> QED
    BY <2>1, <2>2
<1> QED
  BY <1>3, <1>4, <1>5, <1>6, <1>7

(* A tag that announces nothing is read.                                   *)
LEMMA FirstTag ==
    ASSUME NEW k, NEW w, NEW m, NEW p, NEW t, NEW r, NEW n \in [Fields -> Nat],
           NEW T, "b" \notin T, NEW f \in Fields, n[f] = 0, NEW c, c = m[f][1], c \in T,
           Then(t, ReadTag(T, f), r), TagAt(w, p, c), Announced(k, c) = <<>>,
           Good(k, w, m, p + 1, r, Counts(n, f, 1))
    PROVE  Good(k, w, m, p, t, n)
<1>1. NextIs(m, n, f, c)
  BY DEF NextIs
<1>2. More(n, f) = Counts(n, f, 1)
  BY DEF More, Counts
<1>3. t \in Seq(Items) /\ t # <<>> /\ Head(t) = ReadTag(T, f) /\ Tail(t) = r
  BY DEF Then
<1>4. Announced(k, c) \o Tail(t) = r
  <2>1. <<>> \o Tail(t) = Tail(t)
    BY <1>3, TailOf
  <2> QED
    BY <1>3, <2>1
<1>5. Good(k, w, m, p + 1, Announced(k, c) \o Tail(t), More(n, f))
  BY <1>2, <1>4
<1> QED
  BY <1>1, <1>3, <1>5, TagRead

(* The reads of a relation, one by one.                                    *)
LEMMA RelationReads ==
    \E t1, t2, t3, t4 :
        /\ Then(Decoders["R"], ReadInt(4, "rel_id"), t1)
        /\ Then(t1, ReadString("namespace"), t2)
        /\ Then(t2, ReadString("name"), t3)
        /\ Then(t3, ReadTag({"d", "n", "f", "i"}, "replica_identity"), t4)
        /\ Then(t4, ReadCount(2, <<>>, ReadDescription), <<>>)
<1>1. PICK h0 : h0 = ReadInt(4, "rel_id")
  OBVIOUS
<1>2. PICK h1 : h1 = ReadString("namespace")
  OBVIOUS
<1>3. PICK h2 : h2 = ReadString("name")
  OBVIOUS
<1>4. PICK h3 : h3 = ReadTag({"d", "n", "f", "i"}, "replica_identity")
  OBVIOUS
<1>5. PICK h4 : h4 = ReadCount(2, <<>>, ReadDescription)
  OBVIOUS
<1>6. h0 \in Items /\ h1 \in Items /\ h2 \in Items
  BY <1>1, <1>2, <1>3, PlainItems DEF Fields
<1>7. h3 \in Items
  BY <1>4 DEF Items, Plains, Fields
<1>8. h4 \in Items
  <2>1. PICK e : e = <<>>
    OBVIOUS
  <2>2. e \in Seq(Plains) /\ ReadDescription \in Seq(Plains) /\ 2 \in Widths
    BY <2>1, FourReads DEF Widths
  <2>3. ReadCount(2, e, ReadDescription) \in Items
    BY <2>2 DEF Items
  <2> QED
    BY <1>5, <2>1, <2>3
<1>9. Decoders["R"] = <<h0, h1, h2, h3, h4>>
  BY <1>1, <1>2, <1>3, <1>4, <1>5 DEF Decoders, ReadDescription
<1>10. /\ Then(<<h0, h1, h2, h3, h4>>, h0, <<h1, h2, h3, h4>>)
       /\ Then(<<h1, h2, h3, h4>>, h1, <<h2, h3, h4>>)
       /\ Then(<<h2, h3, h4>>, h2, <<h3, h4>>)
       /\ Then(<<h3, h4>>, h3, <<h4>>)
       /\ Then(<<h4>>, h4, <<>>)
  BY <1>6, <1>7, <1>8 DEF Then
<1> QED
  BY <1>1, <1>2, <1>3, <1>4, <1>5, <1>9, <1>10

(* A relation is read, whatever its columns.                               *)
LEMMA RelationGood ==
    ASSUME NEW m, WellFormed("R", m), NEW w, w = RelationBytes(m)
    PROVE  w \in Seq(Byte) /\ Good("R", w, m, 0, Decoders["R"], Zero)
<1>1. PICK c : c = Len(m["columns"])
  OBVIOUS
<1>2. /\ OneInt(m, "rel_id") /\ OneString(m, "namespace") /\ OneString(m, "name")
      /\ Len(m["replica_identity"]) = 1
      /\ m["replica_identity"][1] \in {"d", "n", "f", "i"}
      /\ c \in Nat /\ Described(m, c)
      /\ \A f \in Fields \ FieldsOf["R"] : Len(m[f]) = 0
  BY <1>1, RelationFields
<1>3. PICK v : v = m["replica_identity"][1]
  OBVIOUS
<1>4. PICK ss : ss = RelationList(m, c)
  OBVIOUS
<1>5. PICK a : a = IntOf(m, "rel_id", 4)
  OBVIOUS
<1>6. PICK b : b = StringOf(m, "namespace")
  OBVIOUS
<1>7. PICK e : e = StringOf(m, "name")
  OBVIOUS
<1>8. PICK g : g = <<Tag(v)>>
  OBVIOUS
<1>9. PICK x : x = a \o b \o e \o g
  OBVIOUS
<1>10. PICK y : y = IntBytes(2, c)
  OBVIOUS
<1>11. PICK z : z = FlattenSeq(ss)
  OBVIOUS
<1>12. /\ a \in Seq(Byte) /\ Len(a) = 4
       /\ b \in Seq(Byte) /\ Len(b) = Len(StringOf(m, "namespace"))
       /\ e \in Seq(Byte) /\ Len(e) = Len(StringOf(m, "name"))
       /\ g \in Seq(Byte) /\ Len(g) = 1
       /\ y \in Seq(Byte) /\ Len(y) = 2
  <2>1. 4 \in Widths /\ c \in Int /\ 2 \in Nat
    BY <1>2 DEF Widths
  <2>2. a \in Seq(Byte) /\ Len(a) = 4
    BY <1>2, <1>5, <2>1, IntOfIs
  <2>3. /\ b \in Seq(Byte) /\ Len(b) = Len(StringOf(m, "namespace"))
        /\ e \in Seq(Byte) /\ Len(e) = Len(StringOf(m, "name"))
    BY <1>2, <1>6, <1>7, StringOfIs
  <2>4. v \in {"n", "u", "t", "d", "f", "i", "K", "O", "N"}
    BY <1>2, <1>3
  <2>5. g \in Seq(Byte) /\ Len(g) = 1
    BY <1>8, <2>4, TagByte
  <2>6. y \in Seq(Byte) /\ Len(y) = 2
    BY <1>10, <2>1, IntBytesAre
  <2> QED
    BY <2>2, <2>3, <2>5, <2>6
<1>13. z \in Seq(Byte)
  <2>1. ss \in Seq(Seq(Byte)) /\ Len(ss) = c
    BY <1>2, <1>4, RelationListIs
  <2>2. FlatUpTo(ss, c) = z
    BY <1>2, <1>11, <2>1, FlatSteps
  <2>3. c \in 0 .. c
    BY <1>2
  <2> QED
    BY <1>2, <2>1, <2>2, <2>3, FlatType
<1>14. Made4(x, a, b, e, g)
  BY <1>9, <1>12 DEF Made4
<1>15. x \in Seq(Byte)
  BY <1>14 DEF Made4
<1>16. w = x \o y \o z
  <2>1. m["columns"] \in Seq(Seq(Characters))
    BY <1>2 DEF Described
  <2>2. DOMAIN m["columns"] = 1 .. c
    BY <1>1, <2>1, LenProperties
  <2>3. ss = [i \in DOMAIN m["columns"] |-> RelationColumn(m, i)]
    BY <1>4, <2>2 DEF RelationList
  <2> QED
    BY <1>1, <1>3, <1>5, <1>6, <1>7, <1>8, <1>9, <1>10, <1>11, <2>3
       DEF RelationBytes, IntOf, StringOf
<1>17. Made3(w, x, y, z)
  BY <1>12, <1>13, <1>15, <1>16 DEF Made3
<1>18. /\ Len(x) \in Nat /\ Len(y) \in Nat /\ Len(z) \in Nat
       /\ Len(w) = Len(x) + Len(y) + Len(z)
       /\ InPlace(w, 0, x) /\ InPlace(w, Len(x), y) /\ InPlace(w, Len(x) + Len(y), z)
  BY <1>17, WholeOfThree
<1>19. PICK q0 : q0 = 0
  OBVIOUS
<1>20. PICK q1 : q1 = q0 + Len(a)
  OBVIOUS
<1>21. PICK q2 : q2 = q1 + Len(b)
  OBVIOUS
<1>22. PICK q3 : q3 = q2 + Len(e)
  OBVIOUS
<1>23. PICK q4 : q4 = q3 + 1
  OBVIOUS
<1>24. /\ Len(b) \in Nat /\ Len(e) \in Nat
       /\ Len(x) = Len(a) + Len(b) + Len(e) + Len(g)
       /\ InPlace(w, q0, a) /\ InPlace(w, q1, b) /\ InPlace(w, q2, e) /\ InPlace(w, q3, g)
  <2>1. InPlace(w, q0, x)
    BY <1>18, <1>19
  <2>2. /\ Len(b) \in Nat /\ Len(e) \in Nat
        /\ Len(x) = Len(a) + Len(b) + Len(e) + Len(g)
        /\ InPlace(w, q0, a) /\ InPlace(w, q0 + Len(a), b) /\ InPlace(w, (q0 + Len(a)) + Len(b), e)
        /\ InPlace(w, ((q0 + Len(a)) + Len(b)) + Len(e), g)
    BY <1>14, <2>1, FourParts
  <2> QED
    BY <1>20, <1>21, <1>22, <2>2
<1>25. q4 = Len(x) /\ q0 \in Nat /\ q1 \in Nat /\ q2 \in Nat /\ q3 \in Nat /\ q4 \in Nat
  BY <1>12, <1>19, <1>20, <1>21, <1>22, <1>23, <1>24
<1>26. InPlace(w, q4, y) /\ InPlace(w, q4 + 2, z) /\ Len(w) = (q4 + 2) + Len(z)
  <2>1. Len(y) = 2
    BY <1>12
  <2> QED
    BY <1>18, <1>25, <2>1
<1>27. \E t1, t2, t3, t4 :
          /\ Then(Decoders["R"], ReadInt(4, "rel_id"), t1)
          /\ Then(t1, ReadString("namespace"), t2)
          /\ Then(t2, ReadString("name"), t3)
          /\ Then(t3, ReadTag({"d", "n", "f", "i"}, "replica_identity"), t4)
          /\ Then(t4, ReadCount(2, <<>>, ReadDescription), <<>>)
  BY RelationReads
<1>28. PICK t1, t2, t3, t4 :
          /\ Then(Decoders["R"], ReadInt(4, "rel_id"), t1)
          /\ Then(t1, ReadString("namespace"), t2)
          /\ Then(t2, ReadString("name"), t3)
          /\ Then(t3, ReadTag({"d", "n", "f", "i"}, "replica_identity"), t4)
          /\ Then(t4, ReadCount(2, <<>>, ReadDescription), <<>>)
  BY <1>27
<1>29. PICK n1 : n1 = Counts(Zero, "rel_id", 1)
  OBVIOUS
<1>30. PICK n2 : n2 = Counts(n1, "namespace", 1)
  OBVIOUS
<1>31. PICK n3 : n3 = Counts(n2, "name", 1)
  OBVIOUS
<1>32. PICK n4 : n4 = Counts(n3, "replica_identity", 1)
  OBVIOUS
<1>33. /\ Zero \in [Fields -> Nat] /\ n1 \in [Fields -> Nat] /\ n2 \in [Fields -> Nat]
       /\ n3 \in [Fields -> Nat] /\ n4 \in [Fields -> Nat]
       /\ Zero["rel_id"] = 0 /\ n1["namespace"] = 0 /\ n2["name"] = 0
       /\ n3["replica_identity"] = 0 /\ \A f \in ColumnFields : n4[f] = 0
       /\ \A f \in {"rel_id", "namespace", "name", "replica_identity"} : n4[f] = 1
       /\ \A f \in Fields \ {"rel_id", "namespace", "name", "replica_identity"} : n4[f] = 0
  BY <1>29, <1>30, <1>31, <1>32 DEF Counts, Zero, Fields, ColumnFields
<1>34. PICK n5 : n5 = ColumnsTaken(n4, c)
  OBVIOUS
<1>35. Complete(m, n5)
  <2>1. /\ n5 \in [Fields -> Nat] /\ \A f \in ColumnFields : n5[f] = c
        /\ \A f \in Fields \ ColumnFields : n5[f] = n4[f]
    <3>1. n4 \in [Fields -> Nat] /\ c \in Nat /\ \A f \in ColumnFields : n4[f] = 0
      BY <1>2, <1>33
    <3>2. /\ ColumnsTaken(n4, c) \in [Fields -> Nat]
          /\ \A f \in ColumnFields : ColumnsTaken(n4, c)[f] = c
          /\ \A f \in Fields \ ColumnFields : ColumnsTaken(n4, c)[f] = n4[f]
      BY <3>1, ColumnsTakenMore
    <3> QED
      BY <1>34, <3>2
  <2>2. \A f \in ColumnFields : Len(m[f]) = c
    BY <1>2 DEF Described
  <2>3. \A f \in {"rel_id", "namespace", "name", "replica_identity"} : Len(m[f]) = 1
    BY <1>2 DEF OneInt, OneString, One
  <2>4. ASSUME NEW f \in Fields
        PROVE  n5[f] = Len(m[f])
    <3>1. CASE f \in ColumnFields
      BY <2>1, <2>2, <3>1
    <3>2. CASE f \in {"rel_id", "namespace", "name", "replica_identity"}
      BY <1>33, <2>1, <2>3, <3>2 DEF ColumnFields
    <3>3. CASE f \in Fields \ FieldsOf["R"]
      <4>1. f \notin ColumnFields /\ f \notin {"rel_id", "namespace", "name", "replica_identity"}
        BY <3>3 DEF FieldsOf, ColumnFields
      <4> QED
        BY <1>2, <1>33, <2>1, <3>3, <4>1
    <3>4. FieldsOf["R"] = ColumnFields \cup {"rel_id", "namespace", "name", "replica_identity"}
      BY DEF FieldsOf, ColumnFields
    <3> QED
      BY <3>1, <3>2, <3>3, <3>4
  <2> QED
    BY <2>1, <2>4 DEF Complete
<1>36. "R" \in Kinds
  BY DEF Kinds, FieldsOf
<1>37. Good("R", w, m, (q4 + 2) + Len(z), <<>>, n5)
  BY <1>26, <1>35, <1>36, MessageGood
<1>38. Good("R", w, m, q4, t4, n4)
  <2>1. Good("R", w, m, (q4 + 2) + Len(FlattenSeq(ss)), <<>>, ColumnsTaken(n4, c))
    BY <1>11, <1>34, <1>37
  <2>2. InPlace(w, q4, IntBytes(2, c)) /\ InPlace(w, q4 + 2, FlattenSeq(ss))
    BY <1>10, <1>11, <1>26
  <2> QED
    BY <1>2, <1>4, <1>28, <1>33, <2>1, <2>2, DescriptionsCounted
<1>39. Good("R", w, m, q3, t3, n3)
  <2>1. v \in {"n", "u", "t", "d", "f", "i", "K", "O", "N"} /\ v \in {"d", "n", "f", "i"}
    BY <1>2, <1>3
  <2>2. TagAt(w, q3, v)
    BY <1>8, <1>24, <2>1, TagInPlace
  <2>3. Announced("R", v) = <<>>
    BY <2>1 DEF Announced
  <2>4. Good("R", w, m, q3 + 1, t4, Counts(n3, "replica_identity", 1))
    BY <1>23, <1>32, <1>38
  <2>5. "replica_identity" \in Fields /\ "b" \notin {"d", "n", "f", "i"}
    BY DEF Fields
  <2> QED
    BY <1>3, <1>28, <1>33, <2>1, <2>2, <2>3, <2>4, <2>5, FirstTag
<1>40. Good("R", w, m, q2, t2, n2)
  <2>1. Good("R", w, m, q2 + Len(StringOf(m, "name")), t3, n3)
    BY <1>12, <1>22, <1>39
  <2> QED
    BY <1>2, <1>7, <1>24, <1>28, <1>31, <1>33, <2>1, FirstString
<1>41. Good("R", w, m, q1, t1, n1)
  <2>1. Good("R", w, m, q1 + Len(StringOf(m, "namespace")), t2, n2)
    BY <1>12, <1>21, <1>40
  <2> QED
    BY <1>2, <1>6, <1>24, <1>28, <1>30, <1>33, <2>1, FirstString
<1>42. Good("R", w, m, q0, Decoders["R"], Zero)
  <2>1. Good("R", w, m, q0 + 4, t1, n1) /\ 4 \in Widths
    BY <1>12, <1>20, <1>41 DEF Widths
  <2>2. PICK t0 : t0 = Decoders["R"]
    OBVIOUS
  <2>3. Then(t0, ReadInt(4, "rel_id"), t1)
    BY <1>28, <2>2
  <2>4. Good("R", w, m, q0, t0, Zero)
    BY <1>2, <1>5, <1>24, <1>29, <1>33, <2>1, <2>3, FirstInt
  <2> QED
    BY <2>2, <2>4
<1>43. w \in Seq(Byte)
  BY <1>17, MadeBytes
<1> QED
  BY <1>19, <1>42, <1>43

-----------------------------------------------------------------------------
(* The relations of a truncate.                                            *)

(* The OIDs of the relations.                                              *)
HasNumbers(m, c) == m["rel_id"] \in Seq(Int) /\ c = Len(m["rel_id"])

Numbers(m, c) == [i \in 1 .. c |-> IntBytes(4, m["rel_id"][i])]

(* One after the other, of four bytes each.                                *)
LEMMA NumbersAre ==
    ASSUME NEW m, NEW c, HasNumbers(m, c), NEW ss, ss = Numbers(m, c)
    PROVE  /\ c \in Nat /\ ss \in Seq(Seq(Byte)) /\ Len(ss) = c
           /\ \A i \in 1 .. c : m["rel_id"][i] \in Int /\ ss[i] = IntBytes(4, m["rel_id"][i])
           /\ \A i \in 1 .. c : Len(ss[i]) = 4
<1>1. c \in Nat /\ \A i \in 1 .. c : m["rel_id"][i] \in Int
  BY LenProperties, ElementOfSeq DEF HasNumbers
<1>2. ASSUME NEW i \in 1 .. c
      PROVE  IntBytes(4, m["rel_id"][i]) \in Seq(Byte) /\ Len(IntBytes(4, m["rel_id"][i])) = 4
  <2>1. PICK v : v = m["rel_id"][i]
    OBVIOUS
  <2>2. v \in Int /\ 4 \in Nat
    BY <1>1, <2>1
  <2>3. IntBytes(4, v) \in Seq(Byte) /\ Len(IntBytes(4, v)) = 4
    BY <2>2, IntBytesAre
  <2> QED
    BY <2>1, <2>3
<1>3. ss = [i \in 1 .. c |-> IntBytes(4, m["rel_id"][i])]
  BY DEF Numbers
<1>4. ss \in Seq(Seq(Byte)) /\ Len(ss) = c
  BY <1>1, <1>2, <1>3, IsASeq, LenProperties
<1>5. \A i \in 1 .. c : ss[i] = IntBytes(4, m["rel_id"][i])
  BY <1>3
<1> QED
  BY <1>1, <1>2, <1>4, <1>5

(* They are read one at a time.                                            *)
ReadNumber == <<ReadInt(4, "rel_id")>>

(* By one plain item.                                                      *)
LEMMA OneNumber ==
    /\ ReadNumber \in Seq(Plains) /\ ReadNumber # <<>>
    /\ Head(ReadNumber) = ReadInt(4, "rel_id") /\ Tail(ReadNumber) = <<>>
<1>1. ReadInt(4, "rel_id") \in Plains
  BY DEF Plains, Widths, Fields
<1> QED
  BY <1>1 DEF ReadNumber

(* All of them, however many there are.                                    *)
LEMMA NumbersRead ==
    ASSUME NEW k, NEW w, NEW m, NEW p, NEW c, HasNumbers(m, c),
           NEW n \in [Fields -> Nat], n["rel_id"] = 0,
           NEW ss, ss = Numbers(m, c), InPlace(w, p, FlattenSeq(ss)),
           NEW r \in Seq(Items),
           Good(k, w, m, p + Len(FlattenSeq(ss)), r, Counts(n, "rel_id", c)),
           NEW t, Looping(t, c, ReadNumber, r)
    PROVE  Good(k, w, m, p, t, n)
<1>1. /\ c \in Nat /\ ss \in Seq(Seq(Byte)) /\ Len(ss) = c
      /\ \A i \in 1 .. c : m["rel_id"][i] \in Int /\ ss[i] = IntBytes(4, m["rel_id"][i])
      /\ \A i \in 1 .. c : Len(ss[i]) = 4
  BY NumbersAre
<1>2. PICK each : each = ReadNumber
  OBVIOUS
<1>3. each \in Seq(Plains) /\ each # <<>> /\ Head(each) = ReadInt(4, "rel_id") /\ Tail(each) = <<>>
  BY <1>2, OneNumber
<1>4. /\ \A i \in 1 .. c : InPlace(w, p + Offset(ss, i), ss[i])
      /\ \A i \in 1 .. c : Offset(ss, i + 1) = Offset(ss, i) + Len(ss[i])
      /\ \A i \in 1 .. c + 1 : Offset(ss, i) \in Nat
      /\ Offset(ss, 1) = 0 /\ Offset(ss, c + 1) = Len(FlattenSeq(ss))
  <2>1. ASSUME NEW i \in 1 .. c
        PROVE  Len(ss[i]) # 0
    <3>1. Len(ss[i]) = 4
      BY <1>1
    <3> QED
      BY <3>1
  <2> QED
    BY <1>1, <2>1, BlocksInPlace
<1>5. p \in Nat /\ "rel_id" \in Fields
  BY DEF InPlace, Fields
<1>6. PICK P : P = [j \in 0 .. c |-> p + Offset(ss, j + 1)]
  OBVIOUS
<1>7. PICK N : N = [j \in 0 .. c |-> Counts(n, "rel_id", j)]
  OBVIOUS
<1>8. ASSUME NEW j \in 0 .. c - 1
      PROVE  Turn(k, w, m, P, N, each, r, j)
  <2> SUFFICES ASSUME NEW l \in Items, NEW z, Nested(z, each, l, r),
                      \A y : Nested(y, <<>>, l, r) => Good(k, w, m, P[j + 1], y, N[j + 1])
               PROVE  Good(k, w, m, P[j], z, N[j])
    BY DEF Turn
  <2>1. j + 1 \in 1 .. c /\ j \in 0 .. c /\ j + 1 \in 0 .. c /\ j \in Nat /\ j + 1 \in 1 .. c + 1
    BY <1>1
  <2>2. PICK v : v = m["rel_id"][j + 1]
    OBVIOUS
  <2>3. v \in Int /\ ss[j + 1] = IntBytes(4, v) /\ Len(ss[j + 1]) = 4
    BY <1>1, <2>1, <2>2
  <2>4. PICK o : o = P[j]
    OBVIOUS
  <2>5. PICK q : q = N[j]
    OBVIOUS
  <2>6. o = p + Offset(ss, j + 1) /\ InPlace(w, o, IntBytes(4, v))
    BY <1>4, <1>6, <2>1, <2>3, <2>4
  <2>7. q = Counts(n, "rel_id", j)
    BY <1>7, <2>1, <2>5
  <2>8. q \in [Fields -> Nat] /\ q["rel_id"] = j /\ More(q, "rel_id") = N[j + 1]
    <3>1. /\ Counts(n, "rel_id", j) \in [Fields -> Nat] /\ Counts(n, "rel_id", j)["rel_id"] = j
          /\ More(Counts(n, "rel_id", j), "rel_id") = Counts(n, "rel_id", j + 1)
      BY <1>5, <2>1, CountsMore
    <3>2. N[j + 1] = Counts(n, "rel_id", j + 1)
      BY <1>7, <2>1
    <3> QED
      BY <2>7, <3>1, <3>2
  <2>9. NextIs(m, q, "rel_id", v)
    BY <1>5, <2>2, <2>8 DEF NextIs
  <2>10. P[j + 1] = o + 4
    <3>1. P[j + 1] = p + Offset(ss, (j + 1) + 1)
      BY <1>6, <2>1
    <3>2. Offset(ss, (j + 1) + 1) = Offset(ss, j + 1) + 4
      BY <1>4, <2>1, <2>3
    <3>3. Offset(ss, j + 1) \in Nat
      BY <1>4, <2>1
    <3> QED
      BY <1>5, <2>6, <3>1, <3>2, <3>3
  <2>11. /\ z \in Seq(Items) /\ z # <<>> /\ Head(z) = ReadInt(4, "rel_id")
         /\ Nested(Tail(z), <<>>, l, r)
    <3>1. z \in Seq(Items) /\ z # <<>> /\ Head(z) = Head(each) /\ Nested(Tail(z), Tail(each), l, r)
      BY <1>3, NestedNext
    <3> QED
      BY <1>3, <3>1
  <2>12. Good(k, w, m, o + 4, Tail(z), More(q, "rel_id"))
    BY <2>8, <2>10, <2>11
  <2>13. 4 \in Widths
    BY DEF Widths
  <2>14. Good(k, w, m, o, z, q)
    BY <2>3, <2>6, <2>9, <2>11, <2>12, <2>13, IntRead
  <2> QED
    BY <2>4, <2>5, <2>14
<1>9. P[0] = p /\ N[0] = n
  <2>1. 0 \in 0 .. c /\ 0 + 1 = 1 /\ 0 \in Nat
    BY <1>1
  <2>2. P[0] = p + Offset(ss, 1) /\ N[0] = Counts(n, "rel_id", 0)
    BY <1>6, <1>7, <2>1
  <2> QED
    BY <1>4, <1>5, <2>1, <2>2, CountsMore
<1>10. Good(k, w, m, P[c], r, N[c])
  <2>1. c \in 0 .. c
    BY <1>1
  <2>2. P[c] = p + Len(FlattenSeq(ss)) /\ N[c] = Counts(n, "rel_id", c)
    BY <1>4, <1>6, <1>7, <2>1
  <2> QED
    BY <2>2
<1>11. Looping(t, c, each, r)
  BY <1>2
<1>12. Good(k, w, m, P[0], t, N[0])
  BY <1>1, <1>3, <1>8, <1>10, <1>11, LoopGood
<1> QED
  BY <1>9, <1>12

(* The fields of a truncate.                                               *)
LEMMA TruncateFields ==
    ASSUME NEW m, WellFormed("T", m)
    PROVE  /\ OneInt(m, "flags") /\ m["rel_id"] \in Seq(Int)
           /\ \A f \in Fields \ {"flags", "rel_id"} : Len(m[f]) = 0
<1>1. "T" \in Kinds /\ FieldsOf["T"] = {"flags", "rel_id"}
  BY DEF Kinds, FieldsOf
<1>2. One(m["flags"])
  BY DEF WellFormed
<1>3. OneInt(m, "flags") /\ m["rel_id"] \in Seq(Int)
  BY <1>1, <1>2, ListsOfMessage DEF OneInt, Fields
<1>4. \A f \in Fields \ {"flags", "rel_id"} : m[f] = <<>>
  BY <1>1, ListsOfMessage
<1>5. Len(<<>>) = 0
  OBVIOUS
<1> QED
  BY <1>3, <1>4, <1>5

(* A truncate is read: the flags come between the number of relations and  *)
(* the relations.                                                          *)
LEMMA TruncateGood ==
    ASSUME NEW m, WellFormed("T", m), NEW w, w = TruncateBytes(m)
    PROVE  w \in Seq(Byte) /\ Good("T", w, m, 0, Decoders["T"], Zero)
<1>1. /\ OneInt(m, "flags") /\ m["rel_id"] \in Seq(Int)
      /\ \A f \in Fields \ {"flags", "rel_id"} : Len(m[f]) = 0
  BY TruncateFields
<1>2. PICK c : c = Len(m["rel_id"])
  OBVIOUS
<1>3. PICK ss : ss = Numbers(m, c)
  OBVIOUS
<1>4. HasNumbers(m, c) /\ c \in Nat /\ ss \in Seq(Seq(Byte)) /\ Len(ss) = c
  <2>1. HasNumbers(m, c)
    BY <1>1, <1>2 DEF HasNumbers
  <2> QED
    BY <1>3, <2>1, NumbersAre
<1>5. PICK a : a = IntBytes(4, c)
  OBVIOUS
<1>6. PICK b : b = IntOf(m, "flags", 1)
  OBVIOUS
<1>7. PICK z : z = FlattenSeq(ss)
  OBVIOUS
<1>8. a \in Seq(Byte) /\ Len(a) = 4 /\ b \in Seq(Byte) /\ Len(b) = 1
  <2>1. 1 \in Widths /\ c \in Int /\ 4 \in Nat
    BY <1>4 DEF Widths
  <2>2. a \in Seq(Byte) /\ Len(a) = 4
    BY <1>5, <2>1, IntBytesAre
  <2>3. b \in Seq(Byte) /\ Len(b) = 1
    BY <1>1, <1>6, <2>1, IntOfIs
  <2> QED
    BY <2>2, <2>3
<1>9. z \in Seq(Byte)
  <2>1. FlatUpTo(ss, c) = z
    BY <1>4, <1>7, FlatSteps
  <2>2. c \in 0 .. c
    BY <1>4
  <2> QED
    BY <1>4, <2>1, <2>2, FlatType
<1>10. w = a \o b \o z
  <2>1. DOMAIN m["rel_id"] = 1 .. c
    BY <1>1, <1>2, LenProperties
  <2>2. ss = [i \in DOMAIN m["rel_id"] |-> IntBytes(4, m["rel_id"][i])]
    BY <1>3, <2>1 DEF Numbers
  <2> QED
    BY <1>2, <1>5, <1>6, <1>7, <2>2 DEF TruncateBytes, IntOf
<1>11. Made3(w, a, b, z)
  BY <1>8, <1>9, <1>10 DEF Made3
<1>12. /\ Len(z) \in Nat /\ Len(w) = Len(a) + Len(b) + Len(z)
       /\ InPlace(w, 0, a) /\ InPlace(w, Len(a), b) /\ InPlace(w, Len(a) + Len(b), z)
  BY <1>11, WholeOfThree
<1>13. InPlace(w, 4, b) /\ InPlace(w, 4 + 1, z) /\ Len(w) = (4 + 1) + Len(z)
  BY <1>8, <1>12
<1>14. PICK n1 : n1 = Counts(Zero, "flags", 1)
  OBVIOUS
<1>15. PICK n2 : n2 = Counts(n1, "rel_id", c)
  OBVIOUS
<1>16. /\ Zero \in [Fields -> Nat] /\ n1 \in [Fields -> Nat] /\ n2 \in [Fields -> Nat]
       /\ Zero["flags"] = 0 /\ n1["rel_id"] = 0 /\ n2["flags"] = 1 /\ n2["rel_id"] = c
       /\ \A f \in Fields \ {"flags", "rel_id"} : n2[f] = 0
  BY <1>4, <1>14, <1>15 DEF Counts, Zero, Fields
<1>17. Complete(m, n2)
  <2>1. Len(m["flags"]) = 1
    BY <1>1 DEF OneInt, One
  <2>2. \A f \in Fields : n2[f] = Len(m[f])
    BY <1>1, <1>2, <1>16, <2>1
  <2> QED
    BY <1>16, <2>2 DEF Complete
<1>18. "T" \in Kinds
  BY DEF Kinds, FieldsOf
<1>19. PICK r : r = <<>>
  OBVIOUS
<1>20. r \in Seq(Items)
  BY <1>19
<1>21. PICK q : q = 4 + 1
  OBVIOUS
<1>22. Good("T", w, m, q + Len(z), r, n2)
  BY <1>13, <1>17, <1>18, <1>19, <1>21, MessageGood
<1>23. PICK each : each = ReadNumber
  OBVIOUS
<1>24. PICK l : l = Loop(c, each)
  OBVIOUS
<1>25. each \in Seq(Plains) /\ l \in Items
  <2>1. each \in Seq(Plains) /\ c \in Int
    BY <1>4, <1>23, OneNumber
  <2> QED
    BY <1>24, <2>1, LoopItem
<1>26. PICK h : h = ReadInt(1, "flags")
  OBVIOUS
<1>27. h \in Items /\ h \in Plains
  BY <1>26, PlainItems DEF Fields, Plains, Widths
<1>28. PICK once : once = <<h>>
  OBVIOUS
<1>29. /\ once \in Seq(Items) /\ once \in Seq(Plains) /\ once # <<>>
       /\ Head(once) = h /\ Tail(once) = <<>>
  BY <1>27, <1>28
<1>30. PICK y : y = once \o <<l>> \o r
  OBVIOUS
<1>31. Nested(y, once, l, r)
  BY <1>20, <1>25, <1>29, <1>30 DEF Nested
<1>32. y \in Seq(Items) /\ y # <<>> /\ Head(y) = h /\ Nested(Tail(y), <<>>, l, r)
  <2>1. /\ y \in Seq(Items) /\ y # <<>> /\ Head(y) = Head(once)
        /\ Nested(Tail(y), Tail(once), l, r)
    BY <1>29, <1>31, NestedNext
  <2> QED
    BY <1>29, <2>1
<1>33. PICK x : x = Tail(y)
  OBVIOUS
<1>34. Looping(x, c, each, r)
  <2>1. PICK e : e = <<>>
    OBVIOUS
  <2>2. Nested(x, e, l, r)
    BY <1>32, <1>33, <2>1
  <2> QED
    BY <1>24, <2>1, <2>2, NestedLast DEF Looping
<1>35. Good("T", w, m, q, x, n1)
  <2>1. InPlace(w, q, FlattenSeq(ss))
    BY <1>7, <1>13, <1>21
  <2>2. Good("T", w, m, q + Len(FlattenSeq(ss)), r, Counts(n1, "rel_id", c))
    BY <1>7, <1>15, <1>22
  <2>3. Looping(x, c, ReadNumber, r)
    BY <1>23, <1>34
  <2> QED
    BY <1>3, <1>4, <1>16, <1>20, <2>1, <2>2, <2>3, NumbersRead
<1>36. PICK p : p = 0 + 4
  OBVIOUS
<1>37. Good("T", w, m, p, y, Zero)
  <2>1. Good("T", w, m, p + 1, x, Counts(Zero, "flags", 1))
    BY <1>14, <1>21, <1>35, <1>36
  <2>2. Then(y, ReadInt(1, "flags"), x) /\ 1 \in Widths
    BY <1>26, <1>32, <1>33 DEF Then, Widths
  <2>3. InPlace(w, p, IntOf(m, "flags", 1))
    BY <1>6, <1>13, <1>36
  <2> QED
    BY <1>1, <1>16, <2>1, <2>2, <2>3, FirstInt
<1>38. PICK t : t = <<ReadCount(4, once, each)>>
  OBVIOUS
<1>39. t \in Seq(Items) /\ t # <<>> /\ Head(t) = ReadCount(4, once, each) /\ Tail(t) = r
  <2>1. ReadCount(4, once, each) \in Items
    BY <1>25, <1>29 DEF Items, Widths
  <2> QED
    BY <1>19, <1>38, <2>1
<1>40. PICK p0 : p0 = 0
  OBVIOUS
<1>41. Good("T", w, m, p0, t, Zero)
  <2>1. 4 \in Widths /\ c \in Int
    BY <1>4 DEF Widths
  <2>2. InPlace(w, p0, IntBytes(4, c))
    BY <1>5, <1>12, <1>40
  <2>3. Good("T", w, m, p0 + 4, once \o <<Loop(c, each)>> \o Tail(t), Zero)
    BY <1>24, <1>30, <1>36, <1>37, <1>39, <1>40
  <2> QED
    BY <1>39, <2>1, <2>2, <2>3, CountRead
<1>42. t = Decoders["T"]
  BY <1>23, <1>26, <1>28, <1>38 DEF Decoders, ReadNumber
<1>43. w \in Seq(Byte)
  BY <1>11, MadeBytes
<1> QED
  BY <1>40, <1>41, <1>42, <1>43

-----------------------------------------------------------------------------
(* Rows: a tag, and the tuple it announces.                                *)

(* A submessage: a tag, and the tuple of a field.                          *)
IsTuple(d, c, m, f) ==
    c \in {"K", "O", "N"} /\ m[f] \in Seq(ColumnValue) /\ d = TupleBytes(c, m[f])

(* Where its parts are.                                                    *)
LEMMA TupleInPlace ==
    ASSUME NEW w, NEW p, NEW d, NEW c, NEW m, NEW f, IsTuple(d, c, m, f)
    PROVE  /\ d \in Seq(Byte)
           /\ InPlace(w, p, d) =>
                 /\ TagAt(w, p, c) /\ TupleAt(w, p + 1, m, f)
                 /\ p + Len(d) = ((p + 1) + 2) + TupleLength(m, f)
<1>1. PICK s : s = m[f]
  OBVIOUS
<1>2. PICK n : n = Len(s)
  OBVIOUS
<1>3. PICK ss : ss = TupleList(m, f)
  OBVIOUS
<1>4. n \in Nat /\ ss \in Seq(Seq(Byte)) /\ Len(ss) = n
  BY <1>1, <1>2, <1>3, TupleListIs DEF IsTuple
<1>5. PICK a : a = <<Tag(c)>>
  OBVIOUS
<1>6. PICK b : b = IntBytes(2, n)
  OBVIOUS
<1>7. PICK e : e = FlattenSeq(ss)
  OBVIOUS
<1>8. a \in Seq(Byte) /\ Len(a) = 1
  <2>1. c \in {"n", "u", "t", "d", "f", "i", "K", "O", "N"}
    BY DEF IsTuple
  <2> QED
    BY <1>5, <2>1, TagByte
<1>9. b \in Seq(Byte) /\ Len(b) = 2
  <2>1. n \in Int /\ 2 \in Nat
    BY <1>4
  <2> QED
    BY <1>6, <2>1, IntBytesAre
<1>10. e \in Seq(Byte)
  <2>1. FlatUpTo(ss, n) = e
    BY <1>4, <1>7, FlatSteps
  <2>2. n \in 0 .. n
    BY <1>4
  <2> QED
    BY <1>4, <2>1, <2>2, FlatType
<1>11. d = a \o b \o e
  <2>1. DOMAIN s = 1 .. n
    BY <1>1, <1>2, LenProperties DEF IsTuple
  <2>2. ss = [i \in DOMAIN s |-> ColumnBytes(s[i])]
    BY <1>1, <1>2, <1>3, <2>1 DEF TupleList
  <2>3. d = TupleBytes(c, s)
    BY <1>1 DEF IsTuple
  <2> QED
    BY <1>2, <1>5, <1>6, <1>7, <2>2, <2>3 DEF TupleBytes
<1>12. Made3(d, a, b, e)
  BY <1>8, <1>9, <1>10, <1>11 DEF Made3
<1>13. d \in Seq(Byte)
  <2>1. PICK x : x = a \o b
    OBVIOUS
  <2>2. Joined(Byte, x, a, b)
    BY <1>8, <1>9, <2>1, Joining
  <2>3. x \in Seq(Byte)
    BY <2>2 DEF Joined
  <2>4. Joined(Byte, d, x, e)
    BY <1>10, <1>11, <2>1, <2>3, Joining
  <2> QED
    BY <2>4 DEF Joined
<1>14. ASSUME InPlace(w, p, d)
       PROVE  /\ TagAt(w, p, c) /\ TupleAt(w, p + 1, m, f)
              /\ p + Len(d) = ((p + 1) + 2) + TupleLength(m, f)
  <2>1. /\ Len(e) \in Nat /\ Len(d) = Len(a) + Len(b) + Len(e)
        /\ InPlace(w, p, a) /\ InPlace(w, p + Len(a), b) /\ InPlace(w, (p + Len(a)) + Len(b), e)
    BY <1>12, <1>14, ThreeParts
  <2>2. p \in Nat
    BY <1>14 DEF InPlace
  <2>3. InPlace(w, p + 1, b) /\ InPlace(w, (p + 1) + 2, e)
    BY <1>8, <1>9, <2>1
  <2>4. TagAt(w, p, c)
    <3>1. c \in {"n", "u", "t", "d", "f", "i", "K", "O", "N"}
      BY DEF IsTuple
    <3> QED
      BY <1>5, <2>1, <3>1, TagInPlace
  <2>5. TupleAt(w, p + 1, m, f)
    BY <1>1, <1>2, <1>3, <1>6, <1>7, <2>3 DEF TupleAt
  <2>6. p + Len(d) = ((p + 1) + 2) + Len(e)
    BY <1>8, <1>9, <2>1, <2>2
  <2>7. Len(e) = TupleLength(m, f)
    BY <1>3, <1>7 DEF TupleLength
  <2> QED
    BY <2>4, <2>5, <2>6, <2>7
<1> QED
  BY <1>13, <1>14

(* It is read: the tag announces its tuple, and what comes after.          *)
LEMMA TupleTaken ==
    ASSUME NEW k, NEW w, NEW m, NEW p, NEW n, NEW c, NEW f \in Fields, f # "tags",
           NextIs(m, n, "tags", c), n[f] = 0, NEW d, IsTuple(d, c, m, f), InPlace(w, p, d),
           NEW T, c \in T, "b" \notin T, NEW t, Then(t, ReadTag(T, "tags"), <<>>),
           NEW s, Then(Announced(k, c), ReadTuple(f), s),
           Good(k, w, m, p + Len(d), s, Counts(More(n, "tags"), f, Len(m[f])))
    PROVE  Good(k, w, m, p, t, n)
<1>1. PICK q : q = p + 1
  OBVIOUS
<1>2. TagAt(w, p, c) /\ TupleAt(w, q, m, f) /\ p + Len(d) = (q + 2) + TupleLength(m, f)
  BY <1>1, TupleInPlace
<1>3. PICK y : y = Announced(k, c)
  OBVIOUS
<1>4. y \in Seq(Items) /\ y # <<>> /\ Head(y) = ReadTuple(f) /\ Tail(y) = s
  BY <1>3 DEF Then
<1>5. PICK n1 : n1 = More(n, "tags")
  OBVIOUS
<1>6. n1 \in [Fields -> Nat] /\ n1[f] = 0
  BY <1>5 DEF NextIs, More
<1>7. Good(k, w, m, q, y, n1)
  <2>1. Good(k, w, m, (q + 2) + TupleLength(m, f), Tail(y), Counts(n1, f, Len(m[f])))
    BY <1>2, <1>4, <1>5
  <2>2. m[f] \in Seq(ColumnValue)
    BY DEF IsTuple
  <2> QED
    BY <1>2, <1>4, <1>6, <2>1, <2>2, TupleRead
<1>8. t \in Seq(Items) /\ t # <<>> /\ Head(t) = ReadTag(T, "tags") /\ Tail(t) = <<>>
  BY DEF Then
<1>9. Announced(k, c) \o Tail(t) = y
  <2>1. y \o <<>> = y
    BY <1>4, ConcatEmptySeq
  <2> QED
    BY <1>3, <1>8, <2>1
<1>10. Good(k, w, m, p + 1, Announced(k, c) \o Tail(t), More(n, "tags"))
  BY <1>1, <1>5, <1>7, <1>9
<1> QED
  BY <1>2, <1>8, <1>10, TagRead

(* The fields that hold a tuple.                                           *)
Tuples == {"key", "old", "new"}

(* What follows the relation in a row message.                             *)
RowTail(m) ==
    FlattenSeq([i \in DOMAIN m["tags"] |-> TupleBytes(m["tags"][i], m[SentField(m["tags"][i])])])

(* The fields of a row message.                                            *)
LEMMA RowFields ==
    ASSUME NEW k \in {"I", "U", "D"}, NEW m, WellFormed(k, m)
    PROVE  /\ k \in Kinds /\ OneInt(m, "rel_id")
           /\ \A f \in Tuples : m[f] \in Seq(ColumnValue)
           /\ \A f \in Fields \ (Tuples \cup {"rel_id", "tags"}) : Len(m[f]) = 0
           /\ k = "I" => Len(m["key"]) = 0 /\ Len(m["old"]) = 0
           /\ k = "D" => Len(m["new"]) = 0
<1>1. k \in Kinds /\ FieldsOf[k] \subseteq Tuples \cup {"rel_id", "tags"}
  BY DEF Kinds, FieldsOf, Tuples
<1>2. One(m["rel_id"])
  BY DEF WellFormed
<1>3. OneInt(m, "rel_id") /\ \A f \in Tuples : m[f] \in Seq(ColumnValue)
  BY <1>1, <1>2, ListsOfMessage DEF OneInt, Fields, Tuples
<1>4. \A f \in Fields \ FieldsOf[k] : m[f] = <<>>
  BY <1>1, ListsOfMessage
<1>5. Len(<<>>) = 0
  OBVIOUS
<1>6. \A f \in Fields \ FieldsOf[k] : Len(m[f]) = 0
  BY <1>4, <1>5
<1>7. k = "I" => Len(m["key"]) = 0 /\ Len(m["old"]) = 0
  <2>1. k = "I" => "key" \in Fields \ FieldsOf[k] /\ "old" \in Fields \ FieldsOf[k]
    BY DEF Fields, FieldsOf
  <2> QED
    BY <1>6, <2>1
<1>8. k = "D" => Len(m["new"]) = 0
  <2>1. k = "D" => "new" \in Fields \ FieldsOf[k]
    BY DEF Fields, FieldsOf
  <2> QED
    BY <1>6, <2>1
<1> QED
  BY <1>1, <1>3, <1>6, <1>7, <1>8

(* A tuple that no tag announces is empty.                                 *)
LEMMA NoTuple ==
    ASSUME NEW k \in {"I", "U", "D"}, NEW m, WellFormed(k, m)
    PROVE  /\ (\A i \in DOMAIN m["tags"] : m["tags"][i] # "K") => Len(m["key"]) = 0
           /\ (\A i \in DOMAIN m["tags"] : m["tags"][i] # "O") => Len(m["old"]) = 0
<1>1. Len(<<>>) = 0
  OBVIOUS
<1>2. /\ m["key"] # <<>> => \E i \in DOMAIN m["tags"] : m["tags"][i] = "K"
      /\ m["old"] # <<>> => \E i \in DOMAIN m["tags"] : m["tags"][i] = "O"
  BY DEF WellFormed
<1> QED
  BY <1>1, <1>2

(* One submessage,                                                         *)
LEMMA TailOfOne ==
    ASSUME NEW m, NEW c, m["tags"] = <<c>>, NEW f, f = SentField(c), NEW d, IsTuple(d, c, m, f)
    PROVE  RowTail(m) = d /\ d \in Seq(Byte)
<1>1. d \in Seq(Byte)
  BY TupleInPlace
<1>2. PICK s : s = m["tags"]
  OBVIOUS
<1>3. DOMAIN s = 1 .. 1 /\ s[1] = c
  BY <1>2
<1>4. PICK ss : ss = [i \in DOMAIN s |-> TupleBytes(s[i], m[SentField(s[i])])]
  OBVIOUS
<1>5. RowTail(m) = FlattenSeq(ss)
  BY <1>2, <1>4 DEF RowTail
<1>6. ss = [i \in 1 .. 1 |-> d]
  BY <1>3, <1>4 DEF IsTuple
<1>7. ss \in Seq(Seq(Byte)) /\ Len(ss) = 1 /\ ss[1] = d
  <2>1. \A i \in 1 .. 1 : d \in Seq(Byte)
    BY <1>1
  <2>2. [i \in 1 .. 1 |-> d] \in Seq(Seq(Byte))
    BY <2>1, IsASeq
  <2> QED
    BY <1>6, <2>2, LenProperties
<1>8. /\ FlatUpTo(ss, 0) = <<>> /\ FlattenSeq(ss) = FlatUpTo(ss, 1)
      /\ FlatUpTo(ss, 1) = FlatUpTo(ss, 1 - 1) \o ss[1]
  <2>1. 1 \in 1 .. 1 /\ 1 \in Nat
    OBVIOUS
  <2> QED
    BY <1>7, <2>1, FlatSteps
<1>9. FlattenSeq(ss) = <<>> \o d
  <2>1. FlatUpTo(ss, 1 - 1) = <<>>
    BY <1>8
  <2> QED
    BY <1>7, <1>8, <2>1
<1> QED
  BY <1>1, <1>5, <1>9, ConcatEmptySeq

(* or two.                                                                 *)
LEMMA TailOfTwo ==
    ASSUME NEW m, NEW c, NEW e, m["tags"] = <<c, e>>,
           NEW f, f = SentField(c), NEW d, IsTuple(d, c, m, f),
           NEW g, g = SentField(e), NEW b, IsTuple(b, e, m, g)
    PROVE  RowTail(m) = d \o b /\ d \in Seq(Byte) /\ b \in Seq(Byte)
<1>1. d \in Seq(Byte) /\ b \in Seq(Byte)
  BY TupleInPlace
<1>2. PICK s : s = m["tags"]
  OBVIOUS
<1>3. DOMAIN s = 1 .. 2 /\ s[1] = c /\ s[2] = e
  BY <1>2
<1>4. PICK ss : ss = [i \in DOMAIN s |-> TupleBytes(s[i], m[SentField(s[i])])]
  OBVIOUS
<1>5. RowTail(m) = FlattenSeq(ss)
  BY <1>2, <1>4 DEF RowTail
<1>6. ss[1] = d /\ ss[2] = b /\ DOMAIN ss = 1 .. 2
  BY <1>3, <1>4 DEF IsTuple
<1>7. ss \in Seq(Seq(Byte)) /\ Len(ss) = 2
  <2>1. \A i \in 1 .. 2 : ss[i] \in Seq(Byte)
    BY <1>1, <1>6
  <2>2. ss = [i \in 1 .. 2 |-> ss[i]]
    BY <1>4, <1>6
  <2>3. [i \in 1 .. 2 |-> ss[i]] \in Seq(Seq(Byte))
    BY <2>1, IsASeq
  <2>4. ss \in Seq(Seq(Byte))
    BY <2>2, <2>3
  <2> QED
    BY <1>6, <2>4, LenProperties
<1>8. /\ FlatUpTo(ss, 0) = <<>> /\ FlattenSeq(ss) = FlatUpTo(ss, 2)
      /\ FlatUpTo(ss, 1) = FlatUpTo(ss, 1 - 1) \o ss[1]
      /\ FlatUpTo(ss, 2) = FlatUpTo(ss, 2 - 1) \o ss[2]
  <2>1. 1 \in 1 .. 2 /\ 2 \in 1 .. 2 /\ 2 \in Nat
    OBVIOUS
  <2> QED
    BY <1>7, <2>1, FlatSteps
<1>9. FlatUpTo(ss, 1) = d
  <2>1. FlatUpTo(ss, 1 - 1) = <<>>
    BY <1>8
  <2>2. FlatUpTo(ss, 1) = <<>> \o d
    BY <1>6, <1>8, <2>1
  <2> QED
    BY <1>1, <2>2, ConcatEmptySeq
<1>10. FlatUpTo(ss, 2 - 1) = d
  BY <1>9
<1> QED
  BY <1>1, <1>5, <1>6, <1>8, <1>10

(* The relation is read first.                                             *)
LEMMA RowStart ==
    ASSUME NEW k, NEW m, OneInt(m, "rel_id"), NEW w, w = RowBytes(m),
           NEW x, x = RowTail(m), x \in Seq(Byte), NEW t0, NEW t1,
           Then(t0, ReadInt(4, "rel_id"), t1), NEW n1, n1 = Counts(Zero, "rel_id", 1)
    PROVE  /\ InPlace(w, 4, x) /\ Len(w) = 4 + Len(x) /\ w \in Seq(Byte)
           /\ Good(k, w, m, 4, t1, n1) => Good(k, w, m, 0, t0, Zero)
<1>1. PICK a : a = IntOf(m, "rel_id", 4)
  OBVIOUS
<1>2. 4 \in Widths
  BY DEF Widths
<1>3. a \in Seq(Byte) /\ Len(a) = 4
  BY <1>1, <1>2, IntOfIs
<1>4. w = a \o x
  BY <1>1 DEF RowBytes, IntOf, RowTail
<1>5. Made(w, a, x)
  BY <1>3, <1>4 DEF Made
<1>6. Len(w) = Len(a) + Len(x) /\ InPlace(w, 0, a) /\ InPlace(w, Len(a), x)
  BY <1>5, WholeOfTwo
<1>7. InPlace(w, 4, x) /\ Len(w) = 4 + Len(x)
  BY <1>3, <1>6
<1>8. ASSUME Good(k, w, m, 4, t1, n1)
      PROVE  Good(k, w, m, 0, t0, Zero)
  <2>1. PICK p : p = 0
    OBVIOUS
  <2>2. Zero \in [Fields -> Nat] /\ Zero["rel_id"] = 0
    BY DEF Zero, Fields
  <2>3. Good(k, w, m, p + 4, t1, Counts(Zero, "rel_id", 1))
    BY <1>8, <2>1
  <2>4. InPlace(w, p, IntOf(m, "rel_id", 4))
    BY <1>1, <1>6, <2>1
  <2>5. Good(k, w, m, p, t0, Zero)
    BY <1>2, <2>2, <2>3, <2>4, FirstInt
  <2> QED
    BY <2>1, <2>5
<1>9. w \in Seq(Byte)
  BY <1>5, MadeBytes
<1> QED
  BY <1>7, <1>8, <1>9

(* The decoder files a tuple under the field the server took it from.      *)
LEMMA TagsAre ==
    /\ SentField("K") = "key" /\ SentField("O") = "old" /\ SentField("N") = "new"
    /\ TupleField("K") = "key" /\ TupleField("O") = "old" /\ TupleField("N") = "new"
<1>1. SentField("K") = "key"
  BY Zenon DEF SentField
<1>2. SentField("O") = "old"
  BY Zenon DEF SentField
<1>3. SentField("N") = "new"
  BY Zenon DEF SentField
<1>4. TupleField("K") = "key" /\ TupleField("O") = "old" /\ TupleField("N") = "new"
  BY DEF TupleField
<1> QED
  BY <1>1, <1>2, <1>3, <1>4

(* Reading a tuple is an item.                                             *)
LEMMA TupleItem ==
    ASSUME NEW f \in Fields
    PROVE  ReadTuple(f) \in Items
<1>1. PICK e : e = <<>>
  OBVIOUS
<1>2. PICK each : each = <<ReadColumn(f)>>
  OBVIOUS
<1>3. e \in Seq(Plains) /\ each \in Seq(Plains) /\ 2 \in Widths
  BY <1>1, <1>2, OneColumn DEF Widths
<1>4. ReadCount(2, e, each) \in Items
  BY <1>3 DEF Items
<1> QED
  BY <1>1, <1>2, <1>4 DEF ReadTuple

(* What a tag announces: its tuple, and after the old one the new.         *)
LEMMA AnnouncedAlone ==
    ASSUME NEW k, NEW c, c \in {"K", "O", "N"}, k = "U" => c = "N"
    PROVE  Then(Announced(k, c), ReadTuple(TupleField(c)), <<>>)
<1>1. TupleField(c) \in Fields
  BY DEF TupleField, Fields
<1>2. PICK h : h = ReadTuple(TupleField(c))
  OBVIOUS
<1>3. h \in Items
  BY <1>1, <1>2, TupleItem
<1>4. Announced(k, c) = <<h>>
  BY <1>2 DEF Announced, ReadTuple
<1>5. Then(<<h>>, h, <<>>)
  BY <1>3 DEF Then
<1> QED
  BY <1>2, <1>4, <1>5

(* In an update the old row, or its key, announces the new one too.        *)
LEMMA AnnouncedBefore ==
    ASSUME NEW c, c \in {"K", "O"}
    PROVE  /\ Then(Announced("U", c), ReadTuple(TupleField(c)), <<ReadTag({"N"}, "tags")>>)
           /\ Then(<<ReadTag({"N"}, "tags")>>, ReadTag({"N"}, "tags"), <<>>)
<1>1. TupleField(c) \in Fields
  BY DEF TupleField, Fields
<1>2. PICK h : h = ReadTuple(TupleField(c))
  OBVIOUS
<1>3. PICK l : l = ReadTag({"N"}, "tags")
  OBVIOUS
<1>4. h \in Items
  BY <1>1, <1>2, TupleItem
<1>5. l \in Items
  BY <1>3 DEF Items, Plains, Fields
<1>6. Announced("U", c) = <<h, l>>
  BY <1>2, <1>3 DEF Announced, ReadTuple
<1>7. Then(<<h, l>>, h, <<l>>) /\ Then(<<l>>, l, <<>>)
  BY <1>4, <1>5 DEF Then
<1> QED
  BY <1>2, <1>3, <1>6, <1>7

(* The reads of a row message.                                             *)
LEMMA RowReads ==
    ASSUME NEW k, NEW T, T \subseteq {"K", "O", "N"},
           Decoders[k] = <<ReadInt(4, "rel_id"), ReadTag(T, "tags")>>
    PROVE  \E t1 : Then(Decoders[k], ReadInt(4, "rel_id"), t1) /\ Then(t1, ReadTag(T, "tags"), <<>>)
<1>1. PICK h : h = ReadInt(4, "rel_id")
  OBVIOUS
<1>2. PICK l : l = ReadTag(T, "tags")
  OBVIOUS
<1>3. h \in Items
  BY <1>1, PlainItems DEF Fields
<1>4. l \in Items
  BY <1>2 DEF Items, Plains, Fields
<1>5. Then(<<h, l>>, h, <<l>>) /\ Then(<<l>>, l, <<>>)
  BY <1>3, <1>4 DEF Then
<1> QED
  BY <1>1, <1>2, <1>5

(* A row message of one tuple, and a decoder of row messages.              *)
OnlyTuple(m, c, f) ==
    /\ c \in {"K", "O", "N"} /\ m["tags"] = <<c>>
    /\ f \in Tuples /\ f = SentField(c) /\ f = TupleField(c)
    /\ \A g \in Tuples : g # f => Len(m[g]) = 0

RowDecoder(k, T) ==
    T \subseteq {"K", "O", "N"} /\ Decoders[k] = <<ReadInt(4, "rel_id"), ReadTag(T, "tags")>>

(* A row message of one tuple is read.                                     *)
LEMMA OneTupleGood ==
    ASSUME NEW k \in {"I", "U", "D"}, NEW m, WellFormed(k, m), NEW w, w = RowBytes(m),
           NEW c, k = "U" => c = "N",
           NEW f, OnlyTuple(m, c, f), NEW T, c \in T, RowDecoder(k, T)
    PROVE  w \in Seq(Byte) /\ Good(k, w, m, 0, Decoders[k], Zero)
<1> USE DEF OnlyTuple, RowDecoder
<1>1. /\ k \in Kinds /\ OneInt(m, "rel_id")
      /\ \A g \in Tuples : m[g] \in Seq(ColumnValue)
      /\ \A g \in Fields \ (Tuples \cup {"rel_id", "tags"}) : Len(m[g]) = 0
  BY RowFields
<1>2. f \in Fields /\ f # "tags" /\ f # "rel_id"
  BY DEF Tuples, Fields
<1>3. PICK d : d = TupleBytes(c, m[f])
  OBVIOUS
<1>4. IsTuple(d, c, m, f)
  BY <1>1, <1>3 DEF IsTuple
<1>5. PICK x : x = RowTail(m)
  OBVIOUS
<1>6. x = d /\ x \in Seq(Byte)
  BY <1>4, <1>5, TailOfOne
<1>7. \E t1 : Then(Decoders[k], ReadInt(4, "rel_id"), t1) /\ Then(t1, ReadTag(T, "tags"), <<>>)
  BY RowReads
<1>8. PICK t1 : Then(Decoders[k], ReadInt(4, "rel_id"), t1) /\ Then(t1, ReadTag(T, "tags"), <<>>)
  BY <1>7
<1>9. PICK t0 : t0 = Decoders[k]
  OBVIOUS
<1>10. Then(t0, ReadInt(4, "rel_id"), t1)
  BY <1>8, <1>9
<1>11. PICK n1 : n1 = Counts(Zero, "rel_id", 1)
  OBVIOUS
<1>12. /\ InPlace(w, 4, x) /\ Len(w) = 4 + Len(x) /\ w \in Seq(Byte)
       /\ Good(k, w, m, 4, t1, n1) => Good(k, w, m, 0, t0, Zero)
  BY ZenonT(60), <1>1, <1>5, <1>6, <1>10, <1>11, RowStart
<1>13. PICK n2 : n2 = More(n1, "tags")
  OBVIOUS
<1>14. PICK n3 : n3 = Counts(n2, f, Len(m[f]))
  OBVIOUS
<1>15. Len(m[f]) \in Nat
  BY <1>4, LenProperties DEF IsTuple
<1>16. /\ n1 \in [Fields -> Nat] /\ n1["tags"] = 0 /\ n1[f] = 0 /\ n1["rel_id"] = 1
       /\ \A g \in Fields : g # "rel_id" => n1[g] = 0
  BY <1>2, <1>11 DEF Counts, Zero, Fields
<1>17. /\ n2 \in [Fields -> Nat] /\ n2["tags"] = 1 /\ n2["rel_id"] = 1
       /\ \A g \in Fields : g # "rel_id" /\ g # "tags" => n2[g] = 0
  BY <1>13, <1>16 DEF More, Fields
<1>18. /\ n3 \in [Fields -> Nat] /\ n3["tags"] = 1 /\ n3["rel_id"] = 1 /\ n3[f] = Len(m[f])
       /\ \A g \in Fields : g # "rel_id" /\ g # "tags" /\ g # f => n3[g] = 0
  BY <1>2, <1>14, <1>15, <1>17 DEF Counts, Fields
<1>19. Complete(m, n3)
  <2>1. Len(m["tags"]) = 1
    OBVIOUS
  <2>2. Len(m["rel_id"]) = 1
    BY <1>1 DEF OneInt, One
  <2>3. \A g \in Fields : n3[g] = Len(m[g])
    BY <1>1, <1>18, <2>1, <2>2
  <2> QED
    BY <1>18, <2>3 DEF Complete
<1>20. Good(k, w, m, 4 + Len(d), <<>>, n3)
  BY <1>1, <1>6, <1>12, <1>19, MessageGood
<1>21. Good(k, w, m, 4, t1, n1)
  <2>1. PICK p : p = 4
    OBVIOUS
  <2>2. NextIs(m, n1, "tags", c)
    <3>1. n1["tags"] + 1 = 1 /\ m["tags"][1] = c /\ "tags" \in Fields
      BY <1>16 DEF Fields
    <3> QED
      BY <1>16, <3>1 DEF NextIs
  <2>3. Then(Announced(k, c), ReadTuple(f), <<>>)
    BY AnnouncedAlone
  <2>4. PICK s : s = <<>>
    OBVIOUS
  <2>5. Then(Announced(k, c), ReadTuple(f), s) /\ InPlace(w, p, d) /\ "b" \notin T
    BY <1>6, <1>12, <2>1, <2>3, <2>4
  <2>6. Good(k, w, m, p + Len(d), s, Counts(More(n1, "tags"), f, Len(m[f])))
    BY <1>13, <1>14, <1>20, <2>1, <2>4
  <2>7. Good(k, w, m, p, t1, n1)
    BY <1>2, <1>4, <1>8, <1>16, <2>2, <2>5, <2>6, TupleTaken
  <2> QED
    BY <2>1, <2>7
<1> QED
  BY <1>9, <1>12, <1>21

(* An update that brings the old row or its key is read.                   *)
LEMMA TwoTuplesGood ==
    ASSUME NEW m, WellFormed("U", m), NEW w, w = RowBytes(m),
           NEW c, c \in {"K", "O"}, m["tags"] = <<c, "N">>,
           NEW f, f \in {"key", "old"}, f = SentField(c), f = TupleField(c),
           \A g \in {"key", "old"} : g # f => Len(m[g]) = 0
    PROVE  w \in Seq(Byte) /\ Good("U", w, m, 0, Decoders["U"], Zero)
<1>1. /\ "U" \in Kinds /\ OneInt(m, "rel_id")
      /\ \A g \in Tuples : m[g] \in Seq(ColumnValue)
      /\ \A g \in Fields \ (Tuples \cup {"rel_id", "tags"}) : Len(m[g]) = 0
  BY RowFields
<1>2. f \in Fields /\ f # "tags" /\ f # "rel_id" /\ f \in Tuples /\ f # "new" /\ "new" \in Tuples
  BY DEF Tuples, Fields
<1>3. PICK d : d = TupleBytes(c, m[f])
  OBVIOUS
<1>4. IsTuple(d, c, m, f)
  BY <1>1, <1>2, <1>3 DEF IsTuple
<1>5. PICK b : b = TupleBytes("N", m["new"])
  OBVIOUS
<1>6. IsTuple(b, "N", m, "new")
  BY <1>1, <1>2, <1>5 DEF IsTuple
<1>7. PICK x : x = RowTail(m)
  OBVIOUS
<1>8. x = d \o b /\ d \in Seq(Byte) /\ b \in Seq(Byte)
  <2>1. PICK e : e = "N"
    OBVIOUS
  <2>2. PICK g : g = "new"
    OBVIOUS
  <2>3. m["tags"] = <<c, e>> /\ g = SentField(e) /\ IsTuple(b, e, m, g)
    BY <1>6, <2>1, <2>2, TagsAre
  <2> QED
    BY <1>4, <1>7, <2>3, TailOfTwo
<1>9. Made(x, d, b) /\ x \in Seq(Byte)
  BY <1>8, Joining DEF Made, Joined
<1>10. Decoders["U"] = <<ReadInt(4, "rel_id"), ReadTag(UpdateTags, "tags")>>
  BY DEF Decoders
<1>11. UpdateTags \subseteq {"K", "O", "N"} /\ c \in UpdateTags /\ "b" \notin UpdateTags
  BY DEF UpdateTags
<1>12. PICK T : T = UpdateTags
  OBVIOUS
<1>13. \E t1 : Then(Decoders["U"], ReadInt(4, "rel_id"), t1) /\ Then(t1, ReadTag(T, "tags"), <<>>)
  BY <1>10, <1>11, <1>12, RowReads
<1>14. PICK t1 : Then(Decoders["U"], ReadInt(4, "rel_id"), t1) /\ Then(t1, ReadTag(T, "tags"), <<>>)
  BY <1>13
<1>15. PICK t0 : t0 = Decoders["U"]
  OBVIOUS
<1>16. Then(t0, ReadInt(4, "rel_id"), t1)
  BY <1>14, <1>15
<1>17. PICK n1 : n1 = Counts(Zero, "rel_id", 1)
  OBVIOUS
<1>18. /\ InPlace(w, 4, x) /\ Len(w) = 4 + Len(x) /\ w \in Seq(Byte)
       /\ Good("U", w, m, 4, t1, n1) => Good("U", w, m, 0, t0, Zero)
  BY <1>1, <1>7, <1>9, <1>16, <1>17, RowStart
<1>19. /\ InPlace(w, 4, d) /\ InPlace(w, 4 + Len(d), b) /\ Len(x) = Len(d) + Len(b)
       /\ Len(d) \in Nat /\ Len(b) \in Nat
  <2>1. PICK p : p = 4
    OBVIOUS
  <2>2. InPlace(w, p, x)
    BY <1>18, <2>1
  <2>3. /\ InPlace(w, p, d) /\ InPlace(w, p + Len(d), b) /\ Len(x) = Len(d) + Len(b)
        /\ Len(d) \in Nat /\ Len(b) \in Nat
    BY <1>9, <2>2, PartsInPlace
  <2> QED
    BY <2>1, <2>3
<1>20. PICK n2 : n2 = More(n1, "tags")
  OBVIOUS
<1>21. PICK n3 : n3 = Counts(n2, f, Len(m[f]))
  OBVIOUS
<1>22. PICK n4 : n4 = More(n3, "tags")
  OBVIOUS
<1>23. PICK n5 : n5 = Counts(n4, "new", Len(m["new"]))
  OBVIOUS
<1>24. Len(m[f]) \in Nat /\ Len(m["new"]) \in Nat
  BY <1>4, <1>6, LenProperties DEF IsTuple
<1>25. /\ n1 \in [Fields -> Nat] /\ n1["tags"] = 0 /\ n1[f] = 0 /\ n1["rel_id"] = 1
       /\ \A g \in Fields : g # "rel_id" => n1[g] = 0
  BY <1>2, <1>17 DEF Counts, Zero, Fields
<1>26. /\ n2 \in [Fields -> Nat] /\ n2["tags"] = 1 /\ n2["rel_id"] = 1
       /\ \A g \in Fields : g # "rel_id" /\ g # "tags" => n2[g] = 0
  BY <1>20, <1>25 DEF More, Fields
<1>27. /\ n3 \in [Fields -> Nat] /\ n3["tags"] = 1 /\ n3["rel_id"] = 1 /\ n3[f] = Len(m[f])
       /\ \A g \in Fields : g # "rel_id" /\ g # "tags" /\ g # f => n3[g] = 0
  BY <1>2, <1>21, <1>24, <1>26 DEF Counts, Fields
<1>28. /\ n4 \in [Fields -> Nat] /\ n4["tags"] = 2 /\ n4["rel_id"] = 1 /\ n4[f] = Len(m[f])
       /\ \A g \in Fields : g # "rel_id" /\ g # "tags" /\ g # f => n4[g] = 0
  BY SMTT(30), <1>2, <1>22, <1>27 DEF More, Fields
<1>29. /\ n5 \in [Fields -> Nat] /\ n5["tags"] = 2 /\ n5["rel_id"] = 1 /\ n5[f] = Len(m[f])
       /\ n5["new"] = Len(m["new"])
       /\ \A g \in Fields : g # "rel_id" /\ g # "tags" /\ g # f /\ g # "new" => n5[g] = 0
  BY <1>2, <1>23, <1>24, <1>28 DEF Counts, Fields
<1>30. Complete(m, n5)
  <2>1. Len(m["tags"]) = 2
    OBVIOUS
  <2>2. Len(m["rel_id"]) = 1
    BY <1>1 DEF OneInt, One
  <2>3. \A g \in Tuples : g # f /\ g # "new" => Len(m[g]) = 0
    BY DEF Tuples
  <2>4. \A g \in Fields : n5[g] = Len(m[g])
    BY <1>1, <1>29, <2>1, <2>2, <2>3
  <2> QED
    BY <1>29, <2>4 DEF Complete
<1>31. PICK q : q = 4 + Len(d)
  OBVIOUS
<1>32. q + Len(b) = Len(w)
  BY <1>18, <1>19, <1>31
<1>33. PICK e : e = <<>>
  OBVIOUS
<1>34. Good("U", w, m, q + Len(b), e, n5)
  BY <1>1, <1>30, <1>32, <1>33, MessageGood
<1>35. PICK s : s = <<ReadTag({"N"}, "tags")>>
  OBVIOUS
<1>36. /\ Then(Announced("U", c), ReadTuple(TupleField(c)), <<ReadTag({"N"}, "tags")>>)
       /\ Then(<<ReadTag({"N"}, "tags")>>, ReadTag({"N"}, "tags"), <<>>)
  BY AnnouncedBefore
<1>37. Then(Announced("U", c), ReadTuple(f), s) /\ Then(s, ReadTag({"N"}, "tags"), <<>>)
  BY <1>35, <1>36
<1>38. Good("U", w, m, q, s, n3)
  <2>1. PICK a : a = "N"
    OBVIOUS
  <2>2. PICK g : g = "new"
    OBVIOUS
  <2>3. NextIs(m, n3, "tags", a)
    <3>1. n3["tags"] + 1 = 2 /\ m["tags"][2] = "N" /\ "tags" \in Fields
      BY <1>27 DEF Fields
    <3> QED
      BY <1>27, <2>1, <3>1 DEF NextIs
  <2>4. g \in Fields /\ g # "tags" /\ n3[g] = 0
    BY <1>2, <1>27, <2>2 DEF Fields
  <2>5. IsTuple(b, a, m, g) /\ InPlace(w, q, b) /\ a \in {"N"} /\ "b" \notin {"N"}
    BY <1>6, <1>19, <1>31, <2>1, <2>2
  <2>6. Then(Announced("U", a), ReadTuple(g), e)
    <3>1. a \in {"K", "O", "N"} /\ "U" = "U" => a = "N"
      BY <2>1
    <3>2. Then(Announced("U", a), ReadTuple(TupleField(a)), <<>>)
      BY <2>1, AnnouncedAlone
    <3>3. TupleField(a) = g
      BY <2>1, <2>2, TagsAre
    <3> QED
      BY <1>33, <3>2, <3>3
  <2>7. Good("U", w, m, q + Len(b), e, Counts(More(n3, "tags"), g, Len(m[g])))
    BY <1>22, <1>23, <1>34, <2>2
  <2> QED
    BY <1>37, <2>3, <2>4, <2>5, <2>6, <2>7, TupleTaken
<1>39. Good("U", w, m, 4, t1, n1)
  <2>1. PICK p : p = 4
    OBVIOUS
  <2>2. NextIs(m, n1, "tags", c)
    <3>1. n1["tags"] + 1 = 1 /\ m["tags"][1] = c /\ "tags" \in Fields
      BY <1>25 DEF Fields
    <3> QED
      BY <1>25, <3>1 DEF NextIs
  <2>3. InPlace(w, p, d) /\ c \in T /\ "b" \notin T
    BY <1>11, <1>12, <1>19, <2>1
  <2>4. Good("U", w, m, p + Len(d), s, Counts(More(n1, "tags"), f, Len(m[f])))
    BY <1>20, <1>21, <1>31, <1>38, <2>1
  <2>5. Good("U", w, m, p, t1, n1)
    BY <1>2, <1>4, <1>14, <1>25, <1>37, <2>2, <2>3, <2>4, TupleTaken
  <2> QED
    BY <2>1, <2>5
<1> QED
  BY <1>15, <1>18, <1>39

(* Which submessages a row message has.                                    *)
LEMMA RowTags ==
    ASSUME NEW k \in {"I", "U", "D"}, NEW m, WellFormed(k, m)
    PROVE  /\ k = "I" => m["tags"] = <<"N">>
           /\ k = "U" => \/ m["tags"] = <<"N">> \/ m["tags"] = <<"K", "N">>
                         \/ m["tags"] = <<"O", "N">>
           /\ k = "D" => m["tags"] = <<"K">> \/ m["tags"] = <<"O">>
<1>1. k = "I" => m["tags"] = <<"N">>
  BY DEF WellFormed
<1>2. k = "U" => m["tags"] \in {<<"N">>, <<"K", "N">>, <<"O", "N">>}
  BY DEF WellFormed
<1>3. k = "D" => m["tags"] \in {<<"K">>, <<"O">>}
  BY DEF WellFormed
<1> QED
  BY <1>1, <1>2, <1>3

(* With one submessage, the other tuples are empty.                        *)
LEMMA LastTupleOnly ==
    ASSUME NEW k \in {"I", "U", "D"}, NEW m, WellFormed(k, m), NEW c, c \in {"K", "O", "N"},
           m["tags"] = <<c>>, k = "I" => c = "N", k = "U" => c = "N",
           k = "D" => c \in {"K", "O"}
    PROVE  \A g \in Tuples : g # TupleField(c) => Len(m[g]) = 0
<1>1. /\ k = "I" => Len(m["key"]) = 0 /\ Len(m["old"]) = 0
      /\ k = "D" => Len(m["new"]) = 0
  BY RowFields
<1>2. /\ (\A i \in DOMAIN m["tags"] : m["tags"][i] # "K") => Len(m["key"]) = 0
      /\ (\A i \in DOMAIN m["tags"] : m["tags"][i] # "O") => Len(m["old"]) = 0
  BY NoTuple
<1>3. PICK s : s = m["tags"]
  OBVIOUS
<1>4. \A i \in DOMAIN s : s[i] = c
  <2>1. s = <<c>>
    BY <1>3
  <2> QED
    BY <2>1
<1>5. (c # "K" => Len(m["key"]) = 0) /\ (c # "O" => Len(m["old"]) = 0)
  BY <1>2, <1>3, <1>4
<1> QED
  BY <1>1, <1>5 DEF Tuples, TupleField

(* Every row message is read.                                              *)
LEMMA RowGood ==
    ASSUME NEW k \in {"I", "U", "D"}, NEW m, WellFormed(k, m), NEW w, w = RowBytes(m)
    PROVE  w \in Seq(Byte) /\ Good(k, w, m, 0, Decoders[k], Zero)
<1>1. /\ k = "I" => m["tags"] = <<"N">>
      /\ k = "U" => \/ m["tags"] = <<"N">> \/ m["tags"] = <<"K", "N">> \/ m["tags"] = <<"O", "N">>
      /\ k = "D" => m["tags"] = <<"K">> \/ m["tags"] = <<"O">>
  BY RowTags
<1>2. /\ Decoders["I"] = <<ReadInt(4, "rel_id"), ReadTag({"N"}, "tags")>>
      /\ Decoders["U"] = <<ReadInt(4, "rel_id"), ReadTag({"K", "O", "N"}, "tags")>>
      /\ Decoders["D"] = <<ReadInt(4, "rel_id"), ReadTag({"K", "O"}, "tags")>>
  BY DEF Decoders, UpdateTags
<1>3. ASSUME NEW c \in {"K", "O", "N"}, m["tags"] = <<c>>, k = "I" => c = "N", k = "U" => c = "N",
             k = "D" => c \in {"K", "O"}, NEW T, c \in T, RowDecoder(k, T)
      PROVE  w \in Seq(Byte) /\ Good(k, w, m, 0, Decoders[k], Zero)
  <2>1. PICK f : f = TupleField(c)
    OBVIOUS
  <2>2. f \in Tuples /\ f = SentField(c)
    BY <1>3, <2>1, TagsAre DEF Tuples
  <2>3. \A g \in Tuples : g # f => Len(m[g]) = 0
    BY <1>3, <2>1, LastTupleOnly
  <2>4. OnlyTuple(m, c, f)
    BY <1>3, <2>1, <2>2, <2>3 DEF OnlyTuple
  <2> QED
    BY <1>3, <2>4, OneTupleGood
<1>4. ASSUME NEW c \in {"K", "O"}, m["tags"] = <<c, "N">>, k = "U"
      PROVE  w \in Seq(Byte) /\ Good("U", w, m, 0, Decoders["U"], Zero)
  <2>1. PICK f : f = TupleField(c)
    OBVIOUS
  <2>2. f \in {"key", "old"} /\ f = SentField(c)
    BY <1>4, <2>1, TagsAre
  <2>3. PICK s : s = m["tags"]
    OBVIOUS
  <2>4. \A i \in DOMAIN s : s[i] = c \/ s[i] = "N"
    <3>1. s = <<c, "N">>
      BY <1>4, <2>3
    <3> QED
      BY <3>1
  <2>5. /\ (\A i \in DOMAIN m["tags"] : m["tags"][i] # "K") => Len(m["key"]) = 0
        /\ (\A i \in DOMAIN m["tags"] : m["tags"][i] # "O") => Len(m["old"]) = 0
    BY NoTuple
  <2>6. \A g \in {"key", "old"} : g # f => Len(m[g]) = 0
    BY <1>4, <2>1, <2>3, <2>4, <2>5 DEF TupleField
  <2>7. WellFormed("U", m)
    BY <1>4
  <2> QED
    BY <1>4, <2>1, <2>2, <2>6, <2>7, TwoTuplesGood
<1>5. CASE k = "I"
  <2>1. PICK T : T = {"N"}
    OBVIOUS
  <2>2. "N" \in T /\ m["tags"] = <<"N">>
    BY <1>1, <1>5, <2>1
  <2>3. RowDecoder(k, T)
    BY <1>2, <1>5, <2>1 DEF RowDecoder
  <2> QED
    BY <1>3, <1>5, <2>2, <2>3
<1>6. CASE k = "D"
  <2>1. PICK T : T = {"K", "O"}
    OBVIOUS
  <2>2. "K" \in T /\ "O" \in T
    BY <2>1
  <2>3. RowDecoder(k, T)
    BY <1>2, <1>6, <2>1 DEF RowDecoder
  <2> QED
    BY <1>1, <1>3, <1>6, <2>2, <2>3
<1>7. CASE k = "U"
  <2>1. CASE m["tags"] = <<"N">>
    <3>1. PICK T : T = {"K", "O", "N"}
      OBVIOUS
    <3>2. RowDecoder(k, T) /\ "N" \in T
      BY <1>2, <1>7, <3>1 DEF RowDecoder
    <3> QED
      BY <1>3, <1>7, <2>1, <3>2
  <2>2. CASE m["tags"] # <<"N">>
    BY <1>1, <1>4, <1>7, <2>2
  <2> QED
    BY <2>1, <2>2
<1> QED
  BY <1>5, <1>6, <1>7

(* Every message is read: what the server encodes leads the decoder,       *)
(* undisturbed, to what it encoded.                                        *)
LEMMA EncodedGood ==
    ASSUME NEW k \in Kinds, NEW m, WellFormed(k, m), NEW w, w = Encoded(k, m)
    PROVE  w \in Seq(Byte) /\ Good(k, w, m, 0, Decoders[k], Zero)
<1>1. k \in {"B", "C", "O", "Y", "R", "T", "I", "U", "D"}
  BY DEF Kinds, FieldsOf
<1>2. CASE k = "B"
  <2>1. w = BeginBytes(m)
    BY <1>2, Zenon DEF Encoded
  <2> QED
    BY <1>2, <2>1, BeginGood
<1>3. CASE k = "C"
  <2>1. w = CommitBytes(m)
    BY <1>3, Zenon DEF Encoded
  <2> QED
    BY <1>3, <2>1, CommitGood
<1>4. CASE k = "O"
  <2>1. w = OriginBytes(m)
    BY <1>4, Zenon DEF Encoded
  <2> QED
    BY <1>4, <2>1, OriginGood
<1>5. CASE k = "Y"
  <2>1. w = TypeBytes(m)
    BY <1>5, Zenon DEF Encoded
  <2> QED
    BY <1>5, <2>1, TypeGood
<1>6. CASE k = "R"
  <2>1. w = RelationBytes(m)
    BY <1>6, Zenon DEF Encoded
  <2> QED
    BY <1>6, <2>1, RelationGood
<1>7. CASE k = "T"
  <2>1. w = TruncateBytes(m)
    BY <1>7, Zenon DEF Encoded
  <2> QED
    BY <1>7, <2>1, TruncateGood
<1>8. CASE k \in {"I", "U", "D"}
  <2>1. w = RowBytes(m)
    BY <1>8, Zenon DEF Encoded
  <2> QED
    BY <1>8, <2>1, RowGood
<1> QED
  BY <1>1, <1>2, <1>3, <1>4, <1>5, <1>6, <1>7, <1>8

-----------------------------------------------------------------------------
(* The decoder itself.                                                     *)

(* The bytes the server sent.                                              *)
Wire == Encoded(kind, sent)

(* A buffer differs from them by being shorter or by a foreign tag,        *)
(* exactly when it is not whole.                                           *)
BufferSound ==
    /\ kind \in Kinds /\ WellFormed(kind, sent)
    /\ Len(buf) \in Nat /\ Len(buf) <= Len(Wire)
    /\ \A i \in 1 .. Len(buf) : buf[i] = Wire[i] \/ (Wire[i].tag /\ buf[i] = Tag("b"))
    /\ whole => buf = Wire
    /\ ~ whole => Len(buf) # Len(Wire) \/ \E i \in 1 .. Len(buf) : buf[i] # Wire[i]

(* What was read is as it was sent, and the way to the message is still    *)
(* open: from the bytes as sent, not from the buffer.                      *)
CursorSound ==
    /\ pos \in Nat /\ pos <= Len(buf)
    /\ \A i \in 1 .. pos : buf[i] = Wire[i]
    /\ outcome = "reading" => Reaches(kind, Wire, sent, At(pos, todo, got))

(* That is what keeps a decoder from returning anything else, and from     *)
(* refusing a message.                                                     *)
DecoderIInv == BufferSound /\ CursorSound /\ DecodesWhatWasSent /\ RefusesOnlyTheBroken

(* No foreign tag is sent, and what is sent can be read.                   *)
LEMMA WireIs ==
    ASSUME NEW k \in Kinds, NEW m, WellFormed(k, m), NEW w, w = Encoded(k, m)
    PROVE  /\ Len(w) \in Nat /\ DOMAIN w = 1 .. Len(w)
           /\ \A i \in 1 .. Len(w) : w[i].tag => w[i] # Tag("b")
           /\ Reaches(k, w, m, At(0, Decoders[k], Nothing))
<1>1. w \in Seq(Byte) /\ Good(k, w, m, 0, Decoders[k], Zero)
  BY EncodedGood
<1>2. Len(w) \in Nat /\ DOMAIN w = 1 .. Len(w) /\ \A i \in 1 .. Len(w) : w[i] \in Byte
  BY <1>1, LenProperties, ElementOfSeq
<1>3. \A y \in Byte : y.tag => y # Tag("b")
  <2>1. \A c \in Known : Tag(c).char = c
    BY DEF Tag
  <2>2. Tag("b").char = "b" /\ "b" \notin Known /\ Tag("b").tag = TRUE
    BY DEF Tag, Known
  <2> QED
    BY <2>1, <2>2 DEF Byte
<1>4. Reaches(k, w, m, At(0, Decoders[k], Nothing))
  BY <1>1, NothingRead DEF Good
<1> QED
  BY <1>2, <1>3, <1>4

(* It holds of every buffer.                                               *)
LEMMA DecoderStarts ==
    ASSUME DecoderInit
    PROVE  DecoderIInv
<1>1. kind \in Kinds /\ WellFormed(kind, sent)
  BY DecoderAssumption DEF DecoderInit
<1>2. PICK w : w = Wire
  OBVIOUS
<1>3. /\ Len(w) \in Nat /\ DOMAIN w = 1 .. Len(w)
      /\ \A i \in 1 .. Len(w) : w[i].tag => w[i] # Tag("b")
      /\ Reaches(kind, w, sent, At(0, Decoders[kind], Nothing))
  BY <1>1, <1>2, WireIs DEF Wire
<1>4. w \in Seq(Byte)
  BY <1>1, <1>2, EncodedGood DEF Wire
<1>5. CursorSound /\ DecodesWhatWasSent /\ RefusesOnlyTheBroken
  <2>1. pos = 0 /\ todo = Decoders[kind] /\ got = Nothing /\ outcome = "reading"
    BY DEF DecoderInit
  <2>2. Len(buf) \in Nat
    <3>1. CASE buf = w
      BY <1>3, <3>1
    <3>2. CASE \E n \in 0 .. Len(w) - 1 : buf = SubSeq(w, 1, n)
      BY <1>3, <1>4, <3>2
    <3>3. CASE \E i \in {j \in DOMAIN w : w[j].tag} : buf = [w EXCEPT ![i] = Tag("b")]
      <4>1. DOMAIN buf = 1 .. Len(w)
        BY <1>3, <3>3
      <4> QED
        BY <1>3, <4>1
    <3> QED
      BY <1>2, <3>1, <3>2, <3>3 DEF DecoderInit, Wire
  <2> QED
    BY <1>2, <1>3, <2>1, <2>2 DEF CursorSound, DecodesWhatWasSent, RefusesOnlyTheBroken
<1>6. CASE whole = TRUE /\ buf = w
  <2>1. BufferSound
    BY <1>1, <1>2, <1>3, <1>6 DEF BufferSound
  <2> QED
    BY <1>5, <2>1 DEF DecoderIInv
<1>7. CASE whole = FALSE /\ \E n \in 0 .. Len(w) - 1 : buf = SubSeq(w, 1, n)
  <2>1. PICK n \in 0 .. Len(w) - 1 : buf = SubSeq(w, 1, n)
    BY <1>7
  <2>2. n \in Nat /\ n < Len(w)
    BY <1>3
  <2>3. Len(buf) = n /\ \A i \in 1 .. n : buf[i] = w[i]
    BY <1>3, <1>4, <2>1, <2>2
  <2>4. BufferSound
    <3>1. \A i \in 1 .. Len(buf) : buf[i] = w[i]
      BY <2>3
    <3>2. Len(buf) \in Nat /\ Len(buf) <= Len(w) /\ Len(buf) # Len(w)
      <4>1. Len(buf) = n
        BY <2>3
      <4>2. PICK l : l = Len(w)
        OBVIOUS
      <4>3. l \in Nat /\ n \in Nat /\ n < l
        BY <1>3, <2>2, <4>2
      <4>4. n <= l /\ n # l
        BY <4>3
      <4> QED
        BY <4>1, <4>2, <4>3, <4>4
    <3> QED
      BY <1>1, <1>2, <1>7, <3>1, <3>2 DEF BufferSound
  <2> QED
    BY <1>5, <2>4 DEF DecoderIInv
<1>8. CASE whole = FALSE /\ \E i \in {j \in DOMAIN w : w[j].tag} : buf = [w EXCEPT ![i] = Tag("b")]
  <2>1. PICK i \in {j \in DOMAIN w : w[j].tag} : buf = [w EXCEPT ![i] = Tag("b")]
    BY <1>8
  <2>2. i \in 1 .. Len(w) /\ w[i].tag /\ w[i] # Tag("b")
    BY <1>3, <2>1
  <2>3. PICK b : b = Tag("b")
    OBVIOUS
  <2>4. DOMAIN buf = 1 .. Len(w) /\ buf[i] = b /\ \A j \in 1 .. Len(w) : j # i => buf[j] = w[j]
    BY <1>3, <2>1, <2>2, <2>3
  <2>5. Len(buf) = Len(w)
    <3>1. buf \in Seq(Byte \cup {b})
      <4>1. \A j \in 1 .. Len(w) : w[j] \in Byte
        BY <1>4, ElementOfSeq
      <4>2. \A j \in 1 .. Len(w) : buf[j] \in Byte \cup {b}
        BY <2>4, <4>1
      <4>3. buf = [j \in 1 .. Len(w) |-> buf[j]]
        BY <2>1, <2>4
      <4>4. [j \in 1 .. Len(w) |-> buf[j]] \in Seq(Byte \cup {b})
        BY <1>3, <4>2, IsASeq
      <4> QED
        BY <4>3, <4>4
    <3> QED
      BY <1>3, <2>4, <3>1, LenProperties
  <2>6. \E j \in 1 .. Len(buf) : buf[j] # w[j]
    BY <2>2, <2>3, <2>4, <2>5
  <2>7. \A j \in 1 .. Len(buf) : buf[j] = w[j] \/ (w[j].tag /\ buf[j] = b)
    BY <2>2, <2>4, <2>5
  <2>8. BufferSound
    BY <1>1, <1>2, <1>3, <1>8, <2>3, <2>5, <2>6, <2>7 DEF BufferSound
  <2> QED
    BY <1>5, <2>8 DEF DecoderIInv
<1> QED
  BY <1>2, <1>6, <1>7, <1>8 DEF DecoderInit, Wire

(* A step is the one of the item that comes next.                          *)
LEMMA StepByRead ==
    ASSUME NEW k, NEW w, NEW s, NEW u, Step(k, w, s, u), NEW r, r = Head(s.todo).read
    PROVE  /\ r = "int" => IntStep(w, s, u)
           /\ r = "cstring" => StringStep(w, s, u)
           /\ r = "tag" => TagStep(k, w, s, u)
           /\ r = "count" => CountStep(w, s, u)
           /\ r = "column" => ShortStep(w, s, u) \/ TextStep(w, s, u)
           /\ r = "loop" => LoopStep(s, u)
           /\ r \in {"int", "cstring", "tag", "count", "column", "loop"}
<1>1. IntStep(w, s, u) => r = "int"
  BY DEF IntStep
<1>2. StringStep(w, s, u) => r = "cstring"
  BY DEF StringStep
<1>3. TagStep(k, w, s, u) => r = "tag"
  BY DEF TagStep
<1>4. CountStep(w, s, u) => r = "count"
  BY DEF CountStep
<1>5. ShortStep(w, s, u) => r = "column"
  BY DEF ShortStep
<1>6. TextStep(w, s, u) => r = "column"
  BY DEF TextStep
<1>7. LoopStep(s, u) => r = "loop"
  BY DEF LoopStep
<1>8. \/ IntStep(w, s, u) \/ StringStep(w, s, u) \/ TagStep(k, w, s, u) \/ CountStep(w, s, u)
      \/ ShortStep(w, s, u) \/ TextStep(w, s, u) \/ LoopStep(s, u)
  BY DEF Step
<1> QED
  BY <1>1, <1>2, <1>3, <1>4, <1>5, <1>6, <1>7, <1>8

(* While there is something to read, the way goes on.                      *)
LEMMA NextRead ==
    ASSUME DecoderIInv, outcome = "reading", todo # <<>>, NEW w, w = Wire,
           NEW s, s = At(pos, todo, got)
    PROVE  \E u : Step(kind, w, s, u) /\ Reaches(kind, w, sent, u)
<1>1. Reaches(kind, w, sent, s)
  BY DEF DecoderIInv, CursorSound
<1>2. s # Final(w, sent)
  <2>1. s.todo = todo
    BY AtFields
  <2>2. Final(w, sent).todo = <<>>
    BY AtFields DEF Final
  <2> QED
    BY <2>1, <2>2
<1> QED
  BY <1>1, <1>2, ReachesFirst

(* A byte that is no tag, or no foreign one, is as it was sent.            *)
LEMMA Unspoiled ==
    ASSUME BufferSound, NEW w, w = Wire, NEW i \in 1 .. Len(buf)
    PROVE  /\ ~ w[i].tag => buf[i] = w[i]
           /\ buf[i].char # "b" => buf[i] = w[i]
<1>1. buf[i] = w[i] \/ (w[i].tag /\ buf[i] = Tag("b"))
  BY DEF BufferSound
<1>2. Tag("b").char = "b"
  BY DEF Tag
<1> QED
  BY <1>1, <1>2

(* The same for the bytes of a read without tags.                          *)
LEMMA PlainKept ==
    ASSUME BufferSound, NEW w, w = Wire, NEW p \in Nat, NEW q \in Nat, Plain(w, p, q),
           q <= Len(buf)
    PROVE  \A i \in p + 1 .. q : i \in 1 .. Len(buf) /\ buf[i] = w[i]
<1> SUFFICES ASSUME NEW i \in p + 1 .. q
             PROVE  i \in 1 .. Len(buf) /\ buf[i] = w[i]
  OBVIOUS
<1>1. i \in 1 .. Len(buf)
  BY DEF BufferSound
<1>2. ~ w[i].tag
  BY DEF Plain
<1> QED
  BY <1>1, <1>2, Unspoiled

(* What no read changes.                                                   *)
Kept == UNCHANGED <<inputVars, outcome>>

(* A read that follows the way leaves the invariant.                       *)
LEMMA Moved ==
    ASSUME DecoderIInv, outcome = "reading", Kept, NEW n \in Nat, pos' = pos + n,
           pos + n <= Len(buf), NEW w, w = Wire, \A i \in pos + 1 .. pos + n : buf[i] = w[i],
           NEW u, Reaches(kind, w, sent, u), u = At(pos', todo', got')
    PROVE  DecoderIInv'
<1>1. kind' = kind /\ sent' = sent /\ whole' = whole /\ buf' = buf /\ outcome' = outcome
  BY DEF Kept, inputVars
<1>2. Wire' = w
  BY <1>1 DEF Wire
<1>3. BufferSound'
  BY <1>1, <1>2 DEF BufferSound, DecoderIInv
<1>4. CursorSound'
  <2>1. pos \in Nat /\ pos <= Len(buf) /\ \A i \in 1 .. pos : buf[i] = w[i]
    BY DEF DecoderIInv, CursorSound
  <2>2. pos' \in Nat /\ pos' <= Len(buf)
    BY <2>1
  <2>3. \A i \in 1 .. pos' : buf[i] = w[i]
    <3>1. \A i \in 1 .. pos' : i \in 1 .. pos \/ i \in pos + 1 .. pos + n
      BY <2>1
    <3> QED
      BY <2>1, <3>1
  <2>4. Reaches(kind, w, sent, At(pos', todo', got'))
    OBVIOUS
  <2> QED
    BY <1>1, <1>2, <2>2, <2>3, <2>4 DEF CursorSound
<1>5. DecodesWhatWasSent' /\ RefusesOnlyTheBroken'
  BY <1>1 DEF DecodesWhatWasSent, RefusesOnlyTheBroken
<1> QED
  BY <1>3, <1>4, <1>5 DEF DecoderIInv

(* And so does an outcome that is right.                                   *)
LEMMA Ended ==
    ASSUME DecoderIInv, UNCHANGED <<inputVars, pos, todo, got>>, outcome' # "reading",
           outcome' = "message" => whole /\ got = sent, outcome' = "ProtocolError" => ~ whole
    PROVE  DecoderIInv'
<1>1. kind' = kind /\ sent' = sent /\ whole' = whole /\ buf' = buf /\ pos' = pos /\ got' = got
  BY DEF inputVars
<1>2. Wire' = Wire
  BY <1>1 DEF Wire
<1>3. BufferSound'
  BY <1>1, <1>2 DEF BufferSound, DecoderIInv
<1>4. CursorSound'
  BY <1>1, <1>2 DEF CursorSound, DecoderIInv
<1>5. DecodesWhatWasSent' /\ RefusesOnlyTheBroken'
  BY <1>1 DEF DecodesWhatWasSent, RefusesOnlyTheBroken
<1> QED
  BY <1>3, <1>4, <1>5 DEF DecoderIInv

(* With nothing left to read the message is complete, so that nothing can  *)
(* be missing from the buffer and nothing in it be foreign.                *)
LEMMA ReturnKeeps ==
    ASSUME DecoderIInv, Return
    PROVE  DecoderIInv'
<1>1. PICK w : w = Wire
  OBVIOUS
<1>2. PICK s : s = At(pos, todo, got)
  OBVIOUS
<1>3. Reaches(kind, w, sent, s)
  BY <1>1, <1>2 DEF DecoderIInv, CursorSound, Return
<1>4. s = Final(w, sent)
  <2>1. s.todo = <<>>
    BY <1>2, AtFields DEF Return
  <2>2. \A u : ~ Step(kind, w, s, u)
    BY <2>1 DEF Step
  <2> QED
    BY <1>3, <2>2, ReachesFirst
<1>5. pos = Len(w) /\ got = sent
  <2>1. s.pos = pos /\ s.got = got
    BY <1>2, AtFields
  <2>2. Final(w, sent).pos = Len(w) /\ Final(w, sent).got = sent
    BY AtFields DEF Final
  <2> QED
    BY <1>4, <2>1, <2>2
<1>6. whole
  <2>1. /\ pos <= Len(buf) /\ Len(buf) <= Len(w) /\ Len(buf) \in Nat /\ pos \in Nat
        /\ \A i \in 1 .. pos : buf[i] = w[i]
        /\ ~ whole => Len(buf) # Len(w) \/ \E i \in 1 .. Len(buf) : buf[i] # w[i]
    BY <1>1 DEF DecoderIInv, BufferSound, CursorSound
  <2>2. Len(buf) = pos /\ Len(buf) = Len(w)
    BY <1>5, <2>1
  <2> QED
    BY <2>1, <2>2
<1>7. outcome' = "message" /\ UNCHANGED <<inputVars, pos, todo, got>>
  BY DEF Return
<1> QED
  BY <1>5, <1>6, <1>7, Ended

(* A read of a whole buffer cannot fail.                                   *)
LEMMA RaiseKeeps ==
    ASSUME DecoderIInv, Raise
    PROVE  DecoderIInv'
<1>1. PICK w : w = Wire
  OBVIOUS
<1>2. PICK s : s = At(pos, todo, got)
  OBVIOUS
<1>3. /\ outcome = "reading" /\ todo # <<>> /\ Head(todo).read # "loop"
      /\ ~ IntThere /\ ~ StringThere /\ ~ TagThere /\ ~ CountThere /\ ~ ShortThere /\ ~ TextThere
      /\ outcome' = "ProtocolError" /\ UNCHANGED <<inputVars, pos, todo, got>>
  BY DEF Raise
<1>4. PICK u : Step(kind, w, s, u)
  BY <1>1, <1>2, <1>3, NextRead
<1>5. s.pos = pos /\ s.todo = todo
  BY <1>2, AtFields
<1>6. PICK h : h = Head(todo)
  OBVIOUS
<1>7. PICK r : r = Head(s.todo).read
  OBVIOUS
<1>8. r = h.read
  BY <1>5, <1>6, <1>7
<1>9. /\ r = "int" => IntStep(w, s, u)
      /\ r = "cstring" => StringStep(w, s, u)
      /\ r = "tag" => TagStep(kind, w, s, u)
      /\ r = "count" => CountStep(w, s, u)
      /\ r = "column" => ShortStep(w, s, u) \/ TextStep(w, s, u)
      /\ r \in {"int", "cstring", "tag", "count", "column", "loop"}
  BY <1>4, <1>7, StepByRead
<1>10. pos \in Nat
  BY DEF DecoderIInv, CursorSound
<1>11. ASSUME whole
       PROVE  FALSE
  <2>1. buf = w
    BY <1>1, <1>11 DEF DecoderIInv, BufferSound
  <2>2. CASE r = "int"
    BY <1>3, <1>5, <1>6, <1>8, <1>9, <2>1, <2>2 DEF IntStep, IntThere, Reading, There
  <2>3. CASE r = "cstring"
    BY <1>3, <1>5, <1>6, <1>8, <1>9, <2>1, <2>3 DEF StringStep, StringThere, StringEnds, Reading
  <2>4. CASE r = "tag"
    BY <1>3, <1>5, <1>6, <1>8, <1>9, <2>1, <2>4 DEF TagStep, TagThere, Here, Reading, There
  <2>5. CASE r = "count"
    BY <1>3, <1>5, <1>6, <1>8, <1>9, <2>1, <2>5 DEF CountStep, CountThere, Reading, There
  <2>6. CASE r = "column" /\ ShortStep(w, s, u)
    BY <1>3, <1>5, <1>6, <1>8, <2>1, <2>6 DEF ShortStep, ShortThere, Here, Reading, There
  <2>7. CASE r = "column" /\ TextStep(w, s, u)
    <3>1. PICK l : l = w[pos + 2].int
      OBVIOUS
    <3>2. l \in Nat /\ pos + 5 + l <= Len(w) /\ w[pos + 1].char = "t"
      BY <1>5, <2>7, <3>1 DEF TextStep
    <3>3. Len(w) \in Nat
      BY <1>1, <2>1 DEF DecoderIInv, BufferSound
    <3>4. pos + 1 <= Len(w) /\ pos + 5 <= Len(w) /\ pos + (5 + l) <= Len(w)
      BY <1>10, <3>2, <3>3
    <3>5. TextThere
      BY <1>3, <1>6, <1>8, <2>1, <2>7, <3>1, <3>2, <3>4 DEF TextThere, Here, Reading, There
    <3> QED
      BY <1>3, <3>5
  <2>8. r # "loop"
    BY <1>3, <1>6, <1>8
  <2> QED
    BY <1>9, <2>2, <2>3, <2>4, <2>5, <2>6, <2>7, <2>8
<1> QED
  BY <1>3, <1>11, Ended

(* What an action that takes a field in leaves.                            *)
LEMMA TookAt ==
    ASSUME NEW n, NEW v, NEW then, Took(n, v, then), NEW s, s = At(pos, todo, got)
    PROVE  /\ Kept /\ pos' = pos + n
           /\ At(pos', todo', got') = TookIn(s, n, v, then)
<1>1. s.pos = pos /\ s.todo = todo /\ s.got = got
  BY AtFields
<1>2. /\ pos' = pos + n /\ todo' = then \o Tail(todo)
      /\ got' = [got EXCEPT ![Head(todo).field] = Append(@, v)]
  BY DEF Took
<1>3. Kept
  BY DEF Took, Kept
<1> QED
  BY <1>1, <1>2, <1>3 DEF TookIn

(* An integer has no tag in it: it is as it was sent.                      *)
LEMMA TakeIntKeeps ==
    ASSUME DecoderIInv, TakeInt
    PROVE  DecoderIInv'
<1>1. PICK w : w = Wire
  OBVIOUS
<1>2. PICK s : s = At(pos, todo, got)
  OBVIOUS
<1>3. PICK h : h = Head(todo)
  OBVIOUS
<1>4. outcome = "reading" /\ todo # <<>> /\ h.read = "int" /\ pos + h.width <= Len(buf)
  BY <1>3 DEF TakeInt, IntThere, Reading, There
<1>5. Took(h.width, Here.int, <<>>)
  BY <1>3 DEF TakeInt
<1>6. s.pos = pos /\ s.todo = todo
  BY <1>2, AtFields
<1>7. PICK u : Step(kind, w, s, u) /\ Reaches(kind, w, sent, u)
  BY <1>1, <1>2, <1>4, NextRead
<1>8. IntStep(w, s, u)
  BY <1>3, <1>4, <1>6, <1>7, StepByRead
<1>9. PICK n : n = h.width
  OBVIOUS
<1>10. /\ n \in Nat \ {0} /\ Plain(w, pos, pos + n)
       /\ u = TookIn(s, n, w[pos + 1].int, <<>>)
  BY <1>3, <1>6, <1>8, <1>9 DEF IntStep
<1>11. pos \in Nat /\ BufferSound
  BY DEF DecoderIInv, CursorSound
<1>12. \A i \in pos + 1 .. pos + n : i \in 1 .. Len(buf) /\ buf[i] = w[i]
  BY <1>1, <1>4, <1>9, <1>10, <1>11, PlainKept
<1>13. Here = w[pos + 1]
  <2>1. pos + 1 \in pos + 1 .. pos + n
    BY <1>10, <1>11
  <2> QED
    BY <1>12, <2>1 DEF Here
<1>14. Took(n, w[pos + 1].int, <<>>)
  BY <1>5, <1>9, <1>13
<1>15. Kept /\ pos' = pos + n /\ At(pos', todo', got') = u
  BY <1>2, <1>10, <1>14, TookAt
<1>16. n \in Nat /\ pos + n <= Len(buf)
  BY <1>4, <1>9, <1>10
<1> QED
  BY <1>1, <1>4, <1>7, <1>12, <1>15, <1>16, Moved

(* A count too.                                                            *)
LEMMA TakeCountKeeps ==
    ASSUME DecoderIInv, TakeCount
    PROVE  DecoderIInv'
<1>1. PICK w : w = Wire
  OBVIOUS
<1>2. PICK s : s = At(pos, todo, got)
  OBVIOUS
<1>3. PICK h : h = Head(todo)
  OBVIOUS
<1>4. outcome = "reading" /\ todo # <<>> /\ h.read = "count" /\ pos + h.width <= Len(buf)
  BY <1>3 DEF TakeCount, CountThere, Reading, There
<1>5. s.pos = pos /\ s.todo = todo /\ s.got = got
  BY <1>2, AtFields
<1>6. PICK u : Step(kind, w, s, u) /\ Reaches(kind, w, sent, u)
  BY <1>1, <1>2, <1>4, NextRead
<1>7. CountStep(w, s, u)
  BY <1>3, <1>4, <1>5, <1>6, StepByRead
<1>8. PICK n : n = h.width
  OBVIOUS
<1>9. /\ n \in Nat \ {0} /\ Plain(w, pos, pos + n)
      /\ u = At(pos + n, h.once \o <<Loop(w[pos + 1].int, h.each)>> \o Tail(todo), got)
  BY <1>3, <1>5, <1>7, <1>8 DEF CountStep
<1>10. pos \in Nat /\ BufferSound
  BY DEF DecoderIInv, CursorSound
<1>11. \A i \in pos + 1 .. pos + n : i \in 1 .. Len(buf) /\ buf[i] = w[i]
  BY <1>1, <1>4, <1>8, <1>9, <1>10, PlainKept
<1>12. Here = w[pos + 1]
  <2>1. pos + 1 \in pos + 1 .. pos + n
    BY <1>9, <1>10
  <2> QED
    BY <1>11, <2>1 DEF Here
<1>13. /\ Kept /\ pos' = pos + n /\ got' = got
       /\ todo' = h.once \o <<Loop(Here.int, h.each)>> \o Tail(todo)
  BY <1>3, <1>8 DEF TakeCount, Kept
<1>14. At(pos', todo', got') = u
  BY <1>9, <1>12, <1>13
<1>15. n \in Nat /\ pos + n <= Len(buf)
  BY <1>4, <1>8, <1>9
<1> QED
  BY <1>1, <1>4, <1>6, <1>11, <1>13, <1>14, <1>15, Moved

(* No decoder expects a foreign tag: one that is read is as it was sent.   *)
LEMMA TakeTagKeeps ==
    ASSUME DecoderIInv, TakeTag
    PROVE  DecoderIInv'
<1>1. PICK w : w = Wire
  OBVIOUS
<1>2. PICK s : s = At(pos, todo, got)
  OBVIOUS
<1>3. PICK h : h = Head(todo)
  OBVIOUS
<1>4. /\ outcome = "reading" /\ todo # <<>> /\ h.read = "tag" /\ pos + 1 <= Len(buf)
      /\ Here.char \in h.tags
  BY <1>3 DEF TakeTag, TagThere, Reading, There
<1>5. Took(1, Here.char, Announced(kind, Here.char))
  BY DEF TakeTag
<1>6. s.pos = pos /\ s.todo = todo
  BY <1>2, AtFields
<1>7. PICK u : Step(kind, w, s, u) /\ Reaches(kind, w, sent, u)
  BY <1>1, <1>2, <1>4, NextRead
<1>8. TagStep(kind, w, s, u)
  BY <1>3, <1>4, <1>6, <1>7, StepByRead
<1>9. /\ "b" \notin h.tags
      /\ u = TookIn(s, 1, w[pos + 1].char, Announced(kind, w[pos + 1].char))
  BY <1>3, <1>6, <1>8 DEF TagStep
<1>10. pos \in Nat /\ BufferSound
  BY DEF DecoderIInv, CursorSound
<1>11. Here = w[pos + 1]
  <2>1. pos + 1 \in 1 .. Len(buf)
    BY <1>4, <1>10 DEF BufferSound
  <2>2. buf[pos + 1].char # "b"
    BY <1>4, <1>9 DEF Here
  <2> QED
    BY <1>1, <1>10, <2>1, <2>2, Unspoiled DEF Here
<1>12. Took(1, w[pos + 1].char, Announced(kind, w[pos + 1].char))
  BY <1>5, <1>11
<1>13. Kept /\ pos' = pos + 1 /\ At(pos', todo', got') = u
  BY <1>2, <1>9, <1>12, TookAt
<1>14. \A i \in pos + 1 .. pos + 1 : buf[i] = w[i]
  BY <1>10, <1>11 DEF Here
<1> QED
  BY <1>1, <1>4, <1>7, <1>13, <1>14, Moved

(* The first NUL in the buffer is the one that was sent: there is none     *)
(* before it, and a buffer cut off before it has none.                     *)
LEMMA TakeStringKeeps ==
    ASSUME DecoderIInv, TakeString
    PROVE  DecoderIInv'
<1>1. PICK w : w = Wire
  OBVIOUS
<1>2. PICK s : s = At(pos, todo, got)
  OBVIOUS
<1>3. PICK h : h = Head(todo)
  OBVIOUS
<1>4. outcome = "reading" /\ todo # <<>> /\ h.read = "cstring" /\ StringEnds # {}
  BY <1>3 DEF TakeString, StringThere, Reading
<1>5. s.pos = pos /\ s.todo = todo
  BY <1>2, AtFields
<1>6. PICK u : Step(kind, w, s, u) /\ Reaches(kind, w, sent, u)
  BY <1>1, <1>2, <1>4, NextRead
<1>7. StringStep(w, s, u)
  BY <1>3, <1>4, <1>5, <1>6, StepByRead
<1>8. PICK e \in pos + 1 .. Len(w) :
          /\ w[e].char = "NUL" /\ \A i \in pos + 1 .. e - 1 : w[i].char # "NUL"
          /\ Plain(w, pos, e)
          /\ u = TookIn(s, e - pos, [i \in 1 .. e - 1 - pos |-> w[pos + i].char], <<>>)
  BY <1>5, <1>7 DEF StringStep
<1>9. pos \in Nat /\ BufferSound /\ Len(buf) \in Nat /\ Len(buf) <= Len(w)
  BY <1>1 DEF DecoderIInv, CursorSound, BufferSound
<1>10. \A i \in pos + 1 .. Len(buf) : i <= e => buf[i] = w[i]
  <2> SUFFICES ASSUME NEW i \in pos + 1 .. Len(buf), i <= e
               PROVE  buf[i] = w[i]
    OBVIOUS
  <2>1. i \in pos + 1 .. e /\ i \in 1 .. Len(buf)
    BY <1>9
  <2>2. ~ w[i].tag
    BY <1>8, <2>1 DEF Plain
  <2> QED
    BY <1>1, <1>9, <2>1, <2>2, Unspoiled
<1>11. e <= Len(buf)
  <2> SUFFICES ASSUME ~ e <= Len(buf)
               PROVE  FALSE
    OBVIOUS
  <2>1. PICK i \in StringEnds : TRUE
    BY <1>4
  <2>2. i \in pos + 1 .. Len(buf) /\ buf[i].char = "NUL"
    BY DEF StringEnds
  <2>3. i <= e /\ i \in pos + 1 .. e - 1
    BY <1>8, <1>9, <2>2
  <2> QED
    BY <1>8, <1>10, <2>2, <2>3
<1>12. e \in StringEnds /\ \A j \in StringEnds : e <= j
  <2>1. e \in pos + 1 .. Len(buf) /\ buf[e] = w[e]
    BY <1>8, <1>9, <1>10, <1>11
  <2>2. ASSUME NEW j \in StringEnds
        PROVE  e <= j
    <3>1. j \in pos + 1 .. Len(buf) /\ buf[j].char = "NUL"
      BY DEF StringEnds
    <3>2. ASSUME ~ e <= j
          PROVE  FALSE
      <4>1. j <= e /\ j \in pos + 1 .. e - 1
        BY <1>8, <1>9, <3>1, <3>2
      <4> QED
        BY <1>8, <1>10, <3>1, <4>1
    <3> QED
      BY <3>2
  <2> QED
    BY <1>8, <2>1, <2>2 DEF StringEnds
<1>13. PICK end : end = CHOOSE i \in StringEnds : \A j \in StringEnds : i <= j
  OBVIOUS
<1>14. end = e
  <2>1. end \in StringEnds /\ \A j \in StringEnds : end <= j
    BY <1>12, <1>13
  <2>2. end <= e /\ e <= end
    BY <1>12, <2>1
  <2>3. end \in pos + 1 .. Len(buf)
    BY <2>1 DEF StringEnds
  <2> QED
    BY <1>8, <1>9, <2>2, <2>3
<1>15. Took(e - pos, [i \in 1 .. e - 1 - pos |-> buf[pos + i].char], <<>>)
  BY <1>13, <1>14 DEF TakeString
<1>16. [i \in 1 .. e - 1 - pos |-> buf[pos + i].char] = [i \in 1 .. e - 1 - pos |-> w[pos + i].char]
  <2>1. ASSUME NEW i \in 1 .. e - 1 - pos
        PROVE  buf[pos + i] = w[pos + i]
    <3>1. pos + i \in pos + 1 .. Len(buf) /\ pos + i <= e
      BY <1>8, <1>9, <1>11
    <3> QED
      BY <1>10, <3>1
  <2> QED
    BY <2>1
<1>17. PICK n : n = e - pos
  OBVIOUS
<1>18. PICK v : v = [i \in 1 .. e - 1 - pos |-> w[pos + i].char]
  OBVIOUS
<1>19. Took(n, v, <<>>) /\ u = TookIn(s, n, v, <<>>)
  BY <1>8, <1>15, <1>16, <1>17, <1>18
<1>20. Kept /\ pos' = pos + n /\ At(pos', todo', got') = u
  BY <1>2, <1>19, TookAt
<1>21. n \in Nat /\ pos + n = e
  BY <1>8, <1>9, <1>17
<1>22. pos + n <= Len(buf) /\ \A i \in pos + 1 .. pos + n : buf[i] = w[i]
  <2>1. \A i \in pos + 1 .. e : i \in pos + 1 .. Len(buf) /\ i <= e
    BY <1>8, <1>9, <1>11
  <2> QED
    BY <1>10, <1>11, <1>21, <2>1
<1> QED
  BY <1>1, <1>4, <1>6, <1>20, <1>21, <1>22, Moved

(* The tag of a column decides between its forms, and its length is no     *)
(* tag.                                                                    *)
LEMMA TakeColumnKeeps ==
    ASSUME DecoderIInv, TakeColumn
    PROVE  DecoderIInv'
<1>1. PICK w : w = Wire
  OBVIOUS
<1>2. PICK s : s = At(pos, todo, got)
  OBVIOUS
<1>3. PICK h : h = Head(todo)
  OBVIOUS
<1>4. outcome = "reading" /\ todo # <<>> /\ h.read = "column" /\ pos + 1 <= Len(buf)
  BY <1>3 DEF TakeColumn, ShortThere, TextThere, Reading, There
<1>5. s.pos = pos /\ s.todo = todo
  BY <1>2, AtFields
<1>6. PICK u : Step(kind, w, s, u) /\ Reaches(kind, w, sent, u)
  BY <1>1, <1>2, <1>4, NextRead
<1>7. ShortStep(w, s, u) \/ TextStep(w, s, u)
  BY <1>3, <1>4, <1>5, <1>6, StepByRead
<1>8. pos \in Nat /\ BufferSound /\ Len(buf) \in Nat
  BY DEF DecoderIInv, CursorSound, BufferSound
<1>9. Here.char # "b" => Here = w[pos + 1]
  <2>1. pos + 1 \in 1 .. Len(buf)
    BY <1>4, <1>8
  <2> QED
    BY <1>1, <1>8, <2>1, Unspoiled DEF Here
<1>10. CASE ShortThere /\ Took(1, <<Here.char>>, <<>>)
  <2>1. Here.char \in {"n", "u"}
    BY <1>10 DEF ShortThere
  <2>2. Here = w[pos + 1]
    BY <1>9, <2>1
  <2>3. ~ TextStep(w, s, u)
    BY <1>5, <2>1, <2>2 DEF TextStep
  <2>4. u = TookIn(s, 1, <<w[pos + 1].char>>, <<>>)
    BY <1>5, <1>7, <2>3 DEF ShortStep
  <2>5. PICK v : v = <<Here.char>>
    OBVIOUS
  <2>6. Took(1, v, <<>>) /\ u = TookIn(s, 1, v, <<>>)
    BY <1>10, <2>2, <2>4, <2>5
  <2>7. Kept /\ pos' = pos + 1 /\ At(pos', todo', got') = u
    BY <1>2, <2>6, TookAt
  <2>8. \A i \in pos + 1 .. pos + 1 : buf[i] = w[i]
    BY <1>8, <2>2 DEF Here
  <2> QED
    BY <1>1, <1>4, <1>6, <2>7, <2>8, Moved
<1>11. CASE /\ TextThere
            /\ Took(5 + buf[pos + 2].int,
                    <<"t", [i \in 1 .. buf[pos + 2].int |-> buf[pos + 5 + i].char]>>, <<>>)
  <2>1. Here.char = "t" /\ pos + 5 <= Len(buf) /\ pos + (5 + buf[pos + 2].int) <= Len(buf)
    BY <1>11 DEF TextThere, There
  <2>2. Here = w[pos + 1]
    BY <1>9, <2>1
  <2>3. ~ ShortStep(w, s, u)
    BY <1>5, <2>1, <2>2 DEF ShortStep
  <2>4. PICK l : l = w[pos + 2].int
    OBVIOUS
  <2>5. /\ l \in Nat /\ Plain(w, pos + 1, pos + 5 + l)
        /\ u = TookIn(s, 5 + l, <<"t", [i \in 1 .. l |-> w[pos + 5 + i].char]>>, <<>>)
    BY <1>5, <1>7, <2>3, <2>4 DEF TextStep
  <2>6. buf[pos + 2] = w[pos + 2]
    <3>1. pos + 2 \in 1 .. Len(buf) /\ pos + 2 \in (pos + 1) + 1 .. pos + 5 + l
      BY <1>8, <2>1, <2>5
    <3>2. ~ w[pos + 2].tag
      BY <2>5, <3>1 DEF Plain
    <3> QED
      BY <1>1, <1>8, <3>1, <3>2, Unspoiled
  <2>7. buf[pos + 2].int = l
    BY <2>4, <2>6
  <2>8. PICK q : q = pos + 5 + l
    OBVIOUS
  <2>9. q \in Nat /\ q = pos + (5 + l) /\ q <= Len(buf)
    BY <1>8, <2>1, <2>5, <2>7, <2>8
  <2>10. \A i \in (pos + 1) + 1 .. q : i \in 1 .. Len(buf) /\ buf[i] = w[i]
    <3>1. pos + 1 \in Nat
      BY <1>8
    <3>2. Plain(w, pos + 1, q)
      BY <2>5, <2>8
    <3> QED
      BY <1>1, <1>8, <2>9, <3>1, <3>2, PlainKept
  <2>11. \A i \in pos + 1 .. q : buf[i] = w[i]
    <3>1. \A i \in pos + 1 .. q : i = pos + 1 \/ i \in (pos + 1) + 1 .. q
      BY <1>8, <2>9
    <3> QED
      BY <2>2, <2>10, <3>1 DEF Here
  <2>12. [i \in 1 .. l |-> buf[pos + 5 + i].char] = [i \in 1 .. l |-> w[pos + 5 + i].char]
    <3>1. \A i \in 1 .. l : pos + 5 + i \in pos + 1 .. q
      BY <1>8, <2>5, <2>8
    <3> QED
      BY <2>11, <3>1
  <2>13. PICK v : v = <<"t", [i \in 1 .. l |-> w[pos + 5 + i].char]>>
    OBVIOUS
  <2>14. PICK n : n = 5 + l
    OBVIOUS
  <2>15. Took(n, v, <<>>) /\ u = TookIn(s, n, v, <<>>)
    BY <1>11, <2>5, <2>7, <2>12, <2>13, <2>14
  <2>16. Kept /\ pos' = pos + n /\ At(pos', todo', got') = u
    BY <1>2, <2>15, TookAt
  <2>17. n \in Nat /\ pos + n <= Len(buf) /\ pos + n = q
    BY <2>5, <2>9, <2>14
  <2>18. \A i \in pos + 1 .. pos + n : buf[i] = w[i]
    BY <2>11, <2>17
  <2> QED
    BY <1>1, <1>4, <1>6, <2>16, <2>17, <2>18, Moved
<1> QED
  BY <1>10, <1>11 DEF TakeColumn

(* A loop reads nothing by itself.                                         *)
LEMMA IterateKeeps ==
    ASSUME DecoderIInv, Iterate
    PROVE  DecoderIInv'
<1>1. PICK w : w = Wire
  OBVIOUS
<1>2. PICK s : s = At(pos, todo, got)
  OBVIOUS
<1>3. PICK h : h = Head(todo)
  OBVIOUS
<1>4. outcome = "reading" /\ todo # <<>> /\ h.read = "loop"
  BY <1>3 DEF Iterate, Reading
<1>5. s.pos = pos /\ s.todo = todo /\ s.got = got
  BY <1>2, AtFields
<1>6. PICK u : Step(kind, w, s, u) /\ Reaches(kind, w, sent, u)
  BY <1>1, <1>2, <1>4, NextRead
<1>7. LoopStep(s, u)
  BY <1>3, <1>4, <1>5, <1>6, StepByRead
<1>8. u = At(pos, IF h.times <= 0 THEN Tail(todo)
                  ELSE h.each \o <<Loop(h.times - 1, h.each)>> \o Tail(todo), got)
  BY <1>3, <1>5, <1>7 DEF LoopStep
<1>9. /\ Kept /\ pos' = pos /\ got' = got
      /\ todo' = IF h.times <= 0 THEN Tail(todo)
                 ELSE h.each \o <<Loop(h.times - 1, h.each)>> \o Tail(todo)
  BY <1>3 DEF Iterate, Kept
<1>10. At(pos', todo', got') = u
  BY <1>8, <1>9
<1>11. pos \in Nat /\ pos <= Len(buf)
  BY DEF DecoderIInv, CursorSound
<1>12. pos' = pos + 0 /\ pos + 0 <= Len(buf) /\ \A i \in pos + 1 .. pos + 0 : buf[i] = w[i]
  BY <1>9, <1>11
<1> QED
  BY <1>1, <1>4, <1>6, <1>9, <1>10, <1>12, Moved

(* Nor does doing nothing.                                                 *)
LEMMA DecoderStutters ==
    ASSUME DecoderIInv, UNCHANGED decoderVars
    PROVE  DecoderIInv'
  BY DEF decoderVars, inputVars, DecoderIInv, BufferSound, CursorSound, Wire, DecodesWhatWasSent,
         RefusesOnlyTheBroken

(* What is in the buffer, what was read of it, and what there is to come,  *)
(* for every message and every way to spoil it (protocol.py:128-339).      *)
THEOREM DecoderInvariant == DecoderSpec => []DecoderIInv
<1>1. DecoderInit => DecoderIInv
  BY DecoderStarts
<1>2. DecoderIInv /\ [DecoderNext]_decoderVars => DecoderIInv'
  BY TakeIntKeeps, TakeStringKeeps, TakeTagKeeps, TakeCountKeeps, TakeColumnKeeps, IterateKeeps,
     RaiseKeeps, ReturnKeeps, DecoderStutters DEF DecoderNext
<1> QED
  BY <1>1, <1>2, PTL DEF DecoderSpec

(* For all messages of all types, of any length and any number of columns: *)
(* a message that is returned is the one that was sent, and was sent       *)
(* whole; cut off anywhere, or with a foreign tag, none is returned        *)
(* (protocol.py:222-339).                                                  *)
THEOREM DecodingIsFaithful == DecoderSpec => []DecodesWhatWasSent
<1>1. DecoderIInv => DecodesWhatWasSent
  BY DEF DecoderIInv
<1> QED
  BY <1>1, DecoderInvariant, PTL

(* And every message that a server may send is understood: ProtocolError   *)
(* is never raised for a whole one (protocol.py:142-216).                  *)
THEOREM NothingSoundIsRefused == DecoderSpec => []RefusesOnlyTheBroken
<1>1. DecoderIInv => RefusesOnlyTheBroken
  BY DEF DecoderIInv
<1> QED
  BY <1>1, DecoderInvariant, PTL
=============================================================================
