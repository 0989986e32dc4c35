------------------------------- MODULE Decoder -------------------------------
(***************************************************************************)
(* The decoder of pgoutput messages (protocol.py): a cursor moved over one *)
(* buffer by bounds-checked reads.  A buffer is what a server encodes, as  *)
(* it was, cut off anywhere, or with a tag in it that nobody knows.        *)
(*                                                                         *)
(* A message maps each field to the list of what was read for it: one      *)
(* entry, or the elements of a tuple or of a list, or none; "tags" are the *)
(* submessages it had, so that key and old are None without 'K' and 'O'.   *)
(***************************************************************************)
EXTENDS Integers, Sequences, SequencesExt

CONSTANTS
    Characters,        \* what names and texts are made of
    Messages(_)        \* messages of each type that a server may send

VARIABLES
    kind,              \* message type, _Reader.kind
    sent,              \* the message the server encoded
    whole,             \* the buffer is what it encoded
    buf,               \* _Reader.buf after the type byte
    pos,               \* bytes of it read
    todo,              \* reads to come
    got,               \* fields read
    outcome            \* "reading", then "message" or "ProtocolError"

inputVars   == <<kind, sent, whole, buf>>
decoderVars == <<inputVars, pos, todo, got, outcome>>

-----------------------------------------------------------------------------
Fields == {"lsn", "end_lsn", "commit_ts", "xid", "flags", "name", "namespace", "type_oid", "rel_id",
           "replica_identity", "columns", "type_mod", "tags", "key", "old", "new"}

Nothing == [f \in Fields |-> <<>>]

(* A column of a tuple: NULL, an unchanged TOAST, or a text.               *)
ColumnValue == {<<"n">>, <<"u">>} \cup ({"t"} \X Seq(Characters))

(* What a message of each type consists of.                                *)
FieldsOf ==
    [B |-> {"lsn", "commit_ts", "xid"},
     C |-> {"flags", "lsn", "end_lsn", "commit_ts"},
     O |-> {"lsn", "name"},
     Y |-> {"type_oid", "namespace", "name"},
     R |-> {"rel_id", "namespace", "name", "replica_identity", "flags", "columns", "type_oid",
            "type_mod"},
     T |-> {"flags", "rel_id"},
     I |-> {"rel_id", "tags", "new"},
     U |-> {"rel_id", "tags", "key", "old", "new"},
     D |-> {"rel_id", "tags", "key", "old"}]

Kinds == DOMAIN FieldsOf

One(list) == Len(list) = 1

WellFormed(k, m) ==
    LET Columns == Len(m["columns"])
        Has(tag, field) == m[field] # <<>> => \E i \in DOMAIN m["tags"] : m["tags"][i] = tag
    IN  /\ m = [f \in Fields |-> m[f]]
        /\ \A f \in Fields \ FieldsOf[k] : m[f] = <<>>
        /\ \A f \in {"lsn", "end_lsn", "commit_ts", "xid", "flags", "type_oid", "rel_id", "type_mod"} :
              m[f] \in Seq(Int)
        /\ \A f \in {"name", "namespace", "columns"} : m[f] \in Seq(Seq(Characters))
        /\ \A f \in {"key", "old", "new"} : m[f] \in Seq(ColumnValue)
        /\ m["replica_identity"] \in Seq({"d", "n", "f", "i"})
        /\ k \in {"B", "C", "O", "Y"} => \A f \in FieldsOf[k] : One(m[f])
        /\ k = "R" => /\ \A f \in {"rel_id", "namespace", "name", "replica_identity"} : One(m[f])
                      /\ \A f \in {"flags", "type_oid", "type_mod"} : Len(m[f]) = Columns
        /\ k = "T" => One(m["flags"])
        /\ k \in {"I", "U", "D"} => One(m["rel_id"])
        /\ k = "I" => m["tags"] = <<"N">>
        /\ k = "U" => m["tags"] \in {<<"N">>, <<"K", "N">>, <<"O", "N">>}
        /\ k = "D" => m["tags"] \in {<<"K">>, <<"O">>}
        /\ Has("K", "key") /\ Has("O", "old")

ASSUME DecoderAssumption ==
    /\ "NUL" \notin Characters
    /\ \A k \in Kinds : \A m \in Messages(k) : WellFormed(k, m)

-----------------------------------------------------------------------------
(* Bytes: one of an integer, a character, or a tag; only the decoder does  *)
(* not know which.                                                         *)
IntByte(n) == [char |-> "none", int |-> n, tag |-> FALSE]
Char(c) == [char |-> c, int |-> 0, tag |-> FALSE]
Tag(c) == [char |-> c, int |-> 0, tag |-> TRUE]

IntBytes(w, n) == [i \in 1 .. w |-> IntByte(n)]
Text(s) == [i \in DOMAIN s |-> Char(s[i])]
CString(s) == Append(Text(s), Char("NUL"))

ColumnBytes(v) ==
    IF v[1] = "t" THEN <<Tag("t")>> \o IntBytes(4, Len(v[2])) \o Text(v[2]) ELSE <<Tag(v[1])>>

TupleBytes(tag, columns) ==
    <<Tag(tag)>> \o IntBytes(2, Len(columns))
        \o FlattenSeq([i \in DOMAIN columns |-> ColumnBytes(columns[i])])

SentField(tag) == CASE tag = "K" -> "key" [] tag = "O" -> "old" [] tag = "N" -> "new"

RelationColumn(m, i) ==
    IntBytes(1, m["flags"][i]) \o CString(m["columns"][i])
        \o IntBytes(4, m["type_oid"][i]) \o IntBytes(4, m["type_mod"][i])

(* The message formats of the server.                                      *)
BeginBytes(m) ==
    IntBytes(8, m["lsn"][1]) \o IntBytes(8, m["commit_ts"][1]) \o IntBytes(4, m["xid"][1])

CommitBytes(m) ==
    IntBytes(1, m["flags"][1]) \o IntBytes(8, m["lsn"][1])
        \o IntBytes(8, m["end_lsn"][1]) \o IntBytes(8, m["commit_ts"][1])

OriginBytes(m) == IntBytes(8, m["lsn"][1]) \o CString(m["name"][1])

TypeBytes(m) ==
    IntBytes(4, m["type_oid"][1]) \o CString(m["namespace"][1]) \o CString(m["name"][1])

RelationBytes(m) ==
    IntBytes(4, m["rel_id"][1]) \o CString(m["namespace"][1]) \o CString(m["name"][1])
        \o <<Tag(m["replica_identity"][1])>> \o IntBytes(2, Len(m["columns"]))
        \o FlattenSeq([i \in DOMAIN m["columns"] |-> RelationColumn(m, i)])

TruncateBytes(m) ==
    IntBytes(4, Len(m["rel_id"])) \o IntBytes(1, m["flags"][1])
        \o FlattenSeq([i \in DOMAIN m["rel_id"] |-> IntBytes(4, m["rel_id"][i])])

RowBytes(m) ==
    IntBytes(4, m["rel_id"][1])
        \o FlattenSeq([i \in DOMAIN m["tags"] |->
                          TupleBytes(m["tags"][i], m[SentField(m["tags"][i])])])

Encoded(k, m) ==
    CASE k = "B" -> BeginBytes(m)
      [] k = "C" -> CommitBytes(m)
      [] k = "O" -> OriginBytes(m)
      [] k = "Y" -> TypeBytes(m)
      [] k = "R" -> RelationBytes(m)
      [] k = "T" -> TruncateBytes(m)
      [] k \in {"I", "U", "D"} -> RowBytes(m)

-----------------------------------------------------------------------------
(* The reads of _Reader, each for a field; a count is followed by what is  *)
(* read once, then by what is read for each.                               *)
ReadInt(w, field) == [read |-> "int", width |-> w, field |-> field]
ReadString(field) == [read |-> "cstring", field |-> field]
ReadTag(tags, field) == [read |-> "tag", tags |-> tags, field |-> field]
ReadColumn(field) == [read |-> "column", field |-> field]
ReadCount(w, once, each) == [read |-> "count", width |-> w, once |-> once, each |-> each]
Loop(times, each) == [read |-> "loop", times |-> times, each |-> each]

(* An update may bring the identity's columns, the old row, or neither.    *)
(* (mutant) Never the identity's columns alone.                            *)
UpdateTagsFull == {"O", "N"}
UpdateTags == {"K", "O", "N"}

(* _DECODERS.                                                              *)
Decoders ==
    [B |-> <<ReadInt(8, "lsn"), ReadInt(8, "commit_ts"), ReadInt(4, "xid")>>,
     C |-> <<ReadInt(1, "flags"), ReadInt(8, "lsn"), ReadInt(8, "end_lsn"),
             ReadInt(8, "commit_ts")>>,
     O |-> <<ReadInt(8, "lsn"), ReadString("name")>>,
     Y |-> <<ReadInt(4, "type_oid"), ReadString("namespace"), ReadString("name")>>,
     R |-> <<ReadInt(4, "rel_id"), ReadString("namespace"), ReadString("name"),
             ReadTag({"d", "n", "f", "i"}, "replica_identity"),
             ReadCount(2, <<>>, <<ReadInt(1, "flags"), ReadString("columns"),
                                  ReadInt(4, "type_oid"), ReadInt(4, "type_mod")>>)>>,
     T |-> <<ReadCount(4, <<ReadInt(1, "flags")>>, <<ReadInt(4, "rel_id")>>)>>,
     I |-> <<ReadInt(4, "rel_id"), ReadTag({"N"}, "tags")>>,
     U |-> <<ReadInt(4, "rel_id"), ReadTag(UpdateTags, "tags")>>,
     D |-> <<ReadInt(4, "rel_id"), ReadTag({"K", "O"}, "tags")>>]

(* The tuple a submessage announces.  (mutant) Whatever comes before the   *)
(* new row is the old one.                                                 *)
TupleFieldByOrder(tag) == IF tag = "N" THEN "new" ELSE "old"
TupleField(tag) == IF tag = "K" THEN "key" ELSE IF tag = "O" THEN "old" ELSE "new"

Announced(k, tag) ==
    LET tuple == ReadCount(2, <<>>, <<ReadColumn(TupleField(tag))>>)
    IN  IF tag \notin {"K", "O", "N"} THEN <<>>
        ELSE IF k = "U" /\ tag # "N" THEN <<tuple, ReadTag({"N"}, "tags")>> ELSE <<tuple>>

-----------------------------------------------------------------------------
(* A buffer: as encoded, cut off after some bytes, or with a foreign tag.  *)
DecoderInit ==
    /\ kind \in Kinds
    /\ sent \in Messages(kind)
    /\ LET bytes == Encoded(kind, sent)
       IN  \/ whole = TRUE /\ buf = bytes
           \/ whole = FALSE /\ \E n \in 0 .. Len(bytes) - 1 : buf = SubSeq(bytes, 1, n)
           \/ /\ whole = FALSE
              /\ \E i \in {j \in DOMAIN bytes : bytes[j].tag} :
                    buf = [bytes EXCEPT ![i] = Tag("b")]
    /\ pos = 0
    /\ todo = Decoders[kind]
    /\ got = Nothing
    /\ outcome = "reading"

Here == buf[pos + 1]

There(n) == pos + n <= Len(buf)

Reading(r) == outcome = "reading" /\ todo # <<>> /\ Head(todo).read = r

(* The bytes that end the string at the cursor.                            *)
StringEnds == {i \in pos + 1 .. Len(buf) : buf[i].char = "NUL"}

(* What a read needs.                                                      *)
IntThere    == Reading("int") /\ There(Head(todo).width)
StringThere == Reading("cstring") /\ StringEnds # {}
TagThere    == Reading("tag") /\ There(1) /\ Here.char \in Head(todo).tags
CountThere  == Reading("count") /\ There(Head(todo).width)
ShortThere  == Reading("column") /\ There(1) /\ Here.char \in {"n", "u"}
TextThere   == /\ Reading("column") /\ There(1) /\ Here.char = "t"
               /\ There(5) /\ There(5 + buf[pos + 2].int)

-----------------------------------------------------------------------------
Took(n, value, then) ==
    /\ pos' = pos + n
    /\ got' = [got EXCEPT ![Head(todo).field] = Append(@, value)]
    /\ todo' = then \o Tail(todo)
    /\ UNCHANGED <<inputVars, outcome>>

TakeInt == IntThere /\ Took(Head(todo).width, Here.int, <<>>)

TakeString ==
    /\ StringThere
    /\ LET end == CHOOSE i \in StringEnds : \A j \in StringEnds : i <= j
       IN  Took(end - pos, [i \in 1 .. end - 1 - pos |-> buf[pos + i].char], <<>>)

TakeTag == TagThere /\ Took(1, Here.char, Announced(kind, Here.char))

TakeCount ==
    /\ CountThere
    /\ pos' = pos + Head(todo).width
    /\ todo' = Head(todo).once \o <<Loop(Here.int, Head(todo).each)>> \o Tail(todo)
    /\ UNCHANGED <<inputVars, got, outcome>>

TakeColumn ==
    \/ ShortThere /\ Took(1, <<Here.char>>, <<>>)
    \/ /\ TextThere
       /\ LET length == buf[pos + 2].int
          IN  Took(5 + length, <<"t", [i \in 1 .. length |-> buf[pos + 5 + i].char]>>, <<>>)

(* for _ in range(n).                                                      *)
Iterate ==
    /\ Reading("loop")
    /\ LET loop == Head(todo)
       IN  todo' = IF loop.times <= 0 THEN Tail(todo)
                   ELSE loop.each \o <<Loop(loop.times - 1, loop.each)>> \o Tail(todo)
    /\ UNCHANGED <<inputVars, pos, got, outcome>>

(* A read that does not succeed raises; the last one completes a message.  *)
Raise ==
    /\ outcome = "reading" /\ todo # <<>> /\ Head(todo).read # "loop"
    /\ ~(IntThere \/ StringThere \/ TagThere \/ CountThere \/ ShortThere \/ TextThere)
    /\ outcome' = "ProtocolError"
    /\ UNCHANGED <<inputVars, pos, todo, got>>

Return ==
    /\ outcome = "reading" /\ todo = <<>>
    /\ outcome' = "message"
    /\ UNCHANGED <<inputVars, pos, todo, got>>

DecoderNext ==
    \/ TakeInt \/ TakeString \/ TakeTag \/ TakeCount \/ TakeColumn
    \/ Iterate \/ Raise \/ Return

DecoderSpec == DecoderInit /\ [][DecoderNext]_decoderVars

-----------------------------------------------------------------------------
(* What is decoded is what the server sent, field by field: a buffer cut   *)
(* off anywhere yields no message, nor does one with a foreign tag, and    *)
(* the columns of a key are never taken for the old row                    *)
(* (protocol.py:222-339).                                                  *)
DecodesWhatWasSent == outcome = "message" => whole /\ got = sent

(* And everything a server may send is understood.                         *)
RefusesOnlyTheBroken == outcome = "ProtocolError" => ~whole
=============================================================================
