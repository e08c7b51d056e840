----------------------------- MODULE NetStream -----------------------------
(***************************************************************************)
(* The self-describing byte stream messages travel in (ndMsgStream.cs),    *)
(* the Read and Write functions protocolBuilder generates for every        *)
(* message structure (buildCS.cpp, expLua.cpp, main.cpp), and the writer   *)
(* and reader the scripts use instead (dbldata2netstream.cpp).  A value is *)
(* preceded by a marker, its type and the number of bytes that follow, and *)
(* a structure ends with 0xff, so that two programs built from different   *)
(* versions of the message definitions can still talk: what the older one  *)
(* does not know is skipped, what it does not send keeps its default.      *)
(***************************************************************************)
EXTENDS Integers, Sequences, FiniteSets, SequencesExt

CONSTANTS BufLength,   \* BUF_LENGTH: bytes of the buffer that all streams share
          Schema,      \* Schema[v][T]: the fields of structure T in version v
          Messages,    \* Messages[v][T]: messages that begin with a T, of a program of version v
          MaxMessages  \* bound: messages received

Versions == DOMAIN Schema

BufLengthAssumption == BufLength \in Nat \ {0}
VersionsAssumption == IsFiniteSet(Versions) /\ MaxMessages \in Nat

VARIABLES mine,    \* the version of the definitions the receiver was built from
          checked, \* the receiver is generated C++, which checks the length of arrays
          stream,  \* the receiver's NDMsgStream, with the shared buffer
          todo,    \* structures of the message not read yet, as they were written
          last,    \* the structure read last: what was written, what was read
          count    \* messages received

vars == <<mine, checked, stream, todo, last, count>>

Byte == 0..255
EndMark == 255
SkipCommand == 11    \* ENDSTREAM_CMD_SKIP_STRUCT_MARK
EnableCommand == 12  \* ENDSTREAM_CMD_ENABLE_STRUCT_MARK
TypeOf == [INT8 |-> 1, INT16 |-> 2, INT32 |-> 3, INT64 |-> 4, FLOAT |-> 5, TEXT |-> 7, BIN |-> 8]
Integers_ == {"INT8", "INT16", "INT32", "INT64"}
Marker(kind, size) == 16 * TypeOf[kind] + size

\* scripts is no field of the code: a script's message has come to the stream.
NewStream(buf) ==
  [buf |-> buf, r |-> 0, w |-> 0, ended |-> FALSE, dataEnd |-> FALSE, skip |-> FALSE,
   scripts |-> FALSE]

IsStructEnd(s) == s.ended \/ s.dataEnd

----------------------------------------------------------------------------
(* Writing.  A part that does not fit is not written, and the parts of the *)
(* same value behind it are not tried.                                     *)

RECURSIVE OrgWrite(_, _)
OrgWrite(s, parts) ==
  IF parts = <<>> \/ s.w + Len(Head(parts)) > BufLength THEN s
  ELSE LET bytes == Head(parts) IN
       OrgWrite([s EXCEPT !.w = @ + Len(bytes),
                          !.buf = [i \in DOMAIN @ |->
                              IF i \in (s.w + 1)..(s.w + Len(bytes)) THEN bytes[i - s.w] ELSE @[i]]],
                Tail(parts))

BigEndian(v, n) == [i \in 1..n |-> (v \div 256 ^ (n - i)) % 256]
Number(bytes) ==
  LET sum[i \in 0..Len(bytes)] == IF i = 0 THEN 0 ELSE sum[i - 1] * 256 + bytes[i]
  IN  sum[Len(bytes)]

\* The fewest bytes that hold the value, whatever its type; a float that is
\* not zero takes four.
Size(kind, v) == CASE v = 0 -> 0
                   [] kind = "FLOAT" -> 4
                   [] v \in 1..255 -> 1
                   [] v \in 256..65535 -> 2
                   [] OTHER -> 4

WriteNumber(s, kind, v) ==
  LET n == Size(kind, v) IN
  OrgWrite(s, <<<<Marker(kind, n)>>>> \o (IF n = 0 THEN <<>> ELSE <<BigEndian(v, n)>>))

WriteString(s, data) ==
  IF data = <<>> THEN OrgWrite(s, <<<<Marker("TEXT", 0)>>>>)
  ELSE OrgWrite(s, <<<<Marker("TEXT", 1)>>, BigEndian(Len(data), 2), data, <<127>>>>)

WriteBuf(s, data) ==
  IF data = <<>> THEN OrgWrite(s, <<<<Marker("BIN", 0)>>>>)
  ELSE OrgWrite(s, <<<<Marker("BIN", 1)>>, BigEndian(Len(data), 2), data>>)

WriteStructEnd(s) == OrgWrite(s, <<<<EndMark>>>>)

----------------------------------------------------------------------------
(* Reading.  A reader returns the stream behind what it took and a value;  *)
(* the value is 0 or empty when the marker is not the one it expects.      *)

myRead(s, n) ==
  IF s.r + n > BufLength
  THEN [s |-> [s EXCEPT !.dataEnd = TRUE], bytes |-> [i \in 1..n |-> 0]]
  ELSE [s |-> [s EXCEPT !.r = @ + n], bytes |-> SubSeq(s.buf, s.r + 1, s.r + n)]

RECURSIVE ReadMarker(_)
ReadMarker(s) ==
  LET Behind(m, byte, type) ==
        CASE byte = 0 \/ m.s.dataEnd -> [s |-> m.s, ok |-> FALSE, type |-> 0, size |-> 0]
          [] byte = EndMark /\ m.s.skip -> ReadMarker(m.s)
          [] byte = EndMark /\ ~m.s.skip ->
               [s |-> [m.s EXCEPT !.ended = TRUE], ok |-> TRUE, type |-> 0, size |-> 0]
          [] type \in {SkipCommand, EnableCommand} ->
               ReadMarker([m.s EXCEPT !.skip = (type = SkipCommand)])
          [] OTHER -> [s |-> m.s, ok |-> TRUE, type |-> type, size |-> byte % 16]
      m == myRead(s, 1)
  IN  Behind(m, m.bytes[1], m.bytes[1] \div 16)
ReadTypeSize(s) == ReadMarker([s EXCEPT !.ended = FALSE])

\* What each integer reader accepts behind its marker.
Widths == [INT8 |-> {1}, INT16 |-> {1, 2}, INT32 |-> {1, 2, 4}, INT64 |-> {1, 2, 4}]

Expected(t, kind) == t.ok /\ ~t.s.ended /\ t.type = TypeOf[kind] /\ t.size # 0

ReadNumber(s, kind) ==
  LET Value(m) == [s |-> m.s, v |-> Number(m.bytes)]
      Behind(t) ==
        IF Expected(t, kind) /\ (kind \in Integers_ => t.size \in Widths[kind])
        THEN Value(myRead(t.s, IF kind = "FLOAT" THEN 4 ELSE t.size))
        ELSE [s |-> t.s, v |-> 0]
  IN  Behind(ReadTypeSize(s))

ReadSized(s) ==
  LET Behind(size) == myRead(size.s, Number(size.bytes)) IN Behind(myRead(s, 2))

ReadString(s) ==
  LET Ended(data, end) == [s |-> end.s, v |-> IF end.bytes = <<127>> THEN data.bytes ELSE <<>>]
      Behind(data) == IF data.bytes = <<>> THEN [s |-> data.s, v |-> <<>>]
                      ELSE Ended(data, myRead(data.s, 1))
      Typed(t) == IF Expected(t, "TEXT") THEN Behind(ReadSized(t.s)) ELSE [s |-> t.s, v |-> <<>>]
  IN  Typed(ReadTypeSize(s))

ReadBuf(s) ==
  LET Behind(data) == [s |-> data.s, v |-> data.bytes]
      Typed(t) == IF Expected(t, "BIN") THEN Behind(ReadSized(t.s)) ELSE [s |-> t.s, v |-> <<>>]
  IN  Typed(ReadTypeSize(s))

\* Skip the fields of a newer writer, up to the first end mark there is.
RECURSIVE SkipValues(_)
\* mutant: a skipped text is taken to end without its end byte
SkipValues_text(s) ==
  LET Move(size) == [size.s EXCEPT !.r = @ + Number(size.bytes)]
      Behind(t) == CASE ~t.ok \/ (t.type = 0 /\ ~t.s.ended) -> [found |-> FALSE, s |-> t.s]
                     [] t.ok /\ t.s.ended -> [found |-> TRUE, s |-> [t.s EXCEPT !.ended = FALSE]]
                     [] OTHER -> SkipValues(IF t.type \in {TypeOf.BIN, TypeOf.TEXT} /\ t.size # 0
                                            THEN Move(myRead(t.s, 2)) ELSE [t.s EXCEPT !.r = @ + t.size])
  IN  IF s.r >= BufLength THEN [found |-> FALSE, s |-> s] ELSE Behind(ReadTypeSize(s))

SkipValues(s) ==
  LET Move(size, ends) == [size.s EXCEPT !.r = @ + Number(size.bytes) + ends]
      Skip(t) == IF t.type \in {TypeOf.BIN, TypeOf.TEXT} /\ t.size # 0
                 THEN Move(myRead(t.s, 2), IF t.type = TypeOf.TEXT THEN 1 ELSE 0)
                 ELSE [t.s EXCEPT !.r = @ + t.size]
      Behind(t) == CASE ~t.ok \/ (t.type = 0 /\ ~t.s.ended) -> [found |-> FALSE, s |-> t.s]
                     [] t.ok /\ t.s.ended -> [found |-> TRUE, s |-> [t.s EXCEPT !.ended = FALSE]]
                     [] OTHER -> SkipValues(Skip(t))
  IN  IF s.r >= BufLength THEN [found |-> FALSE, s |-> s] ELSE Behind(ReadTypeSize(s))

\* mutant: fields of a newer writer are left where they are
TrytoMoveStructEnd_stay(s) == [s EXCEPT !.ended = FALSE]
TrytoMoveStructEnd(s) ==
  LET End(skipped) == IF skipped.found THEN skipped.s ELSE [skipped.s EXCEPT !.r = s.r] IN
  CASE s.skip -> s
    [] ~s.skip /\ s.ended -> [s EXCEPT !.ended = FALSE]
    [] OTHER -> End(SkipValues(s))
----------------------------------------------------------------------------
(* The generated functions.  A field is [kind |-> "INT8", ..], an array of *)
(* fields [kind |-> "ARRAY", of |-> ..] or a structure [kind |-> "STRUCT", *)
(* of |-> its name].                                                       *)

RECURSIVE Default(_, _)
Default(v, f) ==
  IF f.kind \in Integers_ \cup {"FLOAT"} THEN 0
  ELSE IF f.kind # "STRUCT" THEN <<>>
  ELSE [i \in 1..Len(Schema[v][f.of]) |-> Default(v, Schema[v][f.of][i])]

RECURSIVE WriteField(_, _, _, _, _)
WriteField(s, v, f, val, marks) ==
  LET all[i \in 0..Len(val)] ==  \* the elements of an array or the fields of a structure
        IF i = 0 THEN IF f.kind = "ARRAY" THEN WriteNumber(s, "INT16", Len(val)) ELSE s
        ELSE WriteField(all[i - 1], v, IF f.kind = "ARRAY" THEN f.of ELSE Schema[v][f.of][i],
                        val[i], marks)
  IN  CASE f.kind \in Integers_ \cup {"FLOAT"} -> WriteNumber(s, f.kind, val)
        [] f.kind = "TEXT" -> WriteString(s, val)
        [] f.kind = "BIN" -> WriteBuf(s, val)
        [] f.kind = "STRUCT" /\ marks -> WriteStructEnd(all[Len(val)])
        [] OTHER -> all[Len(val)]

Struct(T) == [kind |-> "STRUCT", of |-> T]
WriteStruct(s, v, T, obj) == WriteField(s, v, Struct(T), obj, TRUE)
logicDataWrite(s, v, T, obj) == WriteField(s, v, Struct(T), obj, FALSE)

\* Read one field.  A structure returns at the first part behind which the
\* end of a structure shows, and moves to its own end otherwise.  Only C++
\* refuses an array longer than the definitions allow, and gives up.
RECURSIVE ReadField(_, _, _, _)
ReadField(s, v, f, cpp) ==
  LET Took(before, one, i) ==
        [s |-> one.s, v |-> [before.v EXCEPT ![i] = one.v], refused |-> one.refused,
         left |-> one.refused \/ IsStructEnd(one.s)]
      Fields(start, fields, refused) ==
        FoldLeft(LAMBDA before, i : IF before.left THEN before
                                    ELSE Took(before, ReadField(before.s, v, fields[i], cpp), i),
                 [s |-> start, v |-> [j \in DOMAIN fields |-> Default(v, fields[j])], refused |-> refused,
                  left |-> refused \/ (f.kind = "ARRAY" /\ IsStructEnd(start))],
                 [i \in DOMAIN fields |-> i])
      Elements(number) == Fields(number.s, [i \in 1..number.v |-> f.of], cpp /\ number.v > f.max)
      End(all) == IF all.left THEN all ELSE [all EXCEPT !.s = TrytoMoveStructEnd(@)]
      Plain(one) == [s |-> one.s, v |-> one.v, refused |-> FALSE]
  IN  CASE f.kind \in Integers_ \cup {"FLOAT"} -> Plain(ReadNumber(s, f.kind))
        [] f.kind = "TEXT" -> Plain(ReadString(s))
        [] f.kind = "BIN" -> Plain(ReadBuf(s))
        [] f.kind = "ARRAY" -> Elements(ReadNumber(s, "INT16"))
        [] OTHER -> End(Fields(s, Schema[v][f.of], FALSE))

ReadStruct(s, v, T, cpp) == ReadField(s, v, Struct(T), cpp)

\* A script reads by the format of the type and over the marks of structures.
logicDataRead(s, v, T) == ReadStruct([s EXCEPT !.skip = TRUE], v, T, FALSE)
----------------------------------------------------------------------------
(* Programs.                                                               *)

Blank == [i \in 1..BufLength |-> 0]

\* The bytes of a message: generated code writes each structure, a script the
\* command that turns the marks off and then the bare values.
RECURSIVE WriteAll(_, _, _, _)
WriteAll(s, v, items, script) ==
  IF items = <<>> THEN SubSeq(s.buf, 1, s.w)
  ELSE WriteAll(IF script THEN logicDataWrite(s, v, Head(items).type, Head(items).obj)
                ELSE WriteStruct(s, v, Head(items).type, Head(items).obj),
                v, Tail(items), script)

Bytes(v, items) == WriteAll(NewStream(Blank), v, items, FALSE)
ScriptBytes(v, items) ==
  WriteAll(OrgWrite(NewStream(Blank), <<<<16 * SkipCommand>>>>), v, items, TRUE)

\* A script of the same version that reads a message and sends what it read.
RECURSIVE ReadAll(_, _, _)
ReadAll(s, v, items) ==
  IF items = <<>> THEN <<>>
  ELSE LET one == logicDataRead(s, v, Head(items).type) IN
       <<[Head(items) EXCEPT !.obj = one.v]>> \o ReadAll(one.s, v, Tail(items))

Over(buf, bytes) == [i \in DOMAIN buf |-> IF i <= Len(bytes) THEN bytes[i] ELSE buf[i]]
Relayed(v, items) == ScriptBytes(v, ReadAll(NewStream(Over(Blank, Bytes(v, items))), v, items))

\* FromArray and FromAddr: the new bytes over those of the message before.
\* Whether the marks of structures are skipped stays as that message left it.
\* mutant: reading goes on where the message before was left
From_index(s, bytes) == [s EXCEPT !.buf = Over(@, bytes), !.ended = FALSE, !.dataEnd = FALSE]
From(s, bytes) == [s EXCEPT !.buf = Over(@, bytes), !.r = 0, !.ended = FALSE, !.dataEnd = FALSE]

None == [v |-> 0]

\* Structures whose nested structures are the same in all versions, so that
\* only their own tail differs.
Stable == {T \in UNION {DOMAIN Schema[v] : v \in Versions} : \A v, w \in Versions :
             \A i \in DOMAIN Schema[v][T] :
               LET f == Schema[v][T][i]
                   of == IF f.kind = "ARRAY" THEN f.of ELSE f
               IN  of.kind = "STRUCT" => Schema[v][of.of] = Schema[w][of.of]}

Init ==
  /\ mine \in Versions /\ checked \in BOOLEAN
  /\ stream = NewStream(Blank)
  /\ todo = <<>> /\ last = None /\ count = 0

\* Recv with a stream of its own or with the one of the message before.
Receive(v, items, bytes, script) ==
  /\ count < MaxMessages /\ todo = <<>>
  /\ \E s \in {stream, NewStream(stream.buf)} :
       stream' = [From(s, bytes) EXCEPT !.scripts = @ \/ script]
  /\ todo' = [i \in 1..Len(items) |->
                [v |-> v, type |-> items[i].type, obj |-> items[i].obj, nth |-> i,
                 stable |-> \A j \in 1..i : items[j].type \in Stable]]
  /\ last' = None /\ count' = count + 1
  /\ UNCHANGED <<mine, checked>>

ReceiveStruct == \E v \in Versions : \E T \in DOMAIN Messages[v] : \E items \in Messages[v][T] :
  Receive(v, items, Bytes(v, items), FALSE)
ReceiveScript == \E v \in Versions : \E T \in DOMAIN Messages[v] : \E items \in Messages[v][T] :
  Receive(v, items, ScriptBytes(v, items), TRUE)
ReceiveRelayed == \E v \in Versions : \E T \in DOMAIN Messages[v] : \E items \in Messages[v][T] :
  Receive(v, items, Relayed(v, items), TRUE)

Read ==
  /\ todo # <<>>
  /\ LET one == ReadStruct(stream, mine, Head(todo).type, checked) IN
     /\ stream' = one.s
     /\ last' = [sent |-> Head(todo), got |-> one.v, refused |-> one.refused, v |-> mine]
     /\ todo' = IF one.refused THEN <<>> ELSE Tail(todo)
  /\ UNCHANGED <<mine, checked, count>>

\* The receiver answers with a message of its own: a new writer, but the same
\* buffer.
Reply ==
  /\ todo = <<>> /\ last # None
  /\ \E T \in DOMAIN Messages[mine] :
       stream' = [stream EXCEPT !.buf = Over(@, Bytes(mine, CHOOSE items \in Messages[mine][T] : TRUE))]
  /\ last' = None
  /\ UNCHANGED <<mine, checked, todo, count>>

\* The bound on messages is reached and the last one is read.
Done == count = MaxMessages /\ todo = <<>> /\ UNCHANGED vars

Next == ReceiveStruct \/ ReceiveScript \/ ReceiveRelayed \/ Read \/ Reply \/ Done

Spec == Init /\ [][Next]_vars
----------------------------------------------------------------------------
\* The stream stays within its buffer and every byte is a byte: a value that
\* claims to be longer than what is left must not move the index past the end
\* for good (myRead, TrytoMoveStructEnd).
TypeOK ==
  /\ mine \in Versions /\ count \in 0..MaxMessages
  /\ stream.r \in 0..BufLength /\ stream.w = 0
  /\ stream.buf \in [1..BufLength -> Byte]
  /\ {stream.ended, stream.dataEnd, stream.skip, stream.scripts, checked} \subseteq BOOLEAN

\* Between programs of the same version everything arrives as it was sent,
\* whatever is nested in it, whether generated code or a script wrote it or a
\* script read it and sent it on, and whatever the shared buffer still holds
\* of messages before (buildCS.cpp Read and Write, logicDataRead and
\* logicDataWrite).
SameVersionExact ==
  last # None /\ last.v = last.sent.v => ~last.refused /\ last.got = last.sent.obj

\* Programs of different versions read the fields both know as they were
\* written, as long as the versions differ in the tails of the outer
\* structures: in every structure of the message, and the others at their
\* default, when no script's message has come to the stream (IsStructEnd
\* behind every field, TrytoMoveStructEnd at the end); but in the first
\* structure even of a script's message, and of every message behind one,
\* for which From leaves the marks skipped.
CommonFieldsArrive ==
  last # None /\ ~last.refused /\ last.sent.stable =>
    \A i \in DOMAIN last.got :
      IF i \in DOMAIN last.sent.obj
      THEN ~stream.scripts \/ last.sent.nth = 1 => last.got[i] = last.sent.obj[i]
      ELSE ~stream.scripts => last.got[i] = Default(last.v, Schema[last.v][last.sent.type][i])

\* Written(v, f, wrote, got): got is wrote, or what is left of it where a
\* reader of version v came to an end too soon.
RECURSIVE Written(_, _, _, _)
Written(v, f, wrote, got) ==
  \/ got = Default(v, f)
  \/ f.kind \notin {"STRUCT", "ARRAY"} /\ got = wrote
  \/ f.kind = "STRUCT" /\ \A i \in DOMAIN got :
       IF i \in DOMAIN wrote THEN Written(v, Schema[v][f.of][i], wrote[i], got[i])
       ELSE got[i] = Default(v, Schema[v][f.of][i])
  \/ f.kind = "ARRAY" /\ Len(got) = Len(wrote) /\ \A i \in DOMAIN got : Written(v, f.of, wrote[i], got[i])

\* When nested structures differ too, fields may be lost, but in the first
\* structure of a message no field ever gets the value of another, or of an
\* earlier message that the shared buffer still holds; nor does a stream to
\* which no script's message has come ever take a byte of one that the buffer
\* still holds for the command to skip the marks.  Behind a script's message
\* a field may get another's value: TrytoMoveStructEnd does nothing then.
NeverMixed ==
  ~stream.scripts =>
    /\ ~stream.skip
    /\ last # None /\ last.sent.nth = 1 =>
         Written(last.v, Struct(last.sent.type), last.sent.obj, last.got)
=============================================================================
