------------------------------- MODULE Messages -------------------------------
(***************************************************************************)
(* The messages between the programs, from an object of one of the message *)
(* classes to bytes (is_valid, message_size, to_bytes), over a connection, *)
(* and back into a new object of the class (from_bytes).                   *)
(*                                                                         *)
(* A buffer is a sequence of cells, one for each byte: a byte of an int or *)
(* of a short, a character, or what the memory held.  A step copies one    *)
(* field between an object and the buffer, at pos, as a memcpy does.       *)
(***************************************************************************)
EXTENDS Integers, SequencesExt

CONSTANTS
  Sent,     \* the messages that are sent
  IntLen,   \* sizeof(int)
  ShortLen  \* sizeof(short)

NUL == 0

Numbered == {"AddRFCMessage", "LookupRFCMessage", "GetRFCMessage"}
Listing == {"ListRFCResponse", "LookupRFCResponse"}
Responses == Listing \cup {"AddRFCResponse", "GetRFCResponse"}
Kinds == Numbered \cup {"ListRFCMessage"} \cup Responses

\* An object of a class as its default constructor makes it; the fields that
\* the class does not have stay as they are here.
Fresh(kind) ==
  [kind |-> kind, number |-> 0, code |-> 0, text |-> <<>>, port |-> 0, list |-> <<>>]

\* What an object of a class may be: it has the fields of that class.  The host
\* of a client in a list has been received as a C string; a Client has no number.
Object(m) ==
  /\ m \in [kind : Kinds, number : Int, code : Int, text : Seq(Nat), port : Int,
            list : Seq([rfc : Int, host : Seq(Nat \ {NUL}), port : Int])]
  /\ m.kind \notin Numbered => m.number = 0
  /\ m.kind \notin Responses => m.code = 0
  /\ m.kind \notin {"ListRFCMessage", "GetRFCResponse"} => m.text = <<>>
  /\ m.kind # "ListRFCMessage" => m.port = 0
  /\ m.kind \notin Listing => m.list = <<>>
  /\ m.kind = "LookupRFCResponse" => \A i \in DOMAIN m.list : m.list[i].rfc = 0

ASSUME MessagesAssumption ==
  /\ IntLen \in Nat \ {0} /\ ShortLen \in Nat \ {0}
  /\ \A m \in Sent : Object(m)

VARIABLES
  msg,     \* the object at the sender
  buf,     \* the bytes it makes, and then the same at the receiver
  pos,     \* pos of to_bytes, and then of from_bytes
  pc,      \* what is copied next
  todo,    \* the fields that to_bytes has yet to copy
  out,     \* the object at the receiver
  entry,   \* the list entry it is reading
  left,    \* how many more there are, with that one
  len      \* len_host, or length

writer == <<msg, buf, todo>>
reader == <<out, entry, left, len>>
vars == <<writer, reader, pos, pc>>

-----------------------------------------------------------------------------
(* The objects *)

NoEntry == [rfc |-> 0, host |-> <<>>, port |-> 0]
Codes == {200, 400, 404, 505}

\* is_valid
Valid(m) ==
  CASE m.kind \in Numbered -> m.number > 0
    [] m.kind = "ListRFCMessage" -> m.text # <<>> /\ m.port > 0
    [] m.kind = "AddRFCResponse" -> m.code \in Codes
    [] m.kind = "GetRFCResponse" -> m.code \in Codes /\ (m.code = 200 => m.text # <<>>)
    [] m.kind \in Listing ->
         /\ m.code \in Codes
         /\ m.code = 200 => \A i \in DOMAIN m.list :
              m.list[i].host # <<>> /\ m.list[i].port > 0

NumberSize(kind) == IF kind = "GetRFCMessage" THEN ShortLen ELSE IntLen

\* Mutant of EntrySize: the number of a holder is not counted.
EntrySizeBare(kind, e) == IntLen + Len(e.host) + IntLen

EntrySize(kind, e) ==
  (IF kind = "ListRFCResponse" THEN IntLen ELSE 0) + IntLen + Len(e.host) + IntLen

ListSize(m) ==
  LET upto[i \in 0..Len(m.list)] ==
        IF i = 0 THEN IntLen + IntLen ELSE upto[i - 1] + EntrySize(m.kind, m.list[i])
  IN  upto[Len(m.list)]

\* message_size
Size(m) ==
  CASE m.kind \in Numbered -> NumberSize(m.kind)
    [] m.kind = "AddRFCResponse" -> IntLen
    [] m.kind \in {"ListRFCMessage", "GetRFCResponse"} -> IntLen + Len(m.text) + IntLen
    [] m.kind \in Listing -> ListSize(m)

-----------------------------------------------------------------------------
(* The bytes *)

\* The bytes of a number in network order, a character, and what memory held.
Word(v, width) == [k \in 1..width |-> <<v, k>>]
Chars(s) == [i \in DOMAIN s |-> <<s[i], 0>>]
Blank == <<0, -1>>

\* std::string(char*): up to the first NUL.
CString(s) ==
  LET ends == { i \in DOMAIN s : s[i] = NUL }
  IN  IF ends = {} THEN s ELSE SubSeq(s, 1, Min(ends) - 1)

EntryFields(kind, e) ==
  (IF kind = "ListRFCResponse" THEN <<Word(e.rfc, IntLen)>> ELSE <<>>)
    \o <<Word(Len(e.host), IntLen), Chars(e.host), Word(e.port, IntLen)>>

\* What to_bytes copies, in its order.  Only a 200 carries more than its code.
Fields(m) ==
  CASE m.kind \in Numbered -> <<Word(m.number, NumberSize(m.kind))>>
    [] m.kind = "ListRFCMessage" ->
         <<Word(Len(m.text), IntLen), Chars(m.text), Word(m.port, IntLen)>>
    [] m.kind = "GetRFCResponse" /\ m.code = 200 ->
         <<Word(m.code, IntLen), Word(Len(m.text), IntLen), Chars(m.text)>>
    [] m.kind \in Listing /\ m.code = 200 ->
         <<Word(m.code, IntLen), Word(Len(m.list), IntLen)>>
           \o FlattenSeq([i \in DOMAIN m.list |-> EntryFields(m.kind, m.list[i])])
    [] OTHER -> <<Word(m.code, IntLen)>>

-----------------------------------------------------------------------------
Init ==
  /\ msg \in Sent
  /\ buf = <<>> /\ pos = 0 /\ pc = "to_bytes" /\ todo = <<>>
  /\ out = Fresh(msg.kind) /\ entry = NoEntry /\ left = 0 /\ len = 0

(* to_bytes *)

Allocate ==
  /\ pc = "to_bytes" /\ Valid(msg)
  /\ buf' = [i \in 1..Size(msg) |-> Blank]
  /\ todo' = Fields(msg)
  /\ pc' = "write"
  /\ UNCHANGED <<msg, pos, reader>>

\* A nullptr, from which the caller has message_size bytes encrypted: the end
\* of its process.
Refuse ==
  /\ pc = "to_bytes" /\ ~Valid(msg)
  /\ pc' = "ended"
  /\ UNCHANGED <<writer, pos, reader>>

\* A memcpy to buf + pos.
WriteField ==
  /\ pc = "write" /\ todo # <<>>
  /\ LET cells == Head(todo) IN
       /\ buf' = [i \in DOMAIN buf |->
                   IF i - pos \in DOMAIN cells THEN cells[i - pos] ELSE buf[i]]
       /\ pos' = pos + Len(cells)
  /\ todo' = Tail(todo)
  /\ UNCHANGED <<msg, pc, reader>>

-----------------------------------------------------------------------------
(* from_bytes *)

\* All of the buffer is sent, and received into one of the same size.
Transfer ==
  /\ pc = "write" /\ todo = <<>>
  /\ pos' = 0
  /\ pc' = CASE msg.kind \in Numbered -> "number"
              [] msg.kind = "ListRFCMessage" -> "len"
              [] OTHER -> "code"
  /\ UNCHANGED <<writer, reader>>

\* A memcpy of a number from bytes + pos, and ntohl: v.  Bytes that are not
\* those of one number, or not in the buffer, are not read as one.
ReadsWord(label, v, width) ==
  /\ pc = label
  /\ pos + width <= Len(buf)
  /\ SubSeq(buf, pos + 1, pos + width) = Word(v, width)
  /\ pos' = pos + width
  /\ UNCHANGED writer

\* The number that begins at pos.
Value == IF pos < Len(buf) THEN buf[pos + 1][1] ELSE 0

\* Mutant of EntryStart: a holder is read as a client is.
EntryStartOfClient(kind) == "len"

\* Where a pass of the loop over the list begins.
EntryStart(kind) == IF kind = "ListRFCResponse" THEN "rfc" ELSE "len"

ReadNumber ==
  /\ ReadsWord("number", Value, NumberSize(out.kind))
  /\ out' = [out EXCEPT !.number = Value]
  /\ pc' = "done"
  /\ UNCHANGED <<entry, left, len>>

ReadCode ==
  /\ ReadsWord("code", Value, IntLen)
  /\ out' = [out EXCEPT !.code = Value]
  /\ pc' = CASE Value = 200 /\ out.kind \in Listing -> "len_list"
              [] Value = 200 /\ out.kind = "GetRFCResponse" -> "len"
              [] OTHER -> "done"
  /\ UNCHANGED <<entry, left, len>>

ReadLenList ==
  /\ ReadsWord("len_list", Value, IntLen)
  /\ left' = Value
  /\ pc' = IF Value > 0 THEN EntryStart(out.kind) ELSE "done"
  /\ UNCHANGED <<out, entry, len>>

ReadRfc ==
  /\ ReadsWord("rfc", Value, IntLen)
  /\ entry' = [entry EXCEPT !.rfc = Value]
  /\ pc' = "len"
  /\ UNCHANGED <<out, left, len>>

ReadLen ==
  /\ ReadsWord("len", Value, IntLen)
  /\ len' = Value
  /\ pc' = "text"
  /\ UNCHANGED <<out, entry, left>>

\* A memcpy of len characters, a NUL behind them, and std::string.
ReadText ==
  /\ pc = "text"
  /\ pos + len <= Len(buf)
  /\ \A i \in (pos + 1)..(pos + len) : buf[i][2] = 0
  /\ LET s == CString([i \in 1..len |-> buf[pos + i][1]]) IN
       IF out.kind \in Listing
       THEN entry' = [entry EXCEPT !.host = s] /\ UNCHANGED out
       ELSE out' = [out EXCEPT !.text = s] /\ UNCHANGED entry
  /\ pos' = pos + len
  /\ pc' = IF out.kind = "GetRFCResponse" THEN "done" ELSE "port"
  /\ UNCHANGED <<writer, left, len>>

ReadPort ==
  /\ ReadsWord("port", Value, IntLen)
  /\ out.kind = "ListRFCMessage"
  /\ out' = [out EXCEPT !.port = Value]
  /\ pc' = "done"
  /\ UNCHANGED <<entry, left, len>>

\* Mutant of Pushed: push_front.
PushedInFront(list, e) == <<e>> \o list

Pushed(list, e) == Append(list, e)

\* The port of an entry, which is then pushed to the list.
ReadEntry ==
  /\ ReadsWord("port", Value, IntLen)
  /\ out.kind \in Listing
  /\ out' = [out EXCEPT !.list = Pushed(@, [entry EXCEPT !.port = Value])]
  /\ entry' = NoEntry /\ left' = left - 1
  /\ pc' = IF left > 1 THEN EntryStart(out.kind) ELSE "done"
  /\ UNCHANGED len

Read ==
  \/ ReadNumber \/ ReadCode \/ ReadLenList \/ ReadRfc \/ ReadLen
  \/ ReadText \/ ReadPort \/ ReadEntry

Next == Allocate \/ Refuse \/ WriteField \/ Transfer \/ Read

Spec == Init /\ [][Next]_vars

FairSpec == Spec /\ WF_vars(Next)

-----------------------------------------------------------------------------
(* Properties *)

\* Every copy of to_bytes and of from_bytes stays inside the buffer.
TypeOK ==
  /\ msg \in Sent /\ out.kind \in Kinds
  /\ pc \in {"to_bytes", "ended", "write", "number", "code", "len_list", "rfc", "len",
             "text", "port", "done"}
  /\ buf \in Seq(Int \X Int)
  /\ pos \in 0..Len(buf)
  /\ left \in 0..Len(msg.list) /\ len \in 0..Len(buf)

\* What is exported: of a response that is not a 200 the code alone, of a text
\* what comes before a NUL.
Exported(m) ==
  IF m.code \in {0, 200} THEN [m EXCEPT !.text = CString(@)]
  ELSE [Fresh(m.kind) EXCEPT !.code = m.code]

\* A receiver's object is equal to the sender's: each field, every entry of a
\* list and their order, although the two are written separately, field by
\* field, in two functions for each of the classes.
ArrivesAsSent == pc = "done" => out = Exported(msg)

\* from_bytes meets a field wherever it reads one, and has read all of what
\* message_size says was sent, unless that is more than a code other than 200
\* fills.
ReadToTheEnd ==
  <>(\/ pc = "ended"
     \/ pc = "done" /\ (msg.code \in {0, 200} => pos = Len(buf)))

=============================================================================
