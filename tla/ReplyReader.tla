----------------------------- MODULE ReplyReader -----------------------------
(***************************************************************************)
(* The incremental reader of replies (src/src/reader/reader.cc) behind the    *)
(* response builder (src/src/ResponseBuilder.cc): the bytes of a stream arrive *)
(* in chunks of any size, and each reply is handed out as soon as it is whole. *)
(* What is read is written by the encoders of requests and test replies.       *)
(* A byte is a string of one character.  A reply is put together when its last *)
(* element is there; the code fills an array it has already allocated.         *)
(***************************************************************************)
EXTENDS Integers, Sequences, FiniteSets, SequencesExt, TLC

CONSTANTS
  StackSize,    \* entries of rstack: 9
  DiscardAt,    \* consumed bytes that are worth moving the rest: 1024
  LLONG_MAX,
  Replies,      \* the replies the stream may hold
  MaxReplies,
  NumberTexts   \* texts tried as the value of an integer

VARIABLES
  wireBytes,       \* all bytes the server sends
  content,      \* the replies in it
  fed,          \* bytes of it that have arrived
  buf, pos,     \* redisReader
  rstack,       \* tasks: type, elements, and the items read so far
  reply,
  err,
  phase,        \* "feed", "pull", inside redisReaderGetReply(): "items", or "aborted"
  out           \* replies handed out

readerVars == <<wireBytes, content, fed, buf, pos, rstack, reply, err, phase, out>>

-----------------------------------------------------------------------------
(* Replies and their encoding *)

CRLF == <<"\r", "\n">>
DigitValue == [c \in {"0", "1", "2", "3", "4", "5", "6", "7", "8", "9"} |->
  CHOOSE d \in 0 .. 9 : ToString(d) = c]

RECURSIVE Decimal(_)
Decimal(n) ==
  IF n < 0 THEN <<"-">> \o Decimal(-n)
  ELSE IF n < 10 THEN <<ToString(n)>>
  ELSE Decimal(n \div 10) \o <<ToString(n % 10)>>

\* createReplyObject() and the functions that fill it in
Object(type, text, number, items) ==
  [type |-> type, text |-> text, number |-> number, items |-> items]
Nil == Object("nil", <<>>, 0, <<>>)

Prefix == [error |-> "-", status |-> "+", integer |-> ":", string |-> "$",
           array |-> "*", push |-> ">"]

\* ResponseBuilder::make*(), Formatting::serialize(), EncodedRequest
RECURSIVE Encode(_)
Encode(r) ==
  CASE r.type = "nil" -> <<"$", "-", "1">> \o CRLF
    [] r.type = "integer" -> <<":">> \o Decimal(r.number) \o CRLF
    [] r.type \in {"status", "error"} -> <<Prefix[r.type]>> \o r.text \o CRLF
    [] r.type = "string" ->
         <<"$">> \o Decimal(Len(r.text)) \o CRLF \o r.text \o CRLF
    [] r.type \in {"array", "push"} ->
         <<Prefix[r.type]>> \o Decimal(Len(r.items)) \o CRLF
           \o FlattenSeq([i \in DOMAIN r.items |-> Encode(r.items[i])])

\* EncodedRequest::fuseIntoBlock(): encodings, one behind the other
Fuse(requests) == FlattenSeq([i \in DOMAIN requests |-> Encode(requests[i])])

-----------------------------------------------------------------------------
(* Numbers *)

ULLONG_MAX == 2 * LLONG_MAX + 1
Bad == LLONG_MAX + 1     \* string2ll() fails

\* The digits from place i on, read until the end or an overflow.
Magnitude(text, i) ==
  LET v[k \in 0 .. Len(text)] ==
        IF k < i THEN 0
        ELSE IF text[k] \notin DOMAIN DigitValue THEN Bad + ULLONG_MAX
        ELSE LET u == v[k - 1]
             IN IF u > ULLONG_MAX \div 10 THEN Bad + ULLONG_MAX
                ELSE IF u * 10 > ULLONG_MAX - DigitValue[text[k]]
                     THEN Bad + ULLONG_MAX
                     ELSE u * 10 + DigitValue[text[k]]
  IN v[Len(text)]

string2ll(text) ==
  LET negative == text # <<>> /\ text[1] = "-"
      first == IF negative THEN 2 ELSE 1
      v == Magnitude(text, first)
  IN CASE text = <<"0">> -> 0
       [] text # <<"0">> /\ (Len(text) < first \/ text[first] = "0") -> Bad
       [] OTHER ->
            IF negative THEN IF v > LLONG_MAX + 1 THEN Bad ELSE -v
            ELSE IF v > LLONG_MAX THEN Bad ELSE v

-----------------------------------------------------------------------------
(* The state *)

NewTask == [type |-> "none", elements |-> -1, items |-> <<>>]

IsDecimal(n) == \E k \in -LLONG_MAX - 1 .. LLONG_MAX : n = Decimal(k)

\* What may stand behind the last whole reply and no reader accepts.
BadNumbers == {<<":">> \o n \o CRLF : n \in {n \in NumberTexts : ~IsDecimal(n)}}
BadItems == {<<"?">>, <<"$", "-", "2">> \o CRLF, <<"$", "x">> \o CRLF,
             <<"*", "-", "2">> \o CRLF, <<">", "0", "1">> \o CRLF,
             <<">", "1">> \o CRLF \o <<"*", "1">> \o CRLF,
             FlattenSeq([i \in 1 .. StackSize |-> <<"*", "1">> \o CRLF])}

\* The fresh reader of a ResponseBuilder
ReaderInit ==
  /\ content \in UNION {[1 .. n -> Replies] : n \in 0 .. MaxReplies}
       \cup {<<Object("integer", <<>>, k, <<>>)>> :
               k \in {k \in -LLONG_MAX - 1 .. LLONG_MAX : Decimal(k) \in NumberTexts}}
  /\ \/ \E tail \in CASE content = <<>> -> {<<>>} \cup BadItems \cup BadNumbers
                      [] Len(content) = 1 -> {<<>>} \cup BadItems
                      [] OTHER -> {<<>>} :
          wireBytes = Fuse(content) \o tail
     \/ content = <<Nil>> /\ wireBytes = <<"*", "-", "1">> \o CRLF
  /\ fed = 0 /\ buf = <<>> /\ pos = 0
  /\ rstack = <<>> /\ reply = Nil /\ err = FALSE
  /\ phase = "feed" /\ out = <<>>

-----------------------------------------------------------------------------
(* Items *)

Task == Last(rstack)
\* seekNewline(): the first CRLF at or behind the cursor
Newlines == {i \in pos + 1 .. Len(buf) - 1 : buf[i] = "\r" /\ buf[i + 1] = "\n"}
HasLine == Newlines # {}
LineEnd == CHOOSE i \in Newlines : \A j \in Newlines : i <= j
Line == SubSeq(buf, pos + 1, LineEnd - 1)

SetError ==
  /\ err' = TRUE
  /\ buf' = <<>> /\ pos' = 0 /\ rstack' = <<>> /\ reply' = Nil
  /\ phase' = "feed"

\* moveToNextTask(): the object goes to its parent; a parent that is complete
\* goes to its own.
RECURSIVE MoveToNextTask(_, _)
MoveToNextTask(stack, object) ==
  IF Len(stack) = 1 THEN [stack |-> <<>>, root |-> object]
  ELSE LET parents == Front(stack)
           filled == [Last(parents) EXCEPT !.items = Append(@, object)]
       IN IF Len(filled.items) = filled.elements
          THEN MoveToNextTask(parents,
                 Object(filled.type, <<>>, 0, filled.items))
          ELSE [stack |-> Append(Front(parents), filled) \o <<NewTask>>,
                root |-> Nil]

Finish(object, cursor) ==
  LET next == MoveToNextTask(rstack, object) IN
  /\ rstack' = next.stack /\ reply' = next.root
  /\ pos' = cursor
  /\ UNCHANGED <<err, buf, phase>>

\* processItem(): the type byte
ReadType ==
  /\ phase = "items" /\ rstack # <<>> /\ Task.type = "none" /\ pos < Len(buf)
  /\ \/ \E type \in DOMAIN Prefix :
          /\ buf[pos + 1] = Prefix[type]
          /\ rstack' = Append(Front(rstack), [Task EXCEPT !.type = type])
          /\ pos' = pos + 1
          /\ UNCHANGED <<buf, reply, err, phase>>
     \/ /\ \A type \in DOMAIN Prefix : buf[pos + 1] # Prefix[type]
        /\ SetError
  /\ UNCHANGED <<wireBytes, content, fed, out>>

ProcessLineItem ==
  /\ phase = "items" /\ rstack # <<>>
  /\ Task.type \in {"error", "status", "integer"} /\ HasLine
  /\ IF Task.type = "integer"
     THEN IF string2ll(Line) = Bad THEN SetError
          ELSE Finish(Object("integer", <<>>, string2ll(Line), <<>>), LineEnd + 1)
     ELSE Finish(Object(Task.type, Line, 0, <<>>), LineEnd + 1)
  /\ UNCHANGED <<wireBytes, content, fed, out>>

\* The whole bulk is in the buffer.
BulkEnd == LineEnd + 1 + string2ll(Line) + 2
BulkComplete ==
  \/ string2ll(Line) = Bad \/ string2ll(Line) <= -1
  \/ BulkEnd <= Len(buf)

ProcessBulkItem ==
  /\ phase = "items" /\ rstack # <<>>
  /\ Task.type = "string" /\ HasLine /\ BulkComplete
  /\ LET len == string2ll(Line) IN
     CASE len = Bad \/ len < -1 -> SetError
       [] len = -1 -> Finish(Nil, LineEnd + 1)
       [] len # Bad /\ len >= 0 ->
            Finish(Object("string", SubSeq(buf, LineEnd + 2, LineEnd + 1 + len),
                          0, <<>>), BulkEnd)
  /\ UNCHANGED <<wireBytes, content, fed, out>>

\* createArrayObject() asserts that what an array or a push is in is an array.
InArray == Len(rstack) = 1 \/ Last(Front(rstack)).type = "array"
Abort == phase' = "aborted" /\ UNCHANGED <<buf, pos, rstack, reply, err>>

ProcessMultiBulkItem ==
  /\ phase = "items" /\ rstack # <<>>
  /\ Task.type \in {"array", "push"}
  /\ \/ /\ Len(rstack) = StackSize
        /\ SetError
     \/ /\ Len(rstack) < StackSize /\ HasLine
        /\ LET elements == string2ll(Line) IN
           CASE elements = Bad \/ elements < -1 -> SetError
             [] elements = -1 -> Finish(Nil, LineEnd + 1)
             [] elements # Bad /\ elements >= 0 /\ ~InArray -> Abort
             [] elements = 0 /\ InArray -> Finish(Object(Task.type, <<>>, 0, <<>>), LineEnd + 1)
             [] elements # Bad /\ elements > 0 /\ InArray ->
                  /\ rstack' = Append(Front(rstack),
                                 [Task EXCEPT !.elements = elements]) \o <<NewTask>>
                  /\ pos' = LineEnd + 1
                  /\ UNCHANGED <<buf, reply, err, phase>>
  /\ UNCHANGED <<wireBytes, content, fed, out>>

\* processItem() returns REDIS_ERR without an error: bytes are missing.
Starving ==
  /\ rstack # <<>>
  /\ CASE Task.type = "none" -> pos = Len(buf)
       [] Task.type = "string" -> HasLine => ~BulkComplete
       [] Task.type \in {"array", "push"} -> Len(rstack) < StackSize /\ ~HasLine
       [] OTHER -> ~HasLine

-----------------------------------------------------------------------------
(* redisReaderFeed(), redisReaderGetReply() *)

Feed ==
  /\ phase = "feed" /\ ~err /\ fed < Len(wireBytes)
  /\ \E n \in 1 .. Len(wireBytes) - fed :
       /\ buf' = buf \o SubSeq(wireBytes, fed + 1, fed + n)
       /\ fed' = fed + n
  /\ phase' = "pull"
  /\ UNCHANGED <<wireBytes, content, pos, rstack, reply, err, out>>

GetReply ==
  /\ phase = "pull"
  /\ IF buf = <<>> THEN phase' = "feed" /\ UNCHANGED rstack
     ELSE /\ phase' = "items"
          /\ rstack' = IF rstack = <<>> THEN <<NewTask>> ELSE rstack
  /\ UNCHANGED <<wireBytes, content, fed, buf, pos, reply, err, out>>

\* Mutant: the cursor is not set back when the bytes before it are gone.
DiscardKeepsCursor ==
  /\ buf' = IF pos >= DiscardAt THEN SubSeq(buf, pos + 1, Len(buf)) ELSE buf
  /\ UNCHANGED pos

Discard ==
  IF pos >= DiscardAt
  THEN buf' = SubSeq(buf, pos + 1, Len(buf)) /\ pos' = 0
  ELSE UNCHANGED <<buf, pos>>

\* The loop over items has ended; the caller goes on until nothing is whole.
EndOfItems ==
  /\ phase = "items" /\ (rstack = <<>> \/ Starving)
  /\ Discard
  /\ IF rstack = <<>>
     THEN out' = Append(out, reply) /\ phase' = "pull"
     ELSE phase' = "feed" /\ UNCHANGED out
  /\ reply' = IF rstack = <<>> THEN Nil ELSE reply
  /\ UNCHANGED <<wireBytes, content, fed, rstack, err>>

ReaderNext ==
  \/ Feed \/ GetReply \/ ReadType \/ ProcessLineItem \/ ProcessBulkItem
  \/ ProcessMultiBulkItem \/ EndOfItems

-----------------------------------------------------------------------------
(* Properties *)

\* Bytes of the stream up to the end of its k-th reply
EndOf(k) == Len(Fuse(SubSeq(content, 1, k)))

\* However the stream is cut into chunks, the replies handed out are those whose
\* last byte has arrived, as they were encoded; numbers are accepted exactly when
\* they are the decimal form of a long long, as string2ll() demands; and a stream
\* is given up only if it is malformed, and then for good.  An array inside a push
\* ends the process.
ReadAsEncoded ==
  /\ Len(out) <= Len(content)
  /\ \A k \in DOMAIN out : out[k] = content[k]
  /\ phase = "feed" =>
       Len(out) = Cardinality({k \in DOMAIN content : EndOf(k) <= fed})
  /\ err \/ phase = "aborted" => fed > EndOf(Len(content))
  /\ (phase = "feed" /\ fed = Len(wireBytes) /\ fed > EndOf(Len(content))) => err
=============================================================================
