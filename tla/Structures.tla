------------------------------ MODULE Structures ------------------------------
(***************************************************************************)
(* A hash and a set at the server, used by one thread through QHash and QSet   *)
(* (src/include/qclient/structures, src/src/structures): calls that wait for   *)
(* the reply, and calls that leave it to an AsyncHandler                       *)
(* (src/src/AsyncHandler.cc).  The connection carries commands in the order of *)
(* QClient::execute(); an answer is null when it gives up.                     *)
(***************************************************************************)
EXTENDS Integers, Sequences, FiniteSets, SequencesExt

CONSTANTS
  HashFields, FieldValues,
  MaxValue,       \* bound on a value hincrby() makes
  MaxFlight       \* bound on the calls whose reply was not looked at yet
ASSUME StructuresAssumption ==
  FieldValues \subseteq 1 .. MaxValue /\ MaxValue \in Nat /\ MaxFlight \in Nat

VARIABLES
  server,       \* contents of the hash and of the set
  flight,       \* calls in order: command, reply if it has one, and what is due
  calling,      \* the last of them waits for its reply
  responses,    \* AsyncHandler::mResponses, of which calls
  direct,       \* contents if every call took effect when it was made
  lost,         \* an answer was null
  returned      \* what the last call to return has returned, and what was due

structuresVars == <<server, flight, calling, responses, direct, lost, returned>>

NoReply == <<"not yet">>
NoAnswer == <<"null">>
Raised == <<"exception">>
Nothing == [call |-> "none", got |-> <<"none">>, due |-> <<"none">>, null |-> <<>>]
Undefined == <<"undefined">>     \* a null pointer is dereferenced
EINVAL == 22
NoField == 0                     \* hget() on a field that is not there: ""

HashHas(s, f) == f \in DOMAIN s.hash
Field(f, v) == [g \in {f} |-> v]
Merged(g, h) == [f \in DOMAIN g \cup DOMAIN h |-> IF f \in DOMAIN g THEN g[f] ELSE h[f]]

-----------------------------------------------------------------------------
(* The server *)

Updated(s, c) ==
  CASE c.name \in {"HSET", "HMSET"} -> [s EXCEPT !.hash = Merged(c.pairs, @)]
    [] c.name = "HSETNX" -> [s EXCEPT !.hash = Merged(@, c.pairs)]
    [] c.name = "HDEL" -> [s EXCEPT !.hash = [f \in DOMAIN @ \ {c.field} |-> @[f]]]
    [] c.name \in {"HINCRBY", "HINCRBYFLOAT"} ->
         LET old == IF HashHas(s, c.field) THEN s.hash[c.field] ELSE 0
         IN  [s EXCEPT !.hash = Merged(Field(c.field, 1 + old), @)]
    [] c.name = "SADD" -> [s EXCEPT !.set = @ \cup c.members]
    [] c.name = "SREM" -> [s EXCEPT !.set = @ \ c.members]
    [] OTHER -> s

Integer(n) == <<"integer", n>>
ServerReply(s, c) ==
  LET t == Updated(s, c)
      change == Cardinality(DOMAIN t.hash) - Cardinality(DOMAIN s.hash)
  IN CASE c.name \in {"HSET", "HSETNX"} -> Integer(change)
       [] c.name = "HMSET" -> <<"status", "OK">>
       [] c.name = "HDEL" -> Integer(-change)
       [] c.name = "HINCRBY" -> Integer(t.hash[c.field])
       [] c.name = "HINCRBYFLOAT" -> <<"string", t.hash[c.field]>>
       [] c.name = "HGET" -> IF HashHas(s, c.field) THEN <<"string", s.hash[c.field]>>
                             ELSE <<"nil">>
       [] c.name = "HEXISTS" -> Integer(IF HashHas(s, c.field) THEN 1 ELSE 0)
       [] c.name = "HLEN" -> Integer(Cardinality(DOMAIN s.hash))
       [] c.name = "HGETALL" ->
            <<"array", FlattenSeq([i \in 1 .. Cardinality(DOMAIN s.hash) |->
                         LET f == SetToSeq(DOMAIN s.hash)[i] IN <<f, s.hash[f]>>])>>
       [] c.name = "HKEYS" -> <<"array", SetToSeq(DOMAIN s.hash)>>
       [] c.name = "HVALS" ->
            <<"array", [i \in 1 .. Cardinality(DOMAIN s.hash) |->
                          s.hash[SetToSeq(DOMAIN s.hash)[i]]]>>
       [] c.name = "SADD" -> Integer(Cardinality(t.set) - Cardinality(s.set))
       [] c.name = "SREM" -> Integer(Cardinality(s.set) - Cardinality(t.set))
       [] c.name = "SCARD" -> Integer(Cardinality(s.set))
       [] c.name = "SISMEMBER" -> Integer(IF c.members \subseteq s.set THEN 1 ELSE 0)
       [] c.name = "SMEMBERS" -> <<"array", SetToSeq(s.set)>>

-----------------------------------------------------------------------------
(* What a call makes of the reply *)

Type(reply) == reply[1]
Expecting(types, reply, result) == IF Type(reply) \in types THEN result ELSE Raised

IsOne(reply) == Expecting({"integer"}, reply, <<"bool", reply[2] = 1>>)
AsNumber(reply) == Expecting({"integer"}, reply, <<"number", reply[2]>>)
AsList(reply) == Expecting({"array"}, reply, <<"list", reply[2]>>)
Unchecked(reply, result) == IF reply = NoAnswer THEN Undefined ELSE result

hget_result(reply) ==
  Expecting({"string", "nil"}, reply,
            <<"string", IF Type(reply) = "nil" THEN NoField ELSE reply[2]>>)
hset_result(reply) == IsOne(reply)
hsetnx_result(reply) == IsOne(reply)
hmset_result(reply) == Expecting({"status"}, reply, <<"bool", TRUE>>)
hdel_result(reply) == IsOne(reply)
hgetall_result(reply) == AsList(reply)
hexists_result(reply) == Unchecked(reply, IsOne(reply))
hlen_result(reply) == Unchecked(reply, AsNumber(reply))
hincrby_result(reply) == AsNumber(reply)
hincrbyfloat_result(reply) == Expecting({"string"}, reply, <<"number", reply[2]>>)
hkeys_result(reply) == AsList(reply)
hvals_result(reply) == AsList(reply)
sadd_result(reply) == IsOne(reply)
sadd_list_result(reply) == AsNumber(reply)
srem_result(reply) == IsOne(reply)
srem_list_result(reply) == AsNumber(reply)
scard_result(reply) == AsNumber(reply)
sismember_result(reply) == IsOne(reply)
smembers_result(reply) == Expecting({"array"}, reply, <<"set", ToSet(reply[2])>>)

Result(call, reply) ==
  CASE call = "hget" -> hget_result(reply) [] call = "hset" -> hset_result(reply)
    [] call = "hsetnx" -> hsetnx_result(reply) [] call = "hmset" -> hmset_result(reply)
    [] call = "hdel" -> hdel_result(reply) [] call = "hgetall" -> hgetall_result(reply)
    [] call = "hexists" -> hexists_result(reply) [] call = "hlen" -> hlen_result(reply)
    [] call = "hincrby" -> hincrby_result(reply)
    [] call = "hincrbyfloat" -> hincrbyfloat_result(reply)
    [] call = "hkeys" -> hkeys_result(reply) [] call = "hvals" -> hvals_result(reply)
    [] call = "sadd" -> sadd_result(reply) [] call = "sadd_list" -> sadd_list_result(reply)
    [] call = "srem" -> srem_result(reply) [] call = "srem_list" -> srem_list_result(reply)
    [] call = "scard" -> scard_result(reply)
    [] call = "sismember" -> sismember_result(reply)
    [] call = "smembers" -> smembers_result(reply)

\* The element AsyncHandler::Wait() puts in the list of responses
Response(reply) ==
  CASE Type(reply) = "integer" -> reply[2]
    [] Type(reply) = "status" -> IF reply[2] = "OK" THEN 1 ELSE -1
    [] OTHER -> -EINVAL

-----------------------------------------------------------------------------
(* What the calls promise, told without commands and replies *)

Meaning(call, c, s) ==
  LET there == HashHas(s, c.field)
      fields == DOMAIN s.hash
      old == IF there THEN s.hash[c.field] ELSE 0
  IN CASE call = "hget" -> <<"string", IF there THEN s.hash[c.field] ELSE NoField>>
       [] call = "hsetnx" -> <<"bool", ~there>>
       [] call \in {"hset", "hmset"} -> <<"bool", TRUE>>
       [] call \in {"hdel", "hexists"} -> <<"bool", there>>
       [] call = "hgetall" ->
            <<"list", FlattenSeq([i \in 1 .. Cardinality(fields) |->
                        <<SetToSeq(fields)[i], s.hash[SetToSeq(fields)[i]]>>])>>
       [] call = "hlen" -> <<"number", Cardinality(fields)>>
       [] call \in {"hincrby", "hincrbyfloat"} -> <<"number", old + 1>>
       [] call = "hkeys" -> <<"list", SetToSeq(fields)>>
       [] call = "hvals" -> <<"list", [i \in 1 .. Cardinality(fields) |->
                                         s.hash[SetToSeq(fields)[i]]]>>
       [] call = "sadd" -> <<"bool", c.members \cap s.set = {}>>
       [] call = "sadd_list" -> <<"number", Cardinality(c.members \ s.set)>>
       [] call \in {"srem", "sismember"} -> <<"bool", c.members \subseteq s.set>>
       [] call = "srem_list" -> <<"number", Cardinality(c.members \cap s.set)>>
       [] call = "scard" -> <<"number", Cardinality(s.set)>>
       [] call = "smembers" -> <<"set", s.set>>

\* hset() promises "true if successful" (QHash.hh:136), but returns false when it
\* overwrites; the list of responses has the server's 0 for it.  All other calls are
\* due what they promise.
Due(call, c, s) ==
  IF call = "hset" /\ HashHas(s, c.field) THEN <<"bool", FALSE>> ELSE Meaning(call, c, s)

AsResponse(due) == IF due[1] = "bool" THEN IF due[2] THEN 1 ELSE 0 ELSE due[2]

-----------------------------------------------------------------------------
(* Calls *)

StructuresInit ==
  /\ server = [hash |-> <<>>, set |-> {}] /\ direct = server
  /\ flight = <<>> /\ calling = FALSE
  /\ responses = <<>> /\ lost = FALSE
  /\ returned = Nothing

\* Bound: no call after one whose answer was null
Callable == ~calling /\ ~lost

\* QClient::execute()
Execute(call, c) ==
  /\ Callable /\ Len(flight) < MaxFlight
  /\ flight' = Append(flight, [call |-> call, command |-> c, reply |-> NoReply,
                               due |-> Due(call, c, direct)])
  /\ direct' = Updated(direct, c)
  /\ returned' = Nothing
  /\ UNCHANGED <<server, lost>>

\* QClient::exec(...).get()
Sync(call, c) == Execute(call, c) /\ calling' = TRUE /\ UNCHANGED responses

\* AsyncHandler::Register(); the futures in flight are AsyncHandler::mRequests.
Register(call, c) == Execute(call, c) /\ responses' = <<>> /\ UNCHANGED calling

AnyField == CHOOSE f \in HashFields : TRUE
OnField(name, field) == [name |-> name, field |-> field]
Sets(name, f, v) == [name |-> name, field |-> f, pairs |-> Field(f, v)]
SetsEach(F, v) == [name |-> "HMSET", field |-> AnyField, pairs |-> [f \in F |-> v]]
OnMembers(name, members) == [name |-> name, field |-> AnyField, members |-> members]
Several == {M \in SUBSET HashFields : IsFiniteSet(M) /\ Cardinality(M) > 1}
Small(f) == HashHas(direct, f) => direct.hash[f] < MaxValue

hget == \E f \in HashFields : Sync("hget", OnField("HGET", f))
hset == \E f \in HashFields, v \in FieldValues : Sync("hset", Sets("HSET", f, v))
hset_async == \E f \in HashFields, v \in FieldValues : Register("hset", Sets("HSET", f, v))
hsetnx == \E f \in HashFields, v \in FieldValues : Sync("hsetnx", Sets("HSETNX", f, v))
hmset == \E F \in Several, v \in FieldValues :
           Sync("hmset", SetsEach(F, v))
hdel == \E f \in HashFields : Sync("hdel", OnField("HDEL", f))
hdel_async == \E f \in HashFields : Register("hdel", OnField("HDEL", f))
hgetall == Sync("hgetall", OnField("HGETALL", AnyField))
hexists == \E f \in HashFields : Sync("hexists", OnField("HEXISTS", f))
hlen == Sync("hlen", OnField("HLEN", AnyField))
hlen_async == Register("hlen", OnField("HLEN", AnyField))
hincrby == \E f \in HashFields : Small(f) /\ Sync("hincrby", OnField("HINCRBY", f))
hincrby_async == \E f \in HashFields : Small(f) /\ Register("hincrby", OnField("HINCRBY", f))
hincrbyfloat == \E f \in HashFields : Small(f) /\ Sync("hincrbyfloat", OnField("HINCRBYFLOAT", f))
hkeys == Sync("hkeys", OnField("HKEYS", AnyField))
hvals == Sync("hvals", OnField("HVALS", AnyField))
sadd == \E f \in HashFields : Sync("sadd", OnMembers("SADD", {f}))
sadd_list == \E M \in Several : Sync("sadd_list", OnMembers("SADD", M))
sadd_async == \E f \in HashFields : Register("sadd_list", OnMembers("SADD", {f}))
sadd_async_list == \E M \in Several : Register("sadd_list", OnMembers("SADD", M))
srem == \E f \in HashFields : Sync("srem", OnMembers("SREM", {f}))
srem_list == \E M \in Several : Sync("srem_list", OnMembers("SREM", M))
srem_async == \E f \in HashFields : Register("srem_list", OnMembers("SREM", {f}))
scard == Sync("scard", OnMembers("SCARD", {}))
sismember == \E f \in HashFields : Sync("sismember", OnMembers("SISMEMBER", {f}))
smembers == Sync("smembers", OnMembers("SMEMBERS", {}))

-----------------------------------------------------------------------------
(* Answers *)

\* The server performs the next command; when the connection gives up, nobody
\* knows whether it did.
Unanswered == {i \in DOMAIN flight : flight[i].reply = NoReply}
ServerAnswers ==
  /\ Unanswered # {}
  /\ LET next == CHOOSE i \in Unanswered : \A j \in Unanswered : i <= j
         c == flight[next].command
     IN \/ /\ server' = Updated(server, c)
           /\ flight' = [flight EXCEPT ![next].reply = ServerReply(server, c)]
           /\ UNCHANGED lost
        \/ /\ server' \in {server, Updated(server, c)}
           /\ flight' = [flight EXCEPT ![next].reply = NoAnswer]
           /\ lost' = TRUE
  /\ UNCHANGED <<calling, responses, direct, returned>>

\* The future of a call that waits is ready.
Return ==
  /\ calling /\ Last(flight).reply # NoReply
  /\ LET f == Last(flight) IN
     returned' = [call |-> f.call, got |-> Result(f.call, f.reply), due |-> f.due,
                  null |-> <<f.reply = NoAnswer>>]
  /\ calling' = FALSE
  /\ flight' = Front(flight)
  /\ UNCHANGED <<server, responses, direct, lost>>

Fine(reply) == Type(reply) = "integer" \/ reply = <<"status", "OK">>
Waited(collected) ==
  /\ ~calling /\ flight # <<>> /\ Unanswered = {}
  /\ responses' = collected
  /\ returned' = [call |-> "Wait",
                  got |-> <<"bool", \A i \in DOMAIN flight : Fine(flight[i].reply)>>,
                  due |-> <<"bool", TRUE>>, null |-> <<>>]
  /\ flight' = <<>>
  /\ UNCHANGED <<server, calling, direct, lost>>

Collected(f) ==
  [value |-> Response(f.reply), due |-> AsResponse(f.due), null |-> f.reply = NoAnswer]

\* Mutant: a null reply is skipped.
WaitSkipsNull ==
  LET all == [i \in DOMAIN flight |-> Collected(flight[i])]
      some == SelectSeq(all, LAMBDA r : ~r.null)
  IN Waited([i \in DOMAIN some |-> [all[i] EXCEPT !.value = some[i].value]])

\* AsyncHandler::Wait(): it returns whether all is well.
Wait == Waited([i \in DOMAIN flight |-> Collected(flight[i])])

\* AsyncHandler::GetResponses(): empty if a call was registered since Wait()
GetResponses ==
  /\ ~calling /\ responses # <<>>
  /\ returned' = [call |-> "GetResponses",
                  got |-> <<"list", [i \in DOMAIN responses |-> responses[i].value]>>,
                  due |-> <<"list", [i \in DOMAIN responses |-> responses[i].due]>>,
                  null |-> [i \in DOMAIN responses |-> responses[i].null]]
  /\ UNCHANGED <<server, flight, calling, responses, direct, lost>>

StructuresNext ==
  \/ hget \/ hset \/ hset_async \/ hsetnx \/ hmset \/ hdel \/ hdel_async \/ hgetall
  \/ hexists \/ hlen \/ hlen_async \/ hincrby \/ hincrby_async \/ hincrbyfloat
  \/ hkeys \/ hvals \/ sadd \/ sadd_list \/ sadd_async \/ sadd_async_list \/ srem
  \/ srem_list \/ srem_async \/ scard \/ sismember \/ smembers
  \/ ServerAnswers \/ Return \/ Wait \/ GetResponses

StructuresSpec == StructuresInit /\ [][StructuresNext]_structuresVars

-----------------------------------------------------------------------------
(* Properties *)

\* As long as no answer was null, calls that wait and calls that leave the reply
\* to an AsyncHandler, in any mix, return what they would if each took effect when
\* it was made: what their headers promise, but for hset() on a field that is there
\* (Due).  A null answer raises an exception, or is -EINVAL at the place of its own
\* call in the list of responses; hexists() and hlen() are left to NullIsReported.
Unchecking == {"hexists", "hlen"}
AsIfDirect ==
  /\ ~lost => returned.got = returned.due
  /\ \A i \in DOMAIN returned.null : returned.null[i] =>
       IF returned.call = "GetResponses" THEN returned.got[2][i] = -EINVAL
       ELSE returned.got = Raised \/ returned.call \in Unchecking

\* A call whose answer is null raises the exception it has for that, "Unexpected/null
\* reply" (QHash.cc:127, :143), or puts -EINVAL in the list of responses.  hexists()
\* and hlen() look at the type of the reply before they know that there is one.
NullIsReported ==
  \A i \in DOMAIN returned.null : returned.null[i] =>
    IF returned.call = "GetResponses" THEN returned.got[2][i] = -EINVAL
    ELSE returned.got = Raised
=============================================================================
