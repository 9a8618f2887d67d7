--------------------------------- MODULE Sds ---------------------------------
(***************************************************************************)
(* The dynamic strings under the reply reader (src/src/reader/sds.cc,         *)
(* src/src/reader/sds.hh): the bytes of a string, its length and capacity in a *)
(* header as narrow as its size allows, and the conversions built on them.     *)
(* A byte is a string of one character or a name.  Allocation never fails.     *)
(* Formatting through the C library is left out.                               *)
(***************************************************************************)
EXTENDS Integers, Sequences, FiniteSets, SequencesExt, TLC

CONSTANTS
  Bits,                \* bits of the length in a header of each type: 5, 8, 16, 32, 64
  SDS_MAX_PREALLOC,    \* 1 MB
  Texts,               \* what is appended, copied or written
  Numbers,             \* integers to convert
  MaxSdsLength         \* bound

VARIABLES sds, described     \* described: the string the calls so far describe
sdsVars == <<sds, described>>

Nul == "nul"
Types == DOMAIN Bits
Narrowest == CHOOSE t \in Types : \A u \in Types : Bits[t] <= Bits[u]
Second == CHOOSE t \in Types \ {Narrowest} :
            \A u \in Types \ {Narrowest} : Bits[t] <= Bits[u]
Pow2(t) == 2 ^ Bits[t]

\* sdsReqType(): the narrow type holds all its values, the others all but one.
RequiredType(size) ==
  LET fit == {t \in Types : size < (IF t = Narrowest THEN Pow2(t) ELSE Pow2(t) - 1)}
  IN CHOOSE t \in fit : \A u \in fit : Bits[t] <= Bits[u]

-----------------------------------------------------------------------------
(* The header.  size is what was allocated for the bytes, with the terminator. *)

SdsLen(s) == s.len
SdsAlloc(s) == IF s.type = Narrowest THEN s.len ELSE s.alloc
Avail(s) == IF s.type = Narrowest THEN 0 ELSE s.alloc - s.len

\* What stands behind the terminator is not looked at.
SetLen(s, n) == [s EXCEPT !.len = n % Pow2(s.type),
                          !.mem = [i \in 1 .. Len(@) |-> IF i <= n + 1 THEN @[i] ELSE "?"]]
SetAlloc(s, n) == IF s.type = Narrowest THEN s ELSE [s EXCEPT !.alloc = n % Pow2(s.type)]

\* memcpy() and the like: a write past the allocation makes the memory longer.
Write(s, at, bytes) ==
  [s EXCEPT !.mem = [i \in 1 .. (IF at + Len(bytes) > Len(@) THEN at + Len(bytes) ELSE Len(@)) |->
     IF i \in at + 1 .. at + Len(bytes) THEN bytes[i - at] ELSE @[i]]]

NewLen(init) ==
  LET n == Len(init)
      type == IF n = 0 THEN Second ELSE RequiredType(n)
      header == [type |-> type, len |-> 0, alloc |-> 0, size |-> n + 1,
                 mem |-> Append(init, Nul)]
  IN SetAlloc([header EXCEPT !.len = n % Pow2(type)], n)

\* Another block of n + 1 bytes with what s had
Reallocate(s, type, n) ==
  LET kept == SubSeq(s.mem, 1, SdsLen(s) + 1)
      moved == [s EXCEPT !.size = n + 1, !.type = type, !.alloc = 0,
                  !.mem = kept \o [i \in 1 .. n - SdsLen(s) |-> "?"]]
  IN SetAlloc(SetLen(moved, SdsLen(s)), n)

\* Mutant: the header stays as narrow as it was.
MakeRoomForKeepsType(s, addlen) ==
  LET newlen == SdsLen(s) + addlen
  IN IF Avail(s) >= addlen THEN s
     ELSE Reallocate(s, IF s.type = Narrowest THEN Second ELSE s.type,
            IF newlen < SDS_MAX_PREALLOC THEN 2 * newlen ELSE newlen + SDS_MAX_PREALLOC)

MakeRoomFor(s, addlen) ==
  LET sum == SdsLen(s) + addlen
      newlen == IF sum < SDS_MAX_PREALLOC THEN 2 * sum ELSE sum + SDS_MAX_PREALLOC
      type == RequiredType(newlen)
  IN IF Avail(s) >= addlen THEN s
     ELSE Reallocate(s, IF type = Narrowest THEN Second ELSE type, newlen)

RemoveFreeSpace(s) == Reallocate(s, RequiredType(SdsLen(s)), SdsLen(s))

-----------------------------------------------------------------------------
(* Changing a string *)

CatLen(s, t) ==
  LET roomy == MakeRoomFor(s, Len(t))
  IN SetLen(Write(roomy, SdsLen(s), Append(t, Nul)), SdsLen(s) + Len(t))

CpyLen(s, t) ==
  LET roomy == IF SdsAlloc(s) < Len(t) THEN MakeRoomFor(s, Len(t) - SdsLen(s)) ELSE s
  IN SetLen(Write(roomy, 0, Append(t, Nul)), Len(t))

GrowZero(s, n) ==
  IF n <= SdsLen(s) THEN s
  ELSE SetLen(Write(MakeRoomFor(s, n - SdsLen(s)), SdsLen(s),
                    [i \in 1 .. n - SdsLen(s) + 1 |-> Nul]), n)

\* Written behind the end by the caller of sdsMakeRoomFor()
IncrLen(s, written) ==
  SetLen(Write(s, SdsLen(s), Append(written, Nul)), SdsLen(s) + Len(written))

Strlen(mem) == CHOOSE n \in 0 .. Len(mem) :
  mem[n + 1] = Nul /\ \A i \in 1 .. n : mem[i] # Nul

\* A terminator written by hand, then sdsupdatelen()
CutAt(s, at) == LET cut == Write(s, at, <<Nul>>) IN SetLen(cut, Strlen(cut.mem))

Clear(s) == Write(SetLen(s, 0), 0, <<Nul>>)

\* The bytes from place i to place j, counted from 0, move to the front.
Keep(s, i, j) ==
  LET kept == IF i > j THEN <<>> ELSE SubSeq(s.mem, i + 1, j + 1)
  IN SetLen(Write(s, 0, Append(kept, Nul)), Len(kept))

\* sdstrim(): strchr() also finds the terminator of cset.
Trim(s, cset) ==
  LET other == {i \in 1 .. SdsLen(s) : s.mem[i] \notin cset \cup {Nul}}
  IN IF other = {} THEN Keep(s, 1, 0)
     ELSE Keep(s, (CHOOSE i \in other : \A j \in other : i <= j) - 1,
                  (CHOOSE i \in other : \A j \in other : j <= i) - 1)

RangeOf(s, from, to) ==
  LET len == SdsLen(s)
      fromFront(i) == IF i >= 0 THEN i ELSE IF len + i < 0 THEN 0 ELSE len + i
      start == fromFront(from)
      end == fromFront(to)
  IN IF len = 0 THEN s
     ELSE IF start > end \/ start >= len THEN Keep(s, 1, 0)
     ELSE Keep(s, start, IF end >= len THEN len - 1 ELSE end)

\* sdsmapchars(), sdstolower() and sdstoupper(): in place
MapChars(s, map) ==
  [s EXCEPT !.mem = [i \in 1 .. Len(@) |->
     IF i <= SdsLen(s) /\ @[i] \in DOMAIN map THEN map[@[i]] ELSE @[i]]]

\* sdscatfmt(): a directive has its argument written out.  Room for one byte is
\* made before any of them.
CatFmt(s, parts) ==
  FoldLeft(LAMBDA t, part :
             LET one == IF Avail(t) = 0 THEN MakeRoomFor(t, 1) ELSE t
                 roomy == IF Avail(one) < Len(part) THEN MakeRoomFor(one, Len(part))
                          ELSE one
             IN SetLen(Write(roomy, SdsLen(t), Append(part, Nul)), SdsLen(t) + Len(part)),
           s, parts)

-----------------------------------------------------------------------------
(* Conversions *)

\* sdsll2str(): the digits come out last first.
RECURSIVE Reversed(_)
Reversed(v) ==
  IF v < 10 THEN <<ToString(v)>> ELSE <<ToString(v % 10)>> \o Reversed(v \div 10)
ll2str(value) ==
  Reverse(Reversed(IF value < 0 THEN -value ELSE value)
            \o (IF value < 0 THEN <<"-">> ELSE <<>>))

\* sdssplitlen(): tokens between occurrences of the separator, from the left
RECURSIVE SplitFrom(_, _, _, _)
SplitFrom(text, sep, start, j) ==
  IF j + Len(sep) - 1 > Len(text) THEN <<SubSeq(text, start, Len(text))>>
  ELSE IF SubSeq(text, j, j + Len(sep) - 1) = sep
       THEN <<SubSeq(text, start, j - 1)>>
              \o SplitFrom(text, sep, j + Len(sep), j + Len(sep))
       ELSE SplitFrom(text, sep, start, j + 1)
SplitLen(text, sep) == IF text = <<>> THEN <<>> ELSE SplitFrom(text, sep, 1, 1)

\* sdsjoin(), sdsjoinsds()
Join(tokens, sep) ==
  FlattenSeq([j \in DOMAIN tokens |->
    tokens[j] \o (IF j = Len(tokens) THEN <<>> ELSE sep)])

Letter == [n |-> "\n", r |-> "\r", t |-> "\t"]
Quotes == {"\\", "\""}
Bytes == [byte10 |-> <<"1", "0">>, nul |-> <<"0", "0">>]

\* sdscatrepr()
Repr(text) ==
  LET escaped(c) ==
        CASE c \in Quotes -> <<"\\", c>>
          [] \E l \in DOMAIN Letter : Letter[l] = c ->
               <<"\\", CHOOSE l \in DOMAIN Letter : Letter[l] = c>>
          [] c \in DOMAIN Bytes -> <<"\\", "x">> \o Bytes[c]
          [] OTHER -> <<c>>
  IN <<"\"">> \o FlattenSeq([i \in DOMAIN text |-> escaped(text[i])]) \o <<"\"">>

Space == {" ", "\n", "\r", "\t"}
HexDigits == {"0", "1", "2", "3", "4", "5", "6", "7", "8", "9", "a", "b", "c",
              "d", "e", "f", "A", "B", "C", "D", "E", "F"}
HexByte(h, l) ==
  IF \E b \in DOMAIN Bytes : Bytes[b] = <<h, l>>
  THEN CHOOSE b \in DOMAIN Bytes : Bytes[b] = <<h, l>> ELSE "another byte"
Unbalanced == <<<<"NULL">>>>

\* sdssplitargs(): p is the place read, mode the quotes it is inside of.
RECURSIVE SplitArgsFrom(_, _, _, _, _)
SplitArgsFrom(line, p, mode, current, vector) ==
  LET at(i) == IF i <= Len(line) THEN line[i] ELSE Nul
      c == at(p)
      add(byte, step) ==
        SplitArgsFrom(line, p + step, mode, Append(current, byte), vector)
      token == SplitArgsFrom(line, IF c = Nul THEN p ELSE p + 1, "blank", <<>>,
                             Append(vector, current))
      closed == IF at(p + 1) \in Space \cup {Nul} THEN token ELSE Unbalanced
  IN CASE mode = "blank" ->
            IF c = Nul THEN vector
            ELSE IF c \in Space THEN SplitArgsFrom(line, p + 1, "blank", <<>>, vector)
            ELSE SplitArgsFrom(line, p, "plain", <<>>, vector)
       [] mode = "plain" ->
            IF c \in Space \cup {Nul} THEN token
            ELSE IF c = "\"" THEN SplitArgsFrom(line, p + 1, "double", current, vector)
            ELSE IF c = "'" THEN SplitArgsFrom(line, p + 1, "single", current, vector)
            ELSE add(c, 1)
       [] mode = "double" ->
            IF c = "\\" /\ at(p + 1) = "x" /\ {at(p + 2), at(p + 3)} \subseteq HexDigits
            THEN add(HexByte(at(p + 2), at(p + 3)), 4)
            ELSE IF c = "\\" /\ at(p + 1) # Nul
            THEN add(IF at(p + 1) \in DOMAIN Letter THEN Letter[at(p + 1)]
                     ELSE at(p + 1), 2)
            ELSE IF c = "\"" THEN closed
            ELSE IF c = Nul THEN Unbalanced ELSE add(c, 1)
       [] mode = "single" ->
            IF c = "\\" /\ at(p + 1) = "'" THEN add("'", 2)
            ELSE IF c = "'" THEN closed
            ELSE IF c = Nul THEN Unbalanced ELSE add(c, 1)
SplitArgs(line) == SplitArgsFrom(line, 1, "blank", <<>>, <<>>)

-----------------------------------------------------------------------------
(* Any sequence of calls on one string *)

RECURSIVE StripLeft(_, _)
StripLeft(t, cset) ==
  IF t = <<>> \/ Head(t) \notin cset THEN t ELSE StripLeft(Tail(t), cset)
Stripped(t, cset) == Reverse(StripLeft(Reverse(StripLeft(t, cset)), cset))

\* Places are counted from 0, or from the end; before the start is the start.
Slice(t, from, to) ==
  LET place(i) == IF i >= 0 THEN i ELSE IF Len(t) + i < 0 THEN 0 ELSE Len(t) + i
      inside == {k \in DOMAIN t : k - 1 \in place(from) .. place(to)}
  IN [i \in 1 .. Cardinality(inside) |-> t[place(from) + i]]

SdsInit == \E init \in Texts \cup {<<>>} : sds = NewLen(init) /\ described = init

Becomes(s, c) == Len(c) <= MaxSdsLength /\ sds' = s /\ described' = c

SdsNext ==
  \/ \E t \in Texts :
       \/ Becomes(CatLen(sds, t), described \o t)
       \/ Becomes(CpyLen(sds, t), t)
       \/ Becomes(IncrLen(MakeRoomFor(sds, Len(t)), t), described \o t)
       \/ Becomes(CatFmt(sds, <<t, <<"a">>, t>>), described \o t \o <<"a">> \o t)
  \/ Becomes(NewLen(described), described)
  \/ \E v \in Numbers : Becomes(NewLen(ll2str(v)), ll2str(v))
  \/ Becomes(GrowZero(sds, Len(described) + 1), Append(described, Nul))
  \/ \E at \in 0 .. Len(described) - 1 :
       Becomes(CutAt(sds, at),
               SubSeq(described, 1, Strlen(SubSeq(described, 1, at) \o <<Nul>>)))
  \/ Becomes(Clear(sds), <<>>)
  \/ Becomes(RemoveFreeSpace(sds), described)
  \/ \E cset \in SUBSET {"a", "b"} :
       Becomes(Trim(sds, cset), Stripped(described, cset \cup {Nul}))
  \/ \E i, j \in -3 .. 3 : Becomes(RangeOf(sds, i, j), Slice(described, i, j))
  \/ Becomes(MapChars(sds, "a" :> "b"),
             [i \in DOMAIN described |-> IF described[i] = "a" THEN "b" ELSE described[i]])

-----------------------------------------------------------------------------
(* Properties *)

\* The number that a text is the decimal notation of
Digit(c) == CHOOSE d \in 0 .. 9 : ToString(d) = c
ValueOf(text) ==
  LET value(digits) == FoldLeft(LAMBDA n, c : n * 10 + Digit(c), 0, digits)
  IN IF Head(text) = "-" THEN -value(Tail(text)) ELSE value(text)

\* After any calls the header tells the true length and capacity, though it is
\* as narrow as the size allowed when the block was made; the bytes are those of
\* the string the calls describe, with a terminator; and nothing was written
\* behind the block.
SdsFits ==
  /\ SdsLen(sds) = Len(described)
  /\ SubSeq(sds.mem, 1, Len(described) + 1) = Append(described, Nul)
  /\ Len(sds.mem) = sds.size
  /\ SdsLen(sds) <= SdsAlloc(sds)
  /\ IF sds.type = Narrowest THEN SdsAlloc(sds) < sds.size
     ELSE SdsAlloc(sds) + 1 = sds.size

\* Conversions are undone by their counterparts, whatever the bytes: a string
\* written between quotes is split into itself, the parts between separators join
\* to the string and hold no separator, and the digits of a number tell it.
ConvertsBack ==
  /\ SplitArgs(Repr(described)) = <<described>>
  /\ \A sep \in {<<"a">>, <<"a", "a">>, <<"b", "a">>} :
       LET tokens == SplitLen(described, sep) IN
       /\ Join(tokens, sep) = described
       /\ \A i \in DOMAIN tokens : \A j \in 1 .. Len(tokens[i]) - Len(sep) + 1 :
            SubSeq(tokens[i], j, j + Len(sep) - 1) # sep
  /\ \A v \in Numbers : described # <<>> /\ described = ll2str(v) => v = ValueOf(described)

\* Both: whatever calls are made, a string is what they describe and fits its
\* block, and what is converted is converted back.
StringAsDescribed == SdsFits /\ ConvertsBack
=============================================================================
