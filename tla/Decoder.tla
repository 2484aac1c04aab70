------------------------------ MODULE Decoder ------------------------------
(***************************************************************************)
(* The wire encoding read into a builder, no tree built (value/wire/       *)
(* stream.rs: Decoder, Items, Entries).  What the builder reads of a       *)
(* container, passes over or leaves is its own choice; what it leaves is   *)
(* passed over by a loop of its own, and the keys of every open map are    *)
(* one list, each map's from its start.                                    *)
(***************************************************************************)
EXTENDS Wire
LOCAL INSTANCE SequencesExt

CONSTANTS
  Inputs,      \* the bytes read
  MaxNesting   \* MAX_DEPTH

VARIABLES
  input,
  reader,    \* the offset reached
  openFrames,    \* the containers the builder is in, innermost last
  openKeys,  \* OpenKeys.list
  verdict    \* "start", "inside", "read" or "refused", or what failed

decvars == <<input, reader, openFrames, openKeys, verdict>>

DecoderInit ==
  /\ input \in Inputs
  /\ reader = 0
  /\ openFrames = <<>>
  /\ openKeys = <<>>
  /\ verdict = [is |-> "start"]

Inside == [is |-> "inside"]
FailedWith(read) == [is |-> "failed", why |-> read.why, at |-> read.at]

\* fail: the first failure stands, and everything stops.
Fails(read) ==
  /\ verdict' = FailedWith(read)
  /\ UNCHANGED <<input, reader, openFrames, openKeys>>

DecoderFrame(left, map) == [left |-> left, map |-> map, pending |-> FALSE, start |-> Len(openKeys)]
TopFrame == openFrames[Len(openFrames)]
Below == SubSeq(openFrames, 1, Len(openFrames) - 1)
Held(keys, start, key) == \E i \in start + 1 .. Len(keys) : keys[i] = key

-----------------------------------------------------------------------------
\* skip: the values `open` still holds are passed over, a map's keys checked.
Due(open) == [open EXCEPT ![Len(open)].left = @ - 1]
RECURSIVE Skip(_, _, _), SkipEntry(_, _, _, _), SkipToken(_, _, _)
Skip(at, keys, open) ==
  IF open = <<>> THEN Read(at, keys)
  ELSE IF Last(open).left = 0
  THEN Skip(at, IF Last(open).map THEN SubSeq(keys, 1, Last(open).start) ELSE keys, Front(open))
  ELSE IF Last(open).map THEN SkipEntry(at, keys, open, Text(input, at))
  ELSE SkipToken(keys, Due(open), Token(input, at))
SkipEntry(at, keys, open, key) ==
  IF ~key.ok THEN key
  ELSE IF Held(keys, Last(open).start, key.value) THEN Failed("repeated", at)
  ELSE SkipToken(Append(keys, key.value), Due(open), Token(input, key.at))
SkipToken(keys, open, token) ==
  IF ~token.ok THEN token
  ELSE Skip(token.at, keys,
         IF Opens(token.value)
         THEN Append(open, [left |-> token.value.left, map |-> token.value.tag = MAP,
                            start |-> Len(keys)])
         ELSE open)

OneValue == [left |-> 1, map |-> FALSE, start |-> Len(openKeys)]
Pending == IF TopFrame.pending THEN <<OneValue>> ELSE <<>>

\* build: a leaf is read whole, a container opened around what it is in.
Built(around, token) ==
  IF token.ok /\ (Opens(token.value) => Len(openFrames) < MaxNesting)
  THEN /\ reader' = token.at
       /\ openFrames' = IF Opens(token.value)
                    THEN Append(around, DecoderFrame(token.value.left, token.value.tag = MAP))
                    ELSE around
       /\ verdict' = Inside
       /\ UNCHANGED <<input, openKeys>>
  ELSE Fails(IF token.ok THEN Failed("deep", reader) ELSE token)
Builds(around) == Built(around, Token(input, reader))

ReadsTop == verdict.is = "start" /\ Builds(<<>>)

InList == verdict.is = "inside" /\ openFrames # <<>> /\ ~TopFrame.map
InMap == verdict.is = "inside" /\ openFrames # <<>> /\ TopFrame.map

\* Items::next_seed.
NextItem == InList /\ TopFrame.left > 0 /\ Builds(Append(Below, [TopFrame EXCEPT !.left = @ - 1]))

\* Entries::next_key: past the value due under the last one.  With no entry left
\* it does no more than SkipsValue.
KeyRead(at, key) ==
  IF key.ok /\ ~Held(openKeys, TopFrame.start, key.value)
  THEN /\ reader' = key.at
       /\ openKeys' = Append(openKeys, key.value)
       /\ openFrames' = Append(Below, [TopFrame EXCEPT !.left = @ - 1, !.pending = TRUE])
       /\ UNCHANGED <<input, verdict>>
  ELSE Fails(IF key.ok THEN Failed("repeated", at) ELSE key)
KeyAfter(past) == IF past.ok THEN KeyRead(past.at, Text(input, past.at)) ELSE Fails(past)
NextKey == InMap /\ TopFrame.left > 0 /\ KeyAfter(Skip(reader, openKeys, Pending))

\* Entries::value_seed.
NextValue == InMap /\ TopFrame.pending /\ Builds(Append(Below, [TopFrame EXCEPT !.pending = FALSE]))

\* Entries::skip_value.
ValuePast(past) ==
  IF past.ok
  THEN /\ reader' = past.at
       /\ openFrames' = Append(Below, [TopFrame EXCEPT !.pending = FALSE])
       /\ UNCHANGED <<input, openKeys, verdict>>
  ELSE Fails(past)
SkipsValue == InMap /\ TopFrame.pending /\ ValuePast(Skip(reader, openKeys, Pending))

\* Mutant of Unread: a key whose value is due is taken for an entry passed.
UnreadMutant == <<TopFrame>>

\* What a container still holds: a map's value due, then its entries.
Unread == <<TopFrame>> \o Pending

\* The builder is done with a container: what it left is passed over.
ContainerPast(past) ==
  IF past.ok
  THEN /\ reader' = past.at
       /\ openFrames' = Below
       /\ openKeys' = SubSeq(openKeys, 1, TopFrame.start)
       /\ UNCHANGED <<input, verdict>>
  ELSE Fails(past)
LeavesContainer == (InList \/ InMap) /\ ContainerPast(Skip(reader, openKeys, Unread))

\* decode_as: the builder refuses what the bytes hold.
BuilderRefuses ==
  /\ verdict.is = "inside"
  /\ verdict' = [is |-> "refused"]
  /\ UNCHANGED <<input, reader, openFrames, openKeys>>

\* finish.
Finishes ==
  /\ verdict.is = "inside"
  /\ openFrames = <<>>
  /\ verdict' = IF reader = Len(input) THEN [is |-> "read"]
                ELSE FailedWith(Failed("trailing", reader))
  /\ UNCHANGED <<input, reader, openFrames, openKeys>>

DecoderNext ==
  \/ ReadsTop
  \/ NextItem
  \/ NextKey
  \/ NextValue
  \/ SkipsValue
  \/ LeavesContainer
  \/ BuilderRefuses
  \/ Finishes

-----------------------------------------------------------------------------
(* What must hold.                                                         *)

\* Whatever the builder reads, passes over or leaves, the bytes are accepted
\* only where decode accepts them, and refused for the reason and at the offset
\* decode does; except for depth, which only what is read into is limited in,
\* and a key repeated over a value that is itself refused, which decode reads on
\* to and reports.
VerdictIsDecodes ==
  LET whole == Decode(input) IN
  /\ verdict.is = "read" => whole.ok
  /\ verdict.is = "failed" /\ verdict.why # "deep" =>
       /\ ~whole.ok
       /\ \/ whole.why = verdict.why /\ whole.at = verdict.at
          \/ verdict.why = "repeated" /\ whole.at > verdict.at
=============================================================================
