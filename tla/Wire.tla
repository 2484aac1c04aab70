-------------------------------- MODULE Wire --------------------------------
(***************************************************************************)
(* A value as bytes (value/wire/mod.rs): what encode writes and decode     *)
(* accepts, as functions.  Encoder and Decoder do the same as events.      *)
(*                                                                         *)
(* A byte is a number; a length has Base values in a byte where the code   *)
(* has 0x80.  A null stands for the kinds without a body, a text for those *)
(* of a length and bytes; BAD is a byte no text may hold.                  *)
(***************************************************************************)
EXTENDS Naturals, Sequences
LOCAL INSTANCE SequencesExt

CONSTANTS
  Base,       \* 0x80: a byte of a length from here on says more follow
  MaxDigits   \* bytes of a length before it overflows

ASSUME BaseAssumption == Base \in Nat \ {0, 1}

NULL == 0
TEXT == 1
LIST == 2
MAP == 3
BAD == 4

NullNode == [tag |-> NULL]
TextNode(s) == [tag |-> TEXT, text |-> s]
ListNode(items) == [tag |-> LIST, items |-> items]
MapNode(keys, items) == [tag |-> MAP, keys |-> keys, items |-> items]

Failed(why, at) == [ok |-> FALSE, why |-> why, at |-> at]
Read(at, value) == [ok |-> TRUE, at |-> at, value |-> value]

-----------------------------------------------------------------------------
(* encode.                                                                 *)

\* put_len: LEB128, the shortest form.
RECURSIVE PutLen(_)
PutLen(n) == IF n < Base THEN <<n>> ELSE <<Base + (n % Base)>> \o PutLen(n \div Base)

RECURSIVE Encode(_)
Encode(node) ==
  CASE node.tag = NULL -> <<NULL>>
    [] node.tag = TEXT -> <<TEXT>> \o PutLen(Len(node.text)) \o node.text
    [] node.tag \in {LIST, MAP} ->
         <<node.tag>> \o PutLen(Len(node.items)) \o
         FlattenSeq([i \in DOMAIN node.items |->
           (IF node.tag = MAP THEN PutLen(Len(node.keys[i])) \o node.keys[i] ELSE <<>>)
             \o Encode(node.items[i])])

-----------------------------------------------------------------------------
(* Reader: positions count from 0, as offsets do.                          *)

ByteAt(bytes, at) == bytes[at + 1]

\* leb: the digits from `from`, those before `at` read.
Digit(bytes, at) == ByteAt(bytes, at) % Base
RECURSIVE Leb(_, _, _, _, _)
Leb(bytes, from, at, n, weight) ==
  IF at >= Len(bytes) THEN Failed("truncated", at)
  ELSE IF at - from >= MaxDigits THEN Failed("overlong", from)
  ELSE IF ByteAt(bytes, at) >= Base
  THEN Leb(bytes, from, at + 1, n + weight * Digit(bytes, at), weight * Base)
  ELSE IF ByteAt(bytes, at) = 0 /\ at > from THEN Failed("overlong", from)
  ELSE Read(at + 1, n + weight * Digit(bytes, at))

\* len and count: no more than the bytes that remain.
Within(bytes, n) ==
  IF n.ok /\ n.value > Len(bytes) - n.at THEN Failed("truncated", n.at) ELSE n
Count(bytes, at) == Within(bytes, Leb(bytes, at, at, 0, 1))

\* text: the n bytes that follow.
TextOf(bytes, at, n) ==
  IF ~n.ok THEN n
  ELSE IF \E i \in n.at + 1 .. n.at + n.value : bytes[i] = BAD THEN Failed("text", at)
  ELSE Read(n.at + n.value, SubSeq(bytes, n.at + 1, n.at + n.value))
Text(bytes, at) == TextOf(bytes, at, Count(bytes, at))

\* token: a leaf whole, a container as its count.
AsLeaf(s) == IF s.ok THEN Read(s.at, TextNode(s.value)) ELSE s
AsContainer(tag, n) == IF n.ok THEN Read(n.at, [tag |-> tag, left |-> n.value]) ELSE n
Token(bytes, at) ==
  IF at >= Len(bytes) THEN Failed("truncated", at)
  ELSE CASE ByteAt(bytes, at) = NULL -> Read(at + 1, NullNode)
         [] ByteAt(bytes, at) = TEXT -> AsLeaf(Text(bytes, at + 1))
         [] ByteAt(bytes, at) \in {LIST, MAP} ->
              AsContainer(ByteAt(bytes, at), Count(bytes, at + 1))
         [] OTHER -> Failed("tag", at)
Opens(node) == node.tag \in {LIST, MAP}

-----------------------------------------------------------------------------
(* decode: a loop over a stack of the containers being built; a key       *)
(* repeated is found when its value is put in.                             *)

FrameOf(node) ==
  [map |-> node.tag = MAP, left |-> node.left, keys |-> <<>>, items |-> <<>>,
   key |-> <<>>, keyAt |-> 0]
NodeOf(frame) == IF frame.map THEN MapNode(frame.keys, frame.items) ELSE ListNode(frame.items)
KeyDue(stack, at, key) ==
  [stack EXCEPT ![Len(stack)].key = key.value, ![Len(stack)].keyAt = at]
Repeated(frame) == frame.map /\ \E i \in DOMAIN frame.keys : frame.keys[i] = frame.key

RECURSIVE DecodeLoop(_, _, _), DecodeEntry(_, _, _, _), DecodeToken(_, _, _), PutIn(_, _, _, _)
DecodeLoop(bytes, at, stack) ==
  IF stack # <<>> /\ Last(stack).left = 0 THEN PutIn(bytes, at, Front(stack), NodeOf(Last(stack)))
  ELSE IF stack # <<>> /\ Last(stack).map THEN DecodeEntry(bytes, at, stack, Text(bytes, at))
  ELSE DecodeToken(bytes, stack, Token(bytes, at))
DecodeEntry(bytes, at, stack, key) ==
  IF key.ok THEN DecodeToken(bytes, KeyDue(stack, at, key), Token(bytes, key.at)) ELSE key
DecodeToken(bytes, stack, token) ==
  IF ~token.ok THEN token
  ELSE IF ~Opens(token.value) THEN PutIn(bytes, token.at, stack, token.value)
  ELSE DecodeLoop(bytes, token.at, Append(stack, FrameOf(token.value)))
PutIn(bytes, at, stack, value) ==
  IF stack = <<>> THEN Read(at, value)
  ELSE IF Repeated(Last(stack)) THEN Failed("repeated", Last(stack).keyAt)
  ELSE DecodeLoop(bytes, at, [stack EXCEPT ![Len(stack)].left = @ - 1,
                                           ![Len(stack)].keys = Append(@, Last(stack).key),
                                           ![Len(stack)].items = Append(@, value)])

\* Nothing may follow the value.
Whole(bytes, read) ==
  IF read.ok /\ read.at # Len(bytes) THEN Failed("trailing", read.at) ELSE read
Decode(bytes) == Whole(bytes, DecodeLoop(bytes, 0, <<>>))
=============================================================================
