------------------------------ MODULE Encoder ------------------------------
(***************************************************************************)
(* The wire encoding written as events come (value/wire/stream.rs:         *)
(* Encoder): a container's count is put in place when it ends, moving what *)
(* follows it, while the keys of the maps around it are remembered by      *)
(* where they are in the output.                                           *)
(***************************************************************************)
EXTENDS Wire
LOCAL INSTANCE SequencesExt

CONSTANTS
  EventKeys,  \* keys, and texts
  MaxEvents

VARIABLES
  out,     \* the bytes written
  opened,  \* Encoder.open: containers being written, innermost last
  done,
  stopped, \* an event was refused
  events   \* the events taken so far

encvars == <<out, opened, done, stopped, events>>

EncoderInit ==
  /\ out = <<>>
  /\ opened = <<>>
  /\ done = FALSE
  /\ stopped = FALSE
  /\ events = <<>>

Unpromised == 99

Event(is, text) == [is |-> is, text |-> text]
Began(tag) == Event(tag, <<>>)
Texted(text) == Event(TEXT, text)
Key(text) == Event(BAD + 1, text)
Ended == Event(BAD + 2, <<>>)

-----------------------------------------------------------------------------
InnermostOpen == opened[Len(opened)]
Outer == SubSeq(opened, 1, Len(opened) - 1)

\* value_here: whether a value may come, and the container once it has.
ValueFits ==
  IF opened = <<>> THEN ~done
  ELSE /\ InnermostOpen.map => InnermostOpen.keyed
       /\ InnermostOpen.promised # Unpromised => InnermostOpen.written < InnermostOpen.promised
ValueCounted ==
  IF opened = <<>> THEN <<>>
  ELSE Append(Outer, [InnermostOpen EXCEPT !.keyed = FALSE, !.written = @ + 1])

Leaf(bytes, event) ==
  /\ ValueFits
  /\ out' = out \o bytes
  /\ opened' = ValueCounted
  /\ done' = (opened = <<>>)
  /\ events' = Append(events, event)
  /\ UNCHANGED stopped

\* begin: the count promised, or one byte kept for it.
OpensContainer(tag, promised) ==
  /\ ValueFits
  /\ out' = out \o <<tag>> \o IF promised = Unpromised THEN <<0>> ELSE PutLen(promised)
  /\ opened' = Append(ValueCounted,
                 [at |-> Len(out) + 1, promised |-> promised, written |-> 0,
                  map |-> tag = MAP, ranges |-> <<>>, keyed |-> FALSE])
  /\ events' = Append(events, Began(tag))
  /\ UNCHANGED <<done, stopped>>

\* Mutant of Put: the byte kept is written over, however long the count.
PutMutant(at, count) == SubSeq(out, 1, at) \o <<PutLen(count)[1]>> \o SubSeq(out, at + 2, Len(out))

\* The count put where its byte was kept, what follows moved.
Put(at, count) == SubSeq(out, 1, at) \o PutLen(count) \o SubSeq(out, at + 2, Len(out))

EndFits(tag) ==
  /\ opened # <<>>
  /\ InnermostOpen.map = (tag = MAP)
  /\ ~InnermostOpen.keyed
  /\ InnermostOpen.promised \in {Unpromised, InnermostOpen.written}

EndsContainer(tag) ==
  /\ EndFits(tag)
  /\ out' = IF InnermostOpen.promised = Unpromised
            THEN Put(InnermostOpen.at, InnermostOpen.written) ELSE out
  /\ opened' = Outer
  /\ done' = (Outer = <<>>)
  /\ events' = Append(events, Ended)
  /\ UNCHANGED stopped

\* Mutant of KeyAt: where its length is.
KeyAtMutant(key) == Len(out)

\* Where a key's bytes will be: past its length.
KeyAt(key) == Len(out) + Len(PutLen(Len(key)))

\* key: in a map, not after another key, and not one the map has.
KeyFits(key) ==
  /\ opened # <<>>
  /\ InnermostOpen.map
  /\ ~InnermostOpen.keyed
  /\ \A i \in DOMAIN InnermostOpen.ranges :
       LET r == InnermostOpen.ranges[i] IN SubSeq(out, r[1] + 1, r[1] + r[2]) # key

TakesKey(key) ==
  /\ KeyFits(key)
  /\ out' = out \o PutLen(Len(key)) \o key
  /\ opened' = Append(Outer, [InnermostOpen EXCEPT
                 !.keyed = TRUE, !.ranges = Append(@, <<KeyAt(key), Len(key)>>)])
  /\ events' = Append(events, Key(key))
  /\ UNCHANGED <<done, stopped>>

\* An event that fits nowhere ends the writing: the bytes are discarded.
RefusesEvent ==
  /\ \/ ~ValueFits
     \/ \E tag \in {LIST, MAP} : ~EndFits(tag)
     \/ \E key \in EventKeys : ~KeyFits(key)
  /\ stopped' = TRUE
  /\ UNCHANGED <<out, opened, done, events>>

EncoderNext ==
  /\ ~stopped
  /\ Len(events) < MaxEvents
  /\ \/ Leaf(<<NULL>>, Began(NULL))
     \/ \E text \in EventKeys : Leaf(<<TEXT>> \o PutLen(Len(text)) \o text, Texted(text))
     \/ \E tag \in {LIST, MAP}, promised \in {1, Unpromised} : OpensContainer(tag, promised)
     \/ \E tag \in {LIST, MAP} : EndsContainer(tag)
     \/ \E key \in EventKeys : TakesKey(key)
     \/ RefusesEvent

-----------------------------------------------------------------------------
(* What must hold.                                                         *)

\* The events a value is walked as.
RECURSIVE EventsOf(_)
EventsOf(node) ==
  IF node.tag = NULL THEN <<Began(NULL)>>
  ELSE IF node.tag = TEXT THEN <<Texted(node.text)>>
  ELSE <<Began(node.tag)>> \o
       FlattenSeq([i \in DOMAIN node.items |->
         (IF node.tag = MAP THEN <<Key(node.keys[i])>> ELSE <<>>) \o EventsOf(node.items[i])])
       \o <<Ended>>

\* What is written when the last container closes is what decode reads the
\* events' value from and encode would have written for it, though counts were
\* put in after what follows them.
WritesTheValue ==
  done /\ opened = <<>> =>
    LET read == Decode(out) IN
      /\ read.ok
      /\ EventsOf(read.value) = events
      /\ Encode(read.value) = out

\* Every key an open map has is where the encoder remembers it, so that one
\* repeated is found, whatever was moved since.
KeysStayPut ==
  \A i \in DOMAIN opened : opened[i].map =>
    LET ks == opened[i].ranges
        at(r) == SubSeq(out, r[1] + 1, r[1] + r[2])
    IN /\ \A j \in DOMAIN ks : Key(at(ks[j])) \in {events[n] : n \in DOMAIN events}
       /\ \A j, k \in DOMAIN ks : j # k => at(ks[j]) # at(ks[k])

\* Counts put in late change neither the value written nor what is known of
\* its keys.
EncodesTheValue == WritesTheValue /\ KeysStayPut
=============================================================================
