---------------------------- MODULE PartsProofs ----------------------------
(***************************************************************************)
(* The handshake of a link (Handshake), proved for any configurations of   *)
(* its two ends and any transport; a source of described peers             *)
(* (Described), for any number of names, peers, links and libraries; the   *)
(* kinds a server learns and gives (KnownKinds), what threads share        *)
(* (Buffers), and the objects a call enters, hands over and lends          *)
(* (ObjectGuard, SlotCall).                                                *)
(*                                                                         *)
(* In a handshake, what a client sends is a script, its HELLO, its PROOF   *)
(* where the server asks one, and its call, of which it has sent so much   *)
(* and the server has read so much; what is between is on its way, in the  *)
(* order of the script.                                                    *)
(*                                                                         *)
(* Of peers: each is made for one name and each link for one peer, so that *)
(* what a peer has open under a stamp is exactly what is held of it under  *)
(* that stamp; and a peer once named is named again, leaves or is dropped, *)
(* also in the midst of a listing.                                         *)
(*                                                                         *)
(* Of kinds: what is learned is learned for good, so what a request was    *)
(* promised stays known however requests interleave. Of buffers and        *)
(* pollers: a count is the sum of what is kept and parked and of what the  *)
(* threads between two steps owe it.                                       *)
(*                                                                         *)
(* Of objects: what a thread's nested calls have locked is what they       *)
(* entered and have not left, and no object is among it twice. A call of a *)
(* slot is told by its step what each of its arguments is; a lend, by who  *)
(* is inside.                                                              *)
(***************************************************************************)
EXTENDS Handshake, Described, KnownKinds, Buffers, SlotCall, SequenceTheorems,
        FiniteSetTheorems, FunctionTheorems, WellFoundedInduction, TLAPS

Hello == Frame("hello", cfg.c.trust, cfg.c.token, NoProof)
ItsProof == Frame("proof", "none", "none", Proof(cfg.c.key, CLIENT))
Call == Plain("call")
Welcome == Frame("welcome", "none", "none",
                 IF ProvesKey(cfg.s) THEN Proof(cfg.s.key, SERVER) ELSE NoProof)
Goodbye == Plain("goodbye")
ClientsFrames == {Hello, ItsProof, Call}
ServersFrames == {Welcome, Goodbye}

\* What the two configurations decide.
Able == ClientCan(cfg.c, cfg.t)
Asks == ProvesKey(cfg.s)
Admitted == ~Refusal(cfg.s, cfg.t, Hello) /\ ~Keyless(cfg.s)
Makes == Compatible(cfg.c, cfg.s, cfg.t)

Script(k) == IF k = 1 THEN Hello ELSE IF k = 2 /\ Asks THEN ItsProof ELSE Call

\* How much of it has been sent.
SentSoFar ==
  IF client = "start" \/ ~Able THEN 0
  ELSE IF client \in {"welcome", "failed"} THEN 1
  ELSE (IF Asks THEN 2 ELSE 1) + (IF client = "called" THEN 1 ELSE 0)

\* The frames on their way to the server's reader.
Pipe(i) == IF i <= Len(channel) THEN channel[i] ELSE toServer[i - Len(channel)]
InPipe == Len(channel) + Len(toServer)

\* The server has read n of them.
ReadSoFar(n) ==
  /\ server = "hello" => n = 0
  /\ server = "proof" => n = 1
  /\ server = "up" => n = IF Asks THEN 2 ELSE 1
  /\ small = 1 => n = 1 /\ Asks
  /\ n + InPipe = SentSoFar
  /\ \A i \in 1 .. InPipe : Pipe(i) = Script(n + i)
InOrder == \E n \in Nat : ReadSoFar(n)

HandshakeParts ==
  /\ client \in {"start", "welcome", "up", "called", "failed"}
  /\ server \in {"hello", "proof", "up", "read", "failed"}
  /\ toServer \in Seq(ClientsFrames) /\ channel \in Seq(ClientsFrames)
  /\ toClient \in Seq(ServersFrames)
  /\ small \in {0, 1, All} /\ broken \in {"no", "refused", "late"}
  /\ ahead = IF server \in {"up", "read"} THEN ReadAhead ELSE 1
  /\ Len(channel) <= ahead
  /\ ~cfg.t.message => channel = <<>>

\* What the state of each end says of the two configurations.
Judged ==
  /\ client = "welcome" => Able
  /\ server \in {"proof", "up", "read"} => Able /\ Admitted
  /\ server = "hello" <=> small = All /\ server # "failed"
  /\ server = "proof" => small = 1 /\ Asks
  /\ server \in {"up", "read"} => small = 0 /\ Makes
  /\ \A i \in 1 .. Len(toClient) :
       IF toClient[i] = Welcome THEN Able /\ Admitted /\ small # All ELSE ~Makes
  /\ client \in {"up", "called"} => Able /\ Makes /\ small # All
  /\ client = "failed" \/ server = "failed" => broken # "no"
  /\ broken = "refused" => ~Makes

HandInv == HandshakeParts /\ InOrder /\ Judged /\ ~refused

-----------------------------------------------------------------------------
\* Two configurations make a link when each end's checks of the other pass.
LEMMA MakesIs == Makes <=> Able /\ Admitted /\ (Asks => cfg.c.key = cfg.s.key)
BY DEF Makes, Compatible, Able, Admitted, Asks, ClientCan, Refusal, Hello, Frame, Keyless, ProvesKey, Admits

\* A client that reads the WELCOME asks for the key the server proves, and no
\* other.
LEMMA WelcomeIs ==
  ASSUME Able, Admitted
  PROVE  /\ Welcome.is = "welcome"
         /\ Asked(Welcome.proof) <=> Asks
         /\ Asks => (ServerProved(Welcome.proof) <=> Makes)
<1>1. cfg.c.trust = cfg.s.trust /\ (Asks => cfg.s.key # "none")
  BY DEF Admitted, Refusal, Hello, Frame, Keyless, Asks
<1>2. /\ Welcome.is = "welcome"
      /\ Welcome.proof = IF Asks THEN Proof(cfg.s.key, SERVER) ELSE NoProof
  BY DEF Welcome, Frame, Asks
<1>3. \A k : Proof(k, SERVER) # NoProof
  BY DEF Proof, NoProof, SERVER
<1>4. Asked(Welcome.proof) <=> Asks
  BY <1>1, <1>2, <1>3 DEF Asked, Asks, ProvesKey
<1>5. Asks => (ServerProved(Welcome.proof) <=> Makes)
  BY <1>1, <1>2, MakesIs DEF ServerProved, Proof
<1> QED BY <1>2, <1>4, <1>5

LEMMA FramesApart ==
  /\ Hello.is = "hello" /\ ItsProof.is = "proof" /\ Call.is = "call" /\ Goodbye.is = "goodbye"
  /\ Welcome.is = "welcome" /\ Welcome # Goodbye
  /\ ~Hello.large /\ ~ItsProof.large /\ Call.large
  /\ \A k : Script(k) \in ClientsFrames
BY DEF Hello, ItsProof, Call, Goodbye, Welcome, Plain, Frame, Script, ClientsFrames

\* The configurations do not change.
LEMMA CfgFixed ==
  ASSUME UNCHANGED cfg
  PROVE  /\ Able' <=> Able
         /\ Asks' <=> Asks
         /\ Admitted' <=> Admitted
         /\ Makes' <=> Makes
         /\ Welcome' = Welcome
         /\ ClientsFrames' = ClientsFrames /\ ServersFrames' = ServersFrames
         /\ \A k : Script(k)' = Script(k)
         /\ (~cfg.t.message)' <=> ~cfg.t.message
BY DEF Able, Asks, Admitted, Makes, Welcome, ClientsFrames, ServersFrames, Script, Hello, ItsProof, Call, Goodbye

\* Frames appended, read, or moved up to the channel.
LEMMA PipeAppends ==
  ASSUME NEW f \in ClientsFrames, HandshakeParts, toServer' = Append(toServer, f), channel' = channel
  PROVE  /\ toServer' \in Seq(ClientsFrames)
         /\ InPipe' = InPipe + 1 /\ InPipe \in Nat
         /\ \A i \in 1 .. InPipe : Pipe(i)' = Pipe(i)
         /\ \A k : k = InPipe + 1 => Pipe(k)' = f
<1>1. /\ Len(channel) \in Nat /\ Len(toServer) \in Nat
      /\ toServer' \in Seq(ClientsFrames)
      /\ Len(toServer') = Len(toServer) + 1
      /\ \A i \in 1 .. Len(toServer) : toServer'[i] = toServer[i]
      /\ toServer'[Len(toServer) + 1] = f
  BY DEF HandshakeParts
<1> QED BY <1>1 DEF InPipe, Pipe

LEMMA PipeReads ==
  ASSUME HandshakeParts, Reads, Readable # <<>>, UNCHANGED cfg
  PROVE  /\ toServer' \in Seq(ClientsFrames) /\ channel' \in Seq(ClientsFrames)
         /\ InPipe' = InPipe - 1 /\ InPipe \in Nat \ {0}
         /\ \A i \in 1 .. InPipe - 1 : Pipe(i)' = Pipe(i + 1)
         /\ Head(Readable) = Pipe(1)
         /\ Len(channel') <= ahead - 1 \/ channel' = <<>>
         /\ ~cfg.t.message => channel' = <<>>
<1>1. CASE cfg.t.message
  <2>1. channel' = Tail(channel) /\ toServer' = toServer /\ Readable = channel /\ channel # <<>>
    BY <1>1 DEF Reads, Readable
  <2>2. /\ Len(channel) \in Nat \ {0} /\ Len(channel') = Len(channel) - 1 /\ Len(toServer) \in Nat
        /\ channel' \in Seq(ClientsFrames)
        /\ \A i \in 1 .. Len(channel') : channel'[i] = channel[i + 1]
    BY <2>1 DEF HandshakeParts
  <2>3. \A i \in 1 .. InPipe - 1 : Pipe(i)' = Pipe(i + 1)
    BY <2>1, <2>2 DEF InPipe, Pipe
  <2>4. Head(Readable) = Pipe(1) /\ InPipe \in Nat \ {0}
    BY <2>1, <2>2 DEF InPipe, Pipe
  <2>5. Len(channel') <= ahead - 1
    BY <2>2, HandshakeAssumption DEF HandshakeParts
  <2> QED BY <1>1, <2>1, <2>2, <2>3, <2>4, <2>5 DEF HandshakeParts, InPipe
<1>2. CASE ~cfg.t.message
  <2>1. toServer' = Tail(toServer) /\ channel' = channel /\ Readable = toServer /\ toServer # <<>>
        /\ channel = <<>> /\ Len(channel) = 0
    BY <1>2 DEF Reads, Readable, HandshakeParts
  <2>2. /\ Len(toServer) \in Nat \ {0} /\ Len(toServer') = Len(toServer) - 1
        /\ toServer' \in Seq(ClientsFrames)
        /\ \A i \in 1 .. Len(toServer') : toServer'[i] = toServer[i + 1]
    BY <2>1 DEF HandshakeParts
  <2>3. \A i \in 1 .. InPipe - 1 : Pipe(i)' = Pipe(i + 1)
    BY <2>1, <2>2 DEF InPipe, Pipe
  <2> QED BY <1>2, <2>1, <2>2, <2>3 DEF HandshakeParts, InPipe, Pipe
<1> QED BY <1>1, <1>2

LEMMA PipeMoves ==
  ASSUME HandshakeParts, toServer # <<>>, channel' = Append(channel, Head(toServer)),
         toServer' = Tail(toServer)
  PROVE  /\ toServer' \in Seq(ClientsFrames) /\ channel' \in Seq(ClientsFrames)
         /\ Len(channel') = Len(channel) + 1
         /\ InPipe' = InPipe
         /\ \A i \in 1 .. InPipe : Pipe(i)' = Pipe(i)
<1>1. /\ Len(channel) \in Nat /\ Len(toServer) \in Nat \ {0}
      /\ toServer' \in Seq(ClientsFrames) /\ channel' \in Seq(ClientsFrames)
      /\ Len(channel') = Len(channel) + 1 /\ Len(toServer') = Len(toServer) - 1
      /\ \A i \in 1 .. Len(channel) : channel'[i] = channel[i]
      /\ channel'[Len(channel) + 1] = toServer[1]
      /\ \A i \in 1 .. Len(toServer') : toServer'[i] = toServer[i + 1]
  BY DEF HandshakeParts
<1>2. \A i \in 1 .. InPipe : Pipe(i)' = Pipe(i)
  BY <1>1 DEF InPipe, Pipe
<1> QED BY <1>1, <1>2 DEF InPipe

-----------------------------------------------------------------------------
(* The steps of the client.                                                *)

\* What the client sends next in the script goes behind what is on its way.
LEMMA SendsNext ==
  ASSUME HandshakeParts, NEW n \in Nat, ReadSoFar(n), NEW f \in ClientsFrames,
         toServer' = Append(toServer, f), UNCHANGED <<cfg, channel, server, small>>,
         SentSoFar' = SentSoFar + 1, \A k : k = SentSoFar + 1 => f = Script(k)
  PROVE  toServer' \in Seq(ClientsFrames) /\ ReadSoFar(n)'
<1>1. /\ toServer' \in Seq(ClientsFrames)
      /\ InPipe' = InPipe + 1 /\ InPipe \in Nat
      /\ \A i \in 1 .. InPipe : Pipe(i)' = Pipe(i)
      /\ \A k : k = InPipe + 1 => Pipe(k)' = f
  BY PipeAppends
<1>2. n + InPipe = SentSoFar /\ \A i \in 1 .. InPipe : Pipe(i) = Script(n + i)
  BY DEF ReadSoFar
<1>3. ASSUME NEW i \in 1 .. InPipe' PROVE Pipe(i)' = Script(n + i)
  <2>1. i \in 1 .. InPipe \/ i = InPipe + 1
    BY <1>1
  <2>2. CASE i \in 1 .. InPipe
    BY <1>1, <1>2, <2>2
  <2>3. CASE i = InPipe + 1
    BY <1>1, <2>3, <1>2
  <2> QED BY <2>1, <2>2, <2>3
<1>4. (Asks' <=> Asks) /\ \A k : Script(k)' = Script(k)
  BY CfgFixed
<1>5. \A i \in 1 .. InPipe' : Pipe(i)' = Script(n + i)'
  BY <1>3, <1>4
<1>6. n + InPipe' = SentSoFar'
  BY <1>1, <1>2
<1> QED BY <1>1, <1>4, <1>5, <1>6 DEF ReadSoFar

\* Nothing moves and nothing is sent.
LEMMA NothingMoves ==
  ASSUME NEW n \in Nat, ReadSoFar(n), UNCHANGED <<cfg, toServer, channel, server, small>>,
         SentSoFar' = SentSoFar
  PROVE  ReadSoFar(n)'
<1>1. (Asks' <=> Asks) /\ \A k : Script(k)' = Script(k)
  BY CfgFixed
<1>2. InPipe' = InPipe /\ \A i : Pipe(i)' = Pipe(i)
  BY DEF InPipe, Pipe
<1> QED BY <1>1, <1>2 DEF ReadSoFar

LEMMA HelloKeeps == ASSUME HandInv, ClientHello PROVE HandInv'
<1>f. UNCHANGED cfg
  BY DEF ClientHello
<1> USE <1>f, CfgFixed
<1>n. PICK n \in Nat : ReadSoFar(n)
  BY DEF HandInv, InOrder
<1>0. client = "start" /\ UNCHANGED <<cfg, server, channel, toClient, small, ahead, refused>>
  BY DEF ClientHello
<1>1. CASE Able
  <2>1. toServer' = Append(toServer, Hello) /\ client' = "welcome" /\ UNCHANGED broken
    BY <1>1 DEF ClientHello, Able, Hello
  <2>2. toServer' \in Seq(ClientsFrames) /\ ReadSoFar(n)'
    BY <1>0, <1>n, <2>1, <1>1, SendsNext DEF HandInv, Script, ClientsFrames, SentSoFar
  <2>3. HandshakeParts'
    BY <1>0, <2>1, <2>2 DEF HandInv, HandshakeParts
  <2>4. Judged'
    BY <1>0, <1>1, <2>1 DEF HandInv, Judged
  <2> QED BY <1>0, <2>2, <2>3, <2>4 DEF HandInv, InOrder
<1>2. CASE ~Able
  <2>1. client' = "failed" /\ broken' = Broken("refused") /\ UNCHANGED toServer
    BY <1>2 DEF ClientHello, Able
  <2>2. ReadSoFar(n)'
    BY <1>0, <1>n, <2>1, <1>2, NothingMoves DEF SentSoFar
  <2>3. HandshakeParts'
    BY <1>0, <2>1 DEF HandInv, HandshakeParts, Broken
  <2>4. Judged'
    BY <1>0, <1>2, <2>1, MakesIs DEF HandInv, HandshakeParts, Judged, Broken
  <2> QED BY <1>0, <2>2, <2>3, <2>4 DEF HandInv, InOrder
<1> QED BY <1>1, <1>2

LEMMA WelcomedKeeps == ASSUME HandInv, ClientWelcomed PROVE HandInv'
<1>f. UNCHANGED cfg
  BY DEF ClientWelcomed
<1> USE <1>f, CfgFixed
<1>n. PICK n \in Nat : ReadSoFar(n)
  BY DEF HandInv, InOrder
<1> DEFINE f == Head(toClient)
<1>0. /\ client = "welcome" /\ toClient # <<>> /\ toClient' = Tail(toClient)
      /\ UNCHANGED <<cfg, server, channel, small, ahead, refused>>
  BY DEF ClientWelcomed
<1>1. /\ toClient' \in Seq(ServersFrames) /\ Len(toClient) \in Nat \ {0}
      /\ Len(toClient') = Len(toClient) - 1 /\ f = toClient[1]
      /\ \A i \in 1 .. Len(toClient') : toClient'[i] = toClient[i + 1] /\ i + 1 \in 1 .. Len(toClient)
      /\ f \in ServersFrames
  BY <1>0 DEF HandInv, HandshakeParts
<1>2. Able /\ (f = Welcome \/ f = Goodbye)
  BY <1>0, <1>1 DEF HandInv, Judged, ServersFrames
<1>3. \A i \in 1 .. Len(toClient') :
        IF toClient'[i] = Welcome THEN Able /\ Admitted /\ small # All ELSE ~Makes
  BY <1>1 DEF HandInv, Judged
<1>4. CASE f = Welcome /\ Makes
  <2>1. Admitted /\ small # All
    BY <1>1, <1>4 DEF HandInv, Judged
  <2>2. client' = "up" /\ UNCHANGED broken
        /\ toServer' = IF Asks THEN Append(toServer, ItsProof) ELSE toServer
    BY <1>2, <1>4, <2>1, WelcomeIs DEF ClientWelcomed, ItsProof
  <2>3. SentSoFar = 1 /\ SentSoFar' = IF Asks THEN 2 ELSE 1
    BY <1>0, <1>2, <2>2 DEF SentSoFar
  <2>4. ReadSoFar(n)' /\ toServer' \in Seq(ClientsFrames)
    <3>1. CASE Asks
      BY <1>0, <1>n, <2>2, <2>3, <3>1, SendsNext DEF HandInv, Script, ClientsFrames
    <3>2. CASE ~Asks
      BY <1>n, <1>0, <2>2, <2>3, <3>2, NothingMoves DEF HandInv, HandshakeParts
    <3> QED BY <3>1, <3>2
  <2>5. HandshakeParts'
    BY <1>0, <1>1, <2>2, <2>4 DEF HandInv, HandshakeParts
  <2>6. Judged'
    BY <1>0, <1>2, <1>3, <1>4, <2>1, <2>2 DEF HandInv, Judged
  <2> QED BY <1>0, <2>4, <2>5, <2>6 DEF HandInv, InOrder
<1>5. CASE ~(f = Welcome /\ Makes)
  <2>1. ~Makes /\ ~(f.is = "welcome" /\ (Asked(f.proof) => ServerProved(f.proof)))
    <3>1. CASE f = Goodbye
      BY <1>1, <3>1, FramesApart DEF HandInv, Judged
    <3>2. CASE f = Welcome
      BY <1>2, <3>2, <1>1, <1>5, MakesIs, WelcomeIs DEF HandInv, Judged
    <3> QED BY <1>2, <3>1, <3>2
  <2>2. client' = "failed" /\ broken' = Broken("refused") /\ UNCHANGED toServer
    BY <2>1 DEF ClientWelcomed
  <2>3. ReadSoFar(n)'
    BY <1>0, <1>n, <2>2, <1>2, NothingMoves DEF SentSoFar
  <2>4. HandshakeParts'
    BY <1>0, <1>1, <2>2 DEF HandInv, HandshakeParts, Broken
  <2>5. Judged'
    BY <1>0, <1>3, <2>1, <2>2 DEF HandInv, HandshakeParts, Judged, Broken
  <2> QED BY <1>0, <2>3, <2>4, <2>5 DEF HandInv, InOrder
<1> QED BY <1>4, <1>5

LEMMA CallsKeeps == ASSUME HandInv, ClientCalls PROVE HandInv'
<1>f. UNCHANGED cfg
  BY DEF ClientCalls
<1> USE <1>f, CfgFixed
<1>n. PICK n \in Nat : ReadSoFar(n)
  BY DEF HandInv, InOrder
<1>0. /\ client = "up" /\ client' = "called" /\ toServer' = Append(toServer, Call)
      /\ UNCHANGED <<cfg, server, channel, toClient, small, ahead, refused, broken>>
  BY DEF ClientCalls, Call
<1>1. Able
  BY <1>0 DEF HandInv, Judged
<1>2. toServer' \in Seq(ClientsFrames) /\ ReadSoFar(n)'
  BY <1>0, <1>n, <1>1, SendsNext DEF HandInv, Script, ClientsFrames, SentSoFar
<1>3. HandshakeParts'
  BY <1>0, <1>2 DEF HandInv, HandshakeParts
<1>4. Judged'
  BY <1>0 DEF HandInv, Judged
<1> QED BY <1>0, <1>2, <1>3, <1>4 DEF HandInv, InOrder

LEMMA GivingUpKeeps == ASSUME HandInv, ClientGivesUp \/ ServerGivesUp PROVE HandInv'
<1>f. UNCHANGED cfg
  BY DEF ClientGivesUp, ServerGivesUp
<1> USE <1>f, CfgFixed
<1>n. PICK n \in Nat : ReadSoFar(n)
  BY DEF HandInv, InOrder
<1>1. CASE ClientGivesUp
  <2>1. /\ client = "welcome" /\ client' = "failed" /\ broken' = Broken("late")
        /\ UNCHANGED <<cfg, server, toServer, channel, toClient, small, ahead, refused>>
    BY <1>1 DEF ClientGivesUp
  <2>2. ReadSoFar(n)'
    BY <1>n, <2>1, NothingMoves DEF SentSoFar
  <2>3. HandshakeParts'
    BY <2>1 DEF HandInv, HandshakeParts, Broken
  <2>4. Judged'
    BY <2>1 DEF HandInv, HandshakeParts, Judged, Broken
  <2> QED BY <2>1, <2>2, <2>3, <2>4 DEF HandInv, InOrder
<1>2. CASE ServerGivesUp
  <2>1. /\ server \in {"hello", "proof"} /\ server' = "failed" /\ broken' = Broken("late")
        /\ UNCHANGED <<cfg, client, toServer, channel, toClient, small, ahead, refused>>
    BY <1>2 DEF ServerGivesUp
  <2>2. ReadSoFar(n)'
    BY <1>n, <2>1 DEF ReadSoFar, SentSoFar, InPipe, Pipe
  <2>3. HandshakeParts'
    BY <2>1 DEF HandInv, HandshakeParts, Broken
  <2>4. Judged'
    BY <2>1 DEF HandInv, HandshakeParts, Judged, Broken
  <2> QED BY <2>1, <2>2, <2>3, <2>4 DEF HandInv, InOrder
<1> QED BY <1>1, <1>2

-----------------------------------------------------------------------------
(* The steps of the server.                                                *)

\* The frame read was the next of the script.
LEMMA ReadsNext ==
  ASSUME HandshakeParts, NEW n \in Nat, ReadSoFar(n), Reads, Readable # <<>>, UNCHANGED <<cfg, client>>
  PROVE  /\ toServer' \in Seq(ClientsFrames) /\ channel' \in Seq(ClientsFrames)
         /\ Len(channel') <= ahead - 1 \/ channel' = <<>>
         /\ ~cfg.t.message => channel' = <<>>
         /\ Head(Readable) = Script(n + 1) /\ n + 1 <= SentSoFar
         /\ SentSoFar' = SentSoFar
         /\ (n + 1) + InPipe' = SentSoFar
         /\ \A i \in 1 .. InPipe' : Pipe(i)' = Script((n + 1) + i)'
<1>1. /\ toServer' \in Seq(ClientsFrames) /\ channel' \in Seq(ClientsFrames)
      /\ InPipe' = InPipe - 1 /\ InPipe \in Nat \ {0}
      /\ \A i \in 1 .. InPipe - 1 : Pipe(i)' = Pipe(i + 1)
      /\ Head(Readable) = Pipe(1)
      /\ Len(channel') <= ahead - 1 \/ channel' = <<>>
      /\ ~cfg.t.message => channel' = <<>>
  BY PipeReads
<1>2. n + InPipe = SentSoFar /\ \A i \in 1 .. InPipe : Pipe(i) = Script(n + i)
  BY DEF ReadSoFar
<1>3. \A i \in 1 .. InPipe' : Pipe(i)' = Script((n + 1) + i)
  <2> SUFFICES ASSUME NEW i \in 1 .. InPipe' PROVE Pipe(i)' = Script((n + 1) + i)
    OBVIOUS
  <2>1. Pipe(i)' = Pipe(i + 1) /\ i + 1 \in 1 .. InPipe
    BY <1>1
  <2>2. Pipe(i + 1) = Script(n + (i + 1)) /\ n + (i + 1) = (n + 1) + i
    BY <1>1, <1>2, <2>1
  <2> QED BY <2>1, <2>2
<1>4. \A k : Script(k)' = Script(k)
  BY CfgFixed
<1>5. SentSoFar' = SentSoFar
  BY CfgFixed DEF SentSoFar
<1> QED BY <1>1, <1>2, <1>3, <1>4, <1>5

\* A frame may only be dropped for its size while none is: the call comes when
\* every bound is raised, or behind the PROOF.
LEMMA ArrivesKeeps == ASSUME HandInv, Arrives PROVE HandInv'
<1>f. UNCHANGED cfg
  BY DEF Arrives
<1> USE <1>f, CfgFixed
<1>n. PICK n \in Nat : ReadSoFar(n)
  BY DEF HandInv, InOrder
<1> DEFINE f == Head(toServer)
<1>0. /\ cfg.t.message /\ toServer # <<>> /\ Len(channel) < ahead /\ toServer' = Tail(toServer)
      /\ UNCHANGED <<cfg, client, server, toClient, small, ahead>>
  BY DEF Arrives
<1>1. /\ Len(channel) \in Nat /\ Len(toServer) \in Nat \ {0} /\ f = toServer[1] /\ InPipe \in Nat
      /\ Len(channel) + 1 \in 1 .. InPipe
      /\ \A k : k = Len(channel) + 1 => Pipe(k) = f
  BY <1>0 DEF HandInv, HandshakeParts, InPipe, Pipe
<1>2. f = Script(n + (Len(channel) + 1)) /\ n + (Len(channel) + 1) <= SentSoFar
  BY <1>1, <1>n DEF ReadSoFar
<1>3. Taken(f, Len(channel) + 1)
  <2>1. CASE ~f.large
    BY <2>1 DEF Taken
  <2>2. CASE f.large
    <3>1. f = Call /\ n + (Len(channel) + 1) # 1 /\ ~(n + (Len(channel) + 1) = 2 /\ Asks)
      BY <1>2, <2>2, FramesApart DEF Script
    <3>2. small \in {0, 1}
      BY <1>1, <1>2, <3>1 DEF HandInv, HandshakeParts, Judged, SentSoFar
    <3>3. small = 1 => Len(channel) + 1 > 1
      BY <1>1, <1>n, <3>1 DEF ReadSoFar
    <3> QED BY <1>1, <3>2, <3>3 DEF Taken
  <2> QED BY <2>1, <2>2
<1>4. channel' = Append(channel, f) /\ UNCHANGED <<refused, broken>>
  BY <1>3 DEF Arrives
<1>5. /\ toServer' \in Seq(ClientsFrames) /\ channel' \in Seq(ClientsFrames)
      /\ Len(channel') = Len(channel) + 1
      /\ InPipe' = InPipe
      /\ \A i \in 1 .. InPipe : Pipe(i)' = Pipe(i)
  BY <1>0, <1>4, PipeMoves DEF HandInv
<1>6. ReadSoFar(n)'
  BY <1>0, <1>n, <1>5 DEF ReadSoFar, SentSoFar
<1>7. HandshakeParts'
  BY <1>0, <1>1, <1>4, <1>5, HandshakeAssumption DEF HandInv, HandshakeParts
<1>8. Judged'
  BY <1>0, <1>4 DEF HandInv, Judged
<1> QED BY <1>4, <1>6, <1>7, <1>8 DEF HandInv, InOrder

LEMMA ServerHelloKeeps == ASSUME HandInv, ServerHello PROVE HandInv'
<1>f. UNCHANGED cfg
  BY DEF ServerHello
<1> USE <1>f, CfgFixed
<1>n. PICK n \in Nat : ReadSoFar(n)
  BY DEF HandInv, InOrder
<1>0. /\ server = "hello" /\ Readable # <<>> /\ Reads /\ UNCHANGED <<cfg, client, refused>>
  BY DEF ServerHello
<1>1. n = 0
  BY <1>0, <1>n DEF ReadSoFar
<1>2. /\ toServer' \in Seq(ClientsFrames) /\ channel' \in Seq(ClientsFrames)
      /\ Len(channel') <= ahead - 1 \/ channel' = <<>>
      /\ ~cfg.t.message => channel' = <<>>
      /\ Head(Readable) = Script(1) /\ 1 <= SentSoFar
      /\ SentSoFar' = SentSoFar
      /\ 1 + InPipe' = SentSoFar
      /\ \A i \in 1 .. InPipe' : Pipe(i)' = Script(1 + i)'
  BY <1>0, <1>1, <1>n, ReadsNext DEF HandInv
<1>3. Head(Readable) = Hello /\ Able /\ small = All /\ ahead = 1
  BY <1>0, <1>2 DEF Script, SentSoFar, HandInv, HandshakeParts, Judged
<1>4. Len(channel') = 0
  BY <1>2, <1>3
<1>5. client \notin {"up", "called"} /\ \A i \in 1 .. Len(toClient) : toClient[i] # Welcome
  BY <1>3 DEF HandInv, Judged
<1>6. /\ Len(toClient) \in Nat
      /\ \A i \in 1 .. Len(toClient) : toClient[i] \in ServersFrames
  BY DEF HandInv, HandshakeParts
<1>7. CASE Admitted
  <2>1. /\ server' = (IF Asks THEN "proof" ELSE "up") /\ small' = (IF Asks THEN 1 ELSE 0)
        /\ ahead' = (IF Asks THEN 1 ELSE ReadAhead) /\ toClient' = Append(toClient, Welcome)
        /\ UNCHANGED broken
    BY <1>3, <1>7 DEF ServerHello, Admitted, Bounded, Ahead, Asks, Welcome
  <2>2. ReadSoFar(1)'
    BY <1>2, <2>1 DEF ReadSoFar
  <2>3. /\ toClient' \in Seq(ServersFrames) /\ Len(toClient') = Len(toClient) + 1
        /\ \A i \in 1 .. Len(toClient) : toClient'[i] = toClient[i]
        /\ toClient'[Len(toClient) + 1] = Welcome
    BY <2>1 DEF HandInv, HandshakeParts, ServersFrames
  <2>4. HandshakeParts'
    BY <1>0, <1>2, <1>4, <2>1, <2>3, HandshakeAssumption DEF HandInv, HandshakeParts
  <2>5. \A i \in 1 .. Len(toClient') :
          IF toClient'[i] = Welcome THEN Able /\ Admitted /\ small' # All ELSE ~Makes
    <3>1. small' # All
      BY <2>1 DEF All
    <3>2. ASSUME NEW i \in 1 .. Len(toClient), toClient[i] # Welcome PROVE ~Makes
      BY <3>2 DEF HandInv, Judged
    <3>3. \A i \in 1 .. Len(toClient') : i \in 1 .. Len(toClient) \/ toClient'[i] = Welcome
      BY <1>6, <2>3
    <3> QED BY <1>3, <1>6, <1>7, <2>3, <3>1, <3>2, <3>3
  <2>6. Judged'
    BY <1>0, <1>3, <1>5, <1>7, <2>1, <2>5, MakesIs DEF HandInv, Judged, All
  <2> QED BY <1>0, <2>2, <2>4, <2>6 DEF HandInv, InOrder
<1>8. CASE ~Admitted
  <2>1. /\ server' = "failed" /\ broken' = Broken("refused") /\ UNCHANGED <<small, ahead>>
        /\ toClient' = Append(toClient, Goodbye) \/ toClient' = toClient
    BY <1>3, <1>8 DEF ServerHello, Admitted, Goodbye
  <2>2. ~Makes
    BY <1>8, MakesIs
  <2>3. ReadSoFar(1)'
    BY <1>2, <1>3, <2>1 DEF ReadSoFar, All
  <2>4. /\ toClient' \in Seq(ServersFrames)
        /\ \A i \in 1 .. Len(toClient') : toClient'[i] # Welcome
    <3>1. CASE toClient' = toClient
      BY <1>5, <3>1 DEF HandInv, HandshakeParts
    <3>2. CASE toClient' = Append(toClient, Goodbye)
      BY <1>5, <3>2, <1>6, FramesApart DEF HandInv, HandshakeParts, ServersFrames
    <3> QED BY <2>1, <3>1, <3>2
  <2>5. HandshakeParts'
    BY <1>0, <1>2, <1>3, <1>4, <2>1, <2>4 DEF HandInv, HandshakeParts, Broken
  <2>6. Judged'
    BY <1>0, <1>3, <1>5, <2>1, <2>2, <2>4 DEF HandInv, HandshakeParts, Judged, Broken
  <2> QED BY <1>0, <2>3, <2>5, <2>6 DEF HandInv, InOrder
<1> QED BY <1>7, <1>8

LEMMA ServerProofKeeps == ASSUME HandInv, ServerProof PROVE HandInv'
<1>f. UNCHANGED cfg
  BY DEF ServerProof
<1> USE <1>f, CfgFixed
<1>n. PICK n \in Nat : ReadSoFar(n)
  BY DEF HandInv, InOrder
<1>0. /\ server = "proof" /\ Readable # <<>> /\ Reads /\ UNCHANGED <<cfg, client, refused>>
  BY DEF ServerProof
<1>1. n = 1 /\ Asks /\ Able /\ ahead = 1
  BY <1>0, <1>n DEF ReadSoFar, HandInv, HandshakeParts, Judged
<1>2. /\ toServer' \in Seq(ClientsFrames) /\ channel' \in Seq(ClientsFrames)
      /\ Len(channel') <= ahead - 1 \/ channel' = <<>>
      /\ ~cfg.t.message => channel' = <<>>
      /\ Head(Readable) = Script(2) /\ 2 <= SentSoFar
      /\ SentSoFar' = SentSoFar
      /\ 2 + InPipe' = SentSoFar
      /\ \A i \in 1 .. InPipe' : Pipe(i)' = Script(2 + i)'
  BY <1>0, <1>1, <1>n, ReadsNext DEF HandInv
<1>3. client \in {"up", "called"} /\ Makes
  BY <1>2 DEF SentSoFar, HandInv, HandshakeParts, Judged
<1>4. server' = "up" /\ small' = 0 /\ ahead' = ReadAhead /\ UNCHANGED <<toClient, broken>>
  BY <1>1, <1>2, <1>3, MakesIs DEF ServerProof, ClientProved, ItsProof, Frame, Proof, Script
<1>5. ReadSoFar(2)'
  BY <1>1, <1>2, <1>4 DEF ReadSoFar
<1>6. HandshakeParts'
  BY <1>0, <1>2, <1>1, <1>4, HandshakeAssumption DEF HandInv, HandshakeParts
<1>7. Judged'
  BY <1>0, <1>3, <1>4 DEF HandInv, Judged, All
<1> QED BY <1>0, <1>5, <1>6, <1>7 DEF HandInv, InOrder

LEMMA ServerReadsKeeps == ASSUME HandInv, ServerReads PROVE HandInv'
<1>f. UNCHANGED cfg
  BY DEF ServerReads
<1> USE <1>f, CfgFixed
<1>n. PICK n \in Nat : ReadSoFar(n)
  BY DEF HandInv, InOrder
<1>0. /\ server = "up" /\ Readable # <<>> /\ Reads /\ UNCHANGED <<cfg, client, toClient, ahead, broken>>
  BY DEF ServerReads
<1>1. small = 0 /\ Makes /\ Able /\ Admitted /\ ahead = ReadAhead
  BY <1>0 DEF HandInv, HandshakeParts, Judged
<1>2. server' = "read" /\ ~refused' /\ small' = 0
  <2>1. ~refused /\ (cfg.t.message \/ Taken(Head(Readable), 1))
    BY <1>1 DEF HandInv, Taken
  <2>2. ~refused'
    BY <2>1, Zenon DEF ServerReads
  <2>3. server' = "read"
    BY <2>1 DEF ServerReads
  <2>4. small' = 0
    BY <1>1 DEF ServerReads, After
  <2> QED BY <2>2, <2>3, <2>4
<1>3. /\ toServer' \in Seq(ClientsFrames) /\ channel' \in Seq(ClientsFrames)
      /\ Len(channel') <= ahead - 1 \/ channel' = <<>>
      /\ ~cfg.t.message => channel' = <<>>
      /\ SentSoFar' = SentSoFar
      /\ (n + 1) + InPipe' = SentSoFar
      /\ \A i \in 1 .. InPipe' : Pipe(i)' = Script((n + 1) + i)'
  BY <1>0, <1>n, ReadsNext DEF HandInv
<1>4. \A m : m = n + 1 => ReadSoFar(m)'
  BY <1>2, <1>3 DEF ReadSoFar
<1>5. HandshakeParts'
  BY <1>0, <1>1, <1>2, <1>3, HandshakeAssumption DEF HandInv, HandshakeParts
<1>6. Judged'
  BY <1>0, <1>1, <1>2 DEF HandInv, Judged, All
<1>7. n + 1 \in Nat
  OBVIOUS
<1> QED BY <1>2, <1>4, <1>5, <1>6, <1>7 DEF HandInv, InOrder

-----------------------------------------------------------------------------
\* Two ends configured in any way, over any transport, come up together or not
\* at all, each with what its level asks of the other, and the first call is
\* never refused for its size (link/handshake.rs, Link::client, Link::server).
THEOREM HandshakeIsAgreed == HandshakeInit /\ [][HandshakeNext]_hvars => []HandshakeAgrees
<1>1. HandshakeInit => HandInv
  <2> SUFFICES ASSUME HandshakeInit PROVE HandInv
    OBVIOUS
  <2>1. toServer = <<>> /\ channel = <<>> /\ toClient = <<>> /\ client = "start" /\ server = "hello"
        /\ small = All /\ ahead = 1 /\ refused = FALSE /\ broken = "no"
    BY DEF HandshakeInit
  <2>2. HandshakeParts
    BY <2>1 DEF HandshakeParts
  <2>3. ReadSoFar(0)
    BY <2>1 DEF ReadSoFar, InPipe, SentSoFar, All
  <2>4. Judged
    BY <2>1 DEF Judged, All
  <2> QED BY <2>1, <2>2, <2>3, <2>4 DEF HandInv, InOrder
<1>2. HandInv /\ [HandshakeNext]_hvars => HandInv'
  <2> SUFFICES ASSUME HandInv, [HandshakeNext]_hvars PROVE HandInv'
    OBVIOUS
  <2>1. CASE UNCHANGED hvars
    <3>1. UNCHANGED <<cfg, client, server, toServer, channel, toClient, small, ahead, refused, broken>>
      BY <2>1 DEF hvars
    <3>2. HandshakeParts'
      BY <3>1, CfgFixed DEF HandInv, HandshakeParts
    <3>3. Judged'
      BY <3>1, CfgFixed DEF HandInv, Judged
    <3>4. InOrder'
      <4>1. PICK n \in Nat : ReadSoFar(n)
        BY DEF HandInv, InOrder
      <4> QED BY <3>1, <4>1, CfgFixed, NothingMoves DEF InOrder, SentSoFar
    <3> QED BY <3>1, <3>2, <3>3, <3>4 DEF HandInv
  <2>2. CASE HandshakeNext
    BY <2>2, HelloKeeps, WelcomedKeeps, CallsKeeps, GivingUpKeeps, ArrivesKeeps, ServerHelloKeeps,
       ServerProofKeeps, ServerReadsKeeps DEF HandshakeNext
  <2> QED BY <2>1, <2>2
<1>3. HandInv => HandshakeAgrees
  <2> SUFFICES ASSUME HandInv PROVE HandshakeAgrees
    OBVIOUS
  <2>1. HandshakeTypeOK
    BY DEF HandInv, HandshakeParts, HandshakeTypeOK
  <2>2. EndsAgree
    BY DEF HandInv, HandshakeParts, Judged, EndsAgree, Makes
  <2>3. UpIsProven
    BY MakesIs DEF HandInv, Judged, UpIsProven, Asks, Makes, Compatible
  <2> QED BY <2>1, <2>2, <2>3 DEF HandInv, HandshakeAgrees, FirstCallFits
<1> QED BY <1>1, <1>2, <1>3, PTL

-----------------------------------------------------------------------------
(* Peers that manifests describe (Described).                              *)

Naming == [Names -> [peer : 0 .. MaxPeers, edit : 0 .. MaxEdits]]
Entries == [name : Names, peer : Peers]
Held == [name : Names, peer : Peers, stamp : 1 .. MaxLinks, serving : BOOLEAN, id : 1 .. MaxOpens]
PeerRecord == [link : 0 .. MaxLinks, up : BOOLEAN, lists : BOOLEAN, listed : SUBSET (1 .. MaxLinks),
               ever : BOOLEAN, opened : [1 .. MaxLinks -> Nat]]
ListerRecord(T) ==
  [pc : {"idle", "listing", "opening"}, todo : SUBSET T, failed : SUBSET Peers,
   made : 0 .. MaxPeers, named : Naming, leaving : SUBSET Entries]
Candidates == [name : Names, stamp : 1 .. MaxLinks]

\* The registry tells the libraries it holds apart.
OwnIds(H) == \A o, x \in H : o.id = x.id => o = x

Shape ==
  /\ disk \in [Names -> [says : {"peer", "bad", "none"}, edit : 1 .. MaxEdits]]
  /\ edits \in 1 .. MaxEdits
  /\ named \in Naming
  /\ leaving \in SUBSET Entries
  /\ peer \in [Peers -> PeerRecord]
  /\ links \in 0 .. MaxLinks
  /\ IF lister.pc = "listing" THEN lister \in ListerRecord(Peers)
     ELSE lister \in ListerRecord(Candidates)
  /\ tried \in [Names -> 0 .. MaxLinks]
  /\ holds \in SUBSET Held /\ OwnIds(holds)
  /\ crossed \in BOOLEAN

\* Nothing is known of a peer that is not made, or of an edit to come.
Young ==
  /\ \A n \in Names : /\ named[n].peer <= lister.made /\ lister.named[n].peer <= lister.made
                      /\ named[n].edit <= edits /\ lister.named[n].edit <= edits
                      /\ disk[n].edit <= edits
  /\ \A e \in leaving \cup lister.leaving : e.peer <= lister.made
  /\ \A o \in holds : o.peer <= lister.made
  /\ \A p \in Peers : p > lister.made => \A g \in 1 .. MaxLinks : peer[p].opened[g] = 0

\* A peer made of a manifest as it is now is of one that describes a peer.
Stamped ==
  \A n \in Names : \A x \in {named[n], lister.named[n]} :
    x.peer # 0 /\ x.edit = disk[n].edit => disk[n].says = "peer"

\* A peer is made for one name, f of it, and known under no other.
OwnerIs(f) ==
  /\ \A n \in Names : /\ named[n].peer # 0 => f[named[n].peer] = n
                      /\ lister.named[n].peer # 0 => f[lister.named[n].peer] = n
  /\ \A e \in leaving \cup lister.leaving : f[e.peer] = e.name
  /\ \A o \in holds : f[o.peer] = o.name
OneName == \E f \in [Peers -> Names \cup {0}] : OwnerIs(f)

\* A link is of one peer, s of its generation.
SourceIs(s) ==
  /\ \A p \in Peers : peer[p].link <= links /\ (peer[p].link # 0 => s[peer[p].link] = p)
  /\ \A p \in Peers, g \in 1 .. MaxLinks : peer[p].opened[g] > 0 => g <= links /\ s[g] = p
  /\ ~crossed => \A o \in holds : o.stamp <= links /\ s[o.stamp] = o.peer
OneSource == \E s \in [1 .. MaxLinks -> 0 .. MaxPeers] : SourceIs(s)

LinkStands == \A p \in Peers : peer[p].lists \/ peer[p].up => peer[p].link # 0

\* What becomes of a named peer in the listing under way: it is named again,
\* leaves, or is dropped and stays without a link.
Fate(p) ==
  \/ \E n \in Names : lister.named[n].peer = p
  \/ \E e \in lister.leaving : e.peer = p
  \/ p \in dropped /\ ~peer[p].up /\ \A n \in Names : lister.named[n].peer # p

Underway ==
  IF lister.pc = "listing"
  THEN /\ \A p \in lister.todo : \E n \in Names : lister.named[n].peer = p
       /\ leaving \subseteq lister.leaving
       /\ \A n \in Names : named[n].peer # 0 => Fate(named[n].peer)
  ELSE (\A n \in Names : lister.named[n].peer = 0) /\ lister.leaving = {}

\* HoldsAreCounted and NoLinkLeft, one peer at a time.
IsKept(p) ==
  \/ \E n \in Names : named[n].peer = p \/ lister.named[n].peer = p
  \/ \E e \in leaving \cup lister.leaving : e.peer = p
Of(H, p, g) == {o \in H : o.peer = p /\ o.stamp = g}
Counted ==
  ~crossed => /\ \A p \in Peers : IsKept(p) => \A g \in 1 .. MaxLinks :
                   peer[p].opened[g] = Cardinality(Of(holds, p, g))
              /\ \A o \in holds : IsKept(o.peer) \/ o.peer \in dropped
NoneLeft == \A p \in Peers : peer[p].up => IsKept(p)

PeersInv ==
  /\ Shape /\ Young /\ Stamped /\ OneName /\ OneSource /\ LinkStands /\ Underway
  /\ Counted /\ LeavingAreHeld /\ NoneLeft

-----------------------------------------------------------------------------
\* A set of numbers up to N has a last.
LEMMA HasLast ==
  ASSUME NEW N \in Nat, NEW S \in SUBSET (1 .. N), S # {}
  PROVE  \E p \in S : \A q \in S : q <= p
<1> DEFINE Above == {k \in Nat : \A q \in S : q <= k}
           R == OpToRel(<, Nat)
<1>1. \A x, y \in Nat : <<y, x>> \in R <=> y < x
  BY DEF OpToRel
<1>2. N \in Above
  OBVIOUS
<1>3. PICK x \in Above : \A y \in Above : <<y, x>> \notin R
  <2> HIDE DEF R
  <2>1. IsWellFoundedOn(R, Nat)
    BY NatLessThanWellFounded DEF R
  <2>2. Above \subseteq Nat /\ Above # {}
    BY <1>2
  <2> HIDE DEF Above
  <2> QED BY <2>1, <2>2, WFMin
<1>4. x \in Nat /\ \A q \in S : q \in Nat /\ q >= 1 /\ q <= x
  OBVIOUS
<1>5. \A y \in Above : y \in Nat /\ ~(y < x)
  <2> HIDE DEF R
  <2> QED BY <1>1, <1>3, <1>4
<1>6. \A k \in Nat : (\A q \in S : q <= k) => k \in Above
  OBVIOUS
<1> HIDE DEF Above, R
<1>7. CASE x \in S
  BY <1>4, <1>7
<1>8. CASE x \notin S
  <2>1. \A q \in S : q # x
    BY <1>8
  <2>2. x >= 1 /\ x - 1 \in Nat
    <3>1. PICK q \in S : q \in Nat /\ q >= 1 /\ q <= x
      BY <1>4
    <3> QED BY <1>4, <3>1
  <2>3. \A q \in S : q <= x - 1
    <3> TAKE q \in S
    <3> QED BY <1>4, <2>1
  <2>4. x - 1 \in Above
    BY <1>6, <2>2, <2>3
  <2> QED BY <1>4, <1>5, <2>2, <2>4
<1> QED BY <1>7, <1>8

\* While fewer libraries are held than may be, one more can be told apart.
LEMMA FreeId ==
  ASSUME NEW H \in SUBSET Held, OwnIds(H)
  PROVE  /\ IsFiniteSet(H)
         /\ Cardinality(H) < MaxOpens => \E i \in 1 .. MaxOpens : \A o \in H : o.id # i
<1> DEFINE T == 1 .. MaxOpens
           f == [o \in H |-> o.id]
<1>1. IsFiniteSet(T) /\ Cardinality(T) = MaxOpens
  BY DescribedAssumption, FS_Interval
<1>2. \A o \in H : o.id \in T
  BY DEF Held
<1>3. f \in Injection(H, T)
  BY <1>2 DEF Injection, IsInjective, OwnIds
<1> HIDE DEF f
<1>4. /\ IsFiniteSet(H) /\ Cardinality(H) <= Cardinality(T)
      /\ Cardinality(H) = Cardinality(T) <=> f \in Surjection(H, T)
  BY <1>1, <1>3, FS_Injection
<1>5. ASSUME Cardinality(H) < MaxOpens PROVE f \notin Surjection(H, T)
  BY <1>1, <1>4, <1>5, FS_CardinalityType, DescribedAssumption
<1>6. ASSUME Cardinality(H) < MaxOpens PROVE \E i \in T : \A o \in H : o.id # i
  BY <1>5, <1>6, <1>2 DEF Surjection, f
<1> QED BY <1>4, <1>6

\* As many libraries of a peer are held under a stamp as ids.
LEMMA ById ==
  ASSUME NEW H \in SUBSET Held, OwnIds(H), NEW p, NEW g
  PROVE  /\ IsFiniteSet(Of(H, p, g))
         /\ Cardinality(Of(H, p, g)) \in Nat
         /\ Cardinality(Of(H, p, g)) = Cardinality({o.id : o \in Of(H, p, g)})
<1> DEFINE S == Of(H, p, g)
           T == {o.id : o \in S}
           f == [o \in S |-> o.id]
<1>1. S \in SUBSET H
  BY DEF Of
<1>2. IsFiniteSet(S)
  BY <1>1, FreeId, FS_Subset
<1> HIDE DEF S
<1>3. f \in Bijection(S, T)
  BY <1>1 DEF Bijection, Injection, Surjection, IsInjective, OwnIds
<1> HIDE DEF f, T
<1>4. ExistsBijection(S, T)
  BY <1>3 DEF ExistsBijection
<1>5. Cardinality(T) = Cardinality(S)
  BY <1>2, <1>4, FS_Bijection
<1>6. Cardinality(S) \in Nat
  BY <1>2, FS_CardinalityType
<1> QED BY <1>2, <1>5, <1>6 DEF S, T

\* Libraries that differ in neither are counted alike.
Alike(x, o) == x.id = o.id /\ x.peer = o.peer /\ x.stamp = o.stamp /\ x.name = o.name
LEMMA CountedAlike ==
  ASSUME NEW H \in SUBSET Held, OwnIds(H), NEW K \in SUBSET Held, OwnIds(K),
         \A x \in K : \E o \in H : Alike(x, o),
         \A o \in H : \E x \in K : Alike(x, o), NEW p, NEW g
  PROVE  Cardinality(Of(K, p, g)) = Cardinality(Of(H, p, g))
<1>1. ASSUME NEW i, \E x \in Of(K, p, g) : x.id = i PROVE \E o \in Of(H, p, g) : o.id = i
  BY <1>1 DEF Of, Alike
<1>2. ASSUME NEW i, \E o \in Of(H, p, g) : o.id = i PROVE \E x \in Of(K, p, g) : x.id = i
  BY <1>2 DEF Of, Alike
<1>3. {x.id : x \in Of(K, p, g)} = {o.id : o \in Of(H, p, g)}
  BY <1>1, <1>2
<1>4. Cardinality(Of(K, p, g)) = Cardinality({x.id : x \in Of(K, p, g)})
  BY ById
<1>5. Cardinality(Of(H, p, g)) = Cardinality({o.id : o \in Of(H, p, g)})
  BY ById
<1> QED BY <1>3, <1>4, <1>5

\* Of the libraries H, only those of W stay served ...
Stilled(H, W) == {[o EXCEPT !.serving = @ /\ o \in W] : o \in H}

\* ... and all are counted as before.
LEMMA StillCounted ==
  ASSUME NEW H \in SUBSET Held, OwnIds(H), NEW W
  PROVE  /\ Stilled(H, W) \in SUBSET Held /\ OwnIds(Stilled(H, W))
         /\ \A x \in Stilled(H, W) : \E o \in H : Alike(x, o)
         /\ \A p, g : Cardinality(Of(Stilled(H, W), p, g)) = Cardinality(Of(H, p, g))
<1> DEFINE on(o) == [o EXCEPT !.serving = @ /\ o \in W]
           K == Stilled(H, W)
<1>1. \A o \in H : on(o) \in Held /\ Alike(on(o), o)
  BY DEF Held, Alike
<1>2. K = {on(o) : o \in H}
  BY DEF Stilled
<1> HIDE DEF on, K
<1>3. K \in SUBSET Held /\ \A x \in K : \E o \in H : Alike(x, o)
  BY <1>1, <1>2
<1>4. OwnIds(K)
  BY <1>1, <1>2 DEF OwnIds, Alike
<1>5. \A p, g : Cardinality(Of(K, p, g)) = Cardinality(Of(H, p, g))
  BY <1>3, <1>1, <1>2, <1>4, CountedAlike
<1> QED BY <1>3, <1>4, <1>5 DEF K

\* One more of a peer under a stamp is counted there.
LEMMA OneMore ==
  ASSUME NEW H \in SUBSET Held, OwnIds(H), NEW x, x \notin H, NEW p, NEW g
  PROVE  Cardinality(Of(H \cup {x}, p, g))
           = Cardinality(Of(H, p, g)) + IF x.peer = p /\ x.stamp = g THEN 1 ELSE 0
<1>1. IsFiniteSet(Of(H, p, g)) /\ Cardinality(Of(H, p, g)) \in Nat
  BY ById
<1>2. x \notin Of(H, p, g)
  BY DEF Of
<1>3. CASE x.peer = p /\ x.stamp = g
  <2> QED BY <1>3, <1>1, <1>2, FS_AddElement DEF Of
<1>4. CASE ~(x.peer = p /\ x.stamp = g)
  <2>1. Of(H \cup {x}, p, g) = Of(H, p, g)
    BY <1>4 DEF Of
  <2> QED BY <1>1, <1>4, <2>1
<1> QED BY <1>3, <1>4

\* One less is missed there.
LEMMA OneLess ==
  ASSUME NEW H \in SUBSET Held, OwnIds(H), NEW x \in H, NEW p, NEW g
  PROVE  /\ OwnIds(H \ {x})
         /\ Cardinality(Of(H \ {x}, p, g))
              = Cardinality(Of(H, p, g)) - IF x.peer = p /\ x.stamp = g THEN 1 ELSE 0
<1>1. IsFiniteSet(Of(H, p, g)) /\ Cardinality(Of(H, p, g)) \in Nat
  BY ById
<1>2. OwnIds(H \ {x})
  BY DEF OwnIds
<1>3. CASE x.peer = p /\ x.stamp = g
  <2>1. Of(H \ {x}, p, g) = Of(H, p, g) \ {x} /\ x \in Of(H, p, g)
    BY <1>3 DEF Of
  <2>2. Cardinality(Of(H, p, g) \ {x}) = Cardinality(Of(H, p, g)) - 1
    BY <1>1, <2>1, FS_RemoveElement
  <2> QED BY <1>2, <1>3, <2>1, <2>2
<1>4. CASE ~(x.peer = p /\ x.stamp = g)
  <2>1. Of(H \ {x}, p, g) = Of(H, p, g)
    BY <1>4 DEF Of
  <2> QED BY <1>1, <1>2, <1>4, <2>1
<1> QED BY <1>3, <1>4

\* What is held is counted at least once.
LEMMA HeldCounts ==
  ASSUME NEW H \in SUBSET Held, OwnIds(H), NEW o \in H
  PROVE  Cardinality(Of(H, o.peer, o.stamp)) \in Nat /\ Cardinality(Of(H, o.peer, o.stamp)) > 0
<1>1. IsFiniteSet(Of(H, o.peer, o.stamp)) /\ Cardinality(Of(H, o.peer, o.stamp)) \in Nat
  BY ById
<1>2. Cardinality(Of(H, o.peer, o.stamp)) # 0
  BY <1>1, FS_EmptySet DEF Of
<1> QED BY <1>1, <1>2

\* What a listing under way is made of.
LEMMA ListerIs ==
  ASSUME Shape
  PROVE  /\ lister.pc \in {"idle", "listing", "opening"}
         /\ lister.named \in Naming /\ lister.leaving \in SUBSET Entries
         /\ lister.made \in 0 .. MaxPeers /\ lister.failed \in SUBSET Peers
         /\ lister.pc = "listing" => lister \in ListerRecord(Peers)
         /\ lister.pc # "listing" => lister \in ListerRecord(Candidates)
BY DEF Shape, ListerRecord

\* The peers known are those of the names and of the entries that leave.
LEMMA KeptIs ==
  ASSUME Shape
  PROVE  Kept \subseteq Peers /\ \A p \in Peers : p \in Kept <=> IsKept(p)
<1>1. \A p : p \in Peers <=> p \in 0 .. MaxPeers /\ p # 0
  BY DescribedAssumption DEF Peers
<1>2. ASSUME NEW p \in Kept PROVE p \in Peers
  BY ListerIs, <1>1, <1>2 DEF Kept, Naming, Entries, Shape
<1>3. ASSUME NEW p \in Peers PROVE p \in Kept <=> IsKept(p)
  <2>1. p # 0
    BY <1>1
  <2> QED BY <2>1 DEF Kept, IsKept
<1> QED BY <1>2, <1>3

\* The invariant says what the runs check.
LEMMA InvKeeps == PeersInv => PeersAreKept
<1> SUFFICES ASSUME PeersInv PROVE PeersAreKept
  OBVIOUS
<1>1. Shape /\ LinkStands /\ OneSource /\ Counted /\ NoneLeft /\ LeavingAreHeld
  BY DEF PeersInv
<1>2. DescribedTypeOK
  <2>1. /\ named \in [Names -> [peer : 0 .. MaxPeers, edit : 0 .. MaxEdits]]
        /\ leaving \subseteq [name : Names, peer : Peers]
        /\ tried \in [Names -> 0 .. MaxLinks]
        /\ links \in 0 .. MaxLinks
        /\ holds \subseteq [name : Names, peer : Peers, stamp : 1 .. MaxLinks, serving : BOOLEAN,
                            id : 1 .. MaxOpens]
    BY <1>1 DEF Shape, Naming, Entries, Held
  <2>2. ASSUME NEW p \in Peers PROVE peer[p].link \in 0 .. links
    BY <2>1, <1>1, DescribedAssumption DEF Shape, PeerRecord, OneSource, SourceIs
  <2> QED BY <1>1, <2>1, <2>2 DEF DescribedTypeOK, LinkStands
<1>3. HoldsAreCounted
  <2> SUFFICES ASSUME ~crossed
               PROVE  /\ \A p \in Kept, g \in 1 .. MaxLinks :
                           peer[p].opened[g] = Cardinality({o \in holds : o.peer = p /\ o.stamp = g})
                      /\ \A o \in holds : o.peer \in Kept \cup dropped
    BY DEF HoldsAreCounted
  <2>1. \A p \in Kept, g \in 1 .. MaxLinks : peer[p].opened[g] = Cardinality(Of(holds, p, g))
    BY <1>1, KeptIs DEF Counted
  <2>2. \A o \in holds : o.peer \in Kept \cup dropped
    BY <1>1, KeptIs DEF Counted, Shape, Held
  <2> QED BY <2>1, <2>2 DEF Of
<1>4. NoLinkLeft
  BY <1>1, KeptIs DEF NoLinkLeft, NoneLeft
<1> QED BY <1>1, <1>2, <1>3, <1>4 DEF PeersAreKept

LEMMA PeersStart == DescribedInit => PeersInv
<1> SUFFICES ASSUME DescribedInit PROVE PeersInv
  OBVIOUS
<1>1. lister = Idle /\ named = Idle.named /\ leaving = {} /\ holds = {} /\ links = 0 /\ edits = 1
      /\ peer = [p \in Peers |-> Unmade] /\ tried = [n \in Names |-> 0]
      /\ disk = [n \in Names |-> [says |-> "peer", edit |-> 1]]
  BY DEF DescribedInit
<1>2. crossed = FALSE
  BY DEF DescribedInit
<1>3. /\ Idle \in ListerRecord(Candidates) /\ Idle.pc = "idle" /\ Idle.named \in Naming
      /\ Idle.leaving = {} /\ Idle.made = 0
      /\ \A n \in Names : Idle.named[n] = [peer |-> 0, edit |-> 0]
  BY DescribedAssumption DEF Idle, ListerRecord, Naming
<1>4. /\ Unmade \in PeerRecord /\ Unmade.link = 0 /\ ~Unmade.up /\ ~Unmade.lists
      /\ \A g \in 1 .. MaxLinks : Unmade.opened[g] = 0
  BY DescribedAssumption DEF Unmade, PeerRecord
<1>5. \A p \in Peers : peer[p] = Unmade
  BY <1>1
<1>6. Shape
  <2>1. disk \in [Names -> [says : {"peer", "bad", "none"}, edit : 1 .. MaxEdits]] /\ edits \in 1 .. MaxEdits
    BY <1>1, DescribedAssumption
  <2>2. peer \in [Peers -> PeerRecord]
    BY <1>1, <1>4
  <2>3. crossed \in BOOLEAN
    BY <1>2
  <2>4. links \in 0 .. MaxLinks /\ tried \in [Names -> 0 .. MaxLinks]
    BY <1>1, DescribedAssumption
  <2>5. holds \in SUBSET Held /\ OwnIds(holds) /\ leaving \in SUBSET Entries
    BY <1>1 DEF OwnIds
  <2> QED BY <1>1, <1>3, <2>1, <2>2, <2>3, <2>4, <2>5 DEF Shape
<1>7. Young
  BY <1>1, <1>3, <1>4, <1>5 DEF Young
<1>8. Stamped
  BY <1>1, <1>3 DEF Stamped
<1>9. OneName
  <2>1. OwnerIs([p \in Peers |-> 0])
    BY <1>1, <1>3 DEF OwnerIs
  <2> QED BY <2>1 DEF OneName
<1>10. OneSource
  <2>1. SourceIs([g \in 1 .. MaxLinks |-> 0])
    BY <1>1, <1>4, <1>5 DEF SourceIs
  <2> QED BY <2>1, DescribedAssumption DEF OneSource
<1>11. LinkStands /\ NoneLeft
  BY <1>4, <1>5 DEF LinkStands, NoneLeft
<1>12. Underway
  BY <1>1, <1>3 DEF Underway
<1>13. Counted
  <2>1. ASSUME NEW p \in Peers PROVE ~IsKept(p)
    BY <1>1, <1>3, DescribedAssumption DEF IsKept, Peers
  <2> QED BY <1>1, <2>1 DEF Counted
<1>14. LeavingAreHeld
  BY <1>1 DEF LeavingAreHeld
<1> QED BY <1>6, <1>7, <1>8, <1>9, <1>10, <1>11, <1>12, <1>13, <1>14 DEF PeersInv

-----------------------------------------------------------------------------
\* Peer::disconnect ends links and changes nothing else.
LEMMA DisconnectedIs ==
  ASSUME NEW P, NEW all \in [Peers -> PeerRecord]
  PROVE  /\ Disconnected(P, all) \in [Peers -> PeerRecord]
         /\ \A p \in Peers : /\ Disconnected(P, all)[p].opened = all[p].opened
                             /\ p \notin P => Disconnected(P, all)[p] = all[p]
                             /\ p \in P => /\ ~Disconnected(P, all)[p].up
                                           /\ ~Disconnected(P, all)[p].lists
                                           /\ Disconnected(P, all)[p].link = 0
<1> DEFINE off(p) == [all[p] EXCEPT !.up = FALSE, !.link = 0, !.lists = FALSE]
           D == Disconnected(P, all)
<1>1. ASSUME NEW p \in Peers
      PROVE  off(p) \in PeerRecord /\ off(p).opened = all[p].opened
             /\ ~off(p).up /\ ~off(p).lists /\ off(p).link = 0
  <2>1. all[p] \in PeerRecord
    OBVIOUS
  <2>2. off(p).opened = all[p].opened /\ off(p).link = 0
    BY <2>1 DEF PeerRecord
  <2>3. off(p).up = FALSE /\ off(p).lists = FALSE
    BY <2>1 DEF PeerRecord
  <2>4. 0 \in 0 .. MaxLinks
    BY DescribedAssumption
  <2>5. off(p) \in PeerRecord
    BY <2>1, <2>4 DEF PeerRecord
  <2> QED BY <2>2, <2>3, <2>5
<1>2. D = [p \in Peers |-> IF p \in P THEN off(p) ELSE all[p]]
  BY DEF Disconnected
<1> HIDE DEF off, D
<1>3. D \in [Peers -> PeerRecord]
  BY <1>1, <1>2
<1>4. \A p \in Peers : /\ D[p].opened = all[p].opened
                       /\ p \notin P => D[p] = all[p]
                       /\ p \in P => ~D[p].up /\ ~D[p].lists /\ D[p].link = 0
  BY <1>1, <1>2
<1> QED BY <1>3, <1>4 DEF D

\* A step that takes links away, and nothing else.
Lowers ==
  /\ peer' \in [Peers -> PeerRecord]
  /\ \A p \in Peers : /\ peer'[p].opened = peer[p].opened
                      /\ \/ peer'[p].link = 0 /\ ~peer'[p].up /\ ~peer'[p].lists
                         \/ /\ peer'[p].link = peer[p].link
                            /\ peer'[p].up => peer[p].up
                            /\ peer'[p].lists => peer[p].lists

LEMMA LoweringKeeps ==
  ASSUME PeersInv, Lowers,
         UNCHANGED <<disk, edits, named, leaving, links, lister, tried, holds, dropped, crossed>>
  PROVE  PeersInv'
<1> USE DEF PeersInv, Lowers
<1>1. Shape'
  BY DEF Shape
<1>2. Young'
  BY DEF Young
<1>3. Stamped'
  BY DEF Stamped
<1>4. OneName'
  BY DEF OneName, OwnerIs
<1>5. OneSource'
  <2>1. PICK s \in [1 .. MaxLinks -> 0 .. MaxPeers] : SourceIs(s)
    BY DEF OneSource
  <2>2. \A p \in Peers : peer'[p].link <= links /\ (peer'[p].link # 0 => s[peer'[p].link] = p)
    <3>1. links \in Nat
      BY DescribedAssumption DEF Shape
    <3> QED BY <2>1, <3>1 DEF SourceIs
  <2>3. SourceIs(s)'
    BY <2>1, <2>2 DEF SourceIs
  <2> QED BY <2>3 DEF OneSource
<1>6. LinkStands'
  BY DEF LinkStands
<1>7. Underway'
  <2>1. ASSUME NEW p \in Peers, Fate(p) PROVE Fate(p)'
    BY <2>1 DEF Fate
  <2>2. ASSUME NEW n \in Names, lister.pc = "listing", named[n].peer # 0 PROVE Fate(named[n].peer)'
    BY DescribedAssumption, <2>2, <2>1 DEF Shape, Naming, Peers, Underway
  <2> QED BY <2>2 DEF Underway
<1>8. Counted'
  BY DEF Counted, IsKept
<1>9. LeavingAreHeld'
  BY DEF LeavingAreHeld, HoldsAny, Shape, Entries
<1>10. NoneLeft'
  BY DEF NoneLeft, IsKept
<1> QED BY <1>1, <1>2, <1>3, <1>4, <1>5, <1>6, <1>7, <1>8, <1>9, <1>10

\* A step of nothing the invariant is about.
LEMMA IdlingKeeps ==
  ASSUME PeersInv,
         UNCHANGED <<disk, edits, named, leaving, peer, links, lister, tried, holds, dropped, crossed>>
  PROVE  PeersInv'
<1>1. Lowers
  BY DEF Lowers, PeersInv, Shape
<1> QED BY <1>1, LoweringKeeps

LEMMA LinkDiesKeeps ==
  ASSUME PeersInv, NEW p \in Peers, LinkDies(p)
  PROVE  PeersInv'
<1>1. peer \in [Peers -> PeerRecord]
  BY DEF PeersInv, Shape
<1>2. /\ peer' = [peer EXCEPT ![p] = [peer[p] EXCEPT !.up = FALSE]]
      /\ UNCHANGED <<disk, edits, named, leaving, links, lister, tried, holds, dropped, crossed>>
  BY DEF LinkDies
<1>3. ASSUME NEW r \in PeerRecord
      PROVE  /\ [r EXCEPT !.up = FALSE] \in PeerRecord /\ [r EXCEPT !.up = FALSE].opened = r.opened
             /\ [r EXCEPT !.up = FALSE].link = r.link /\ [r EXCEPT !.up = FALSE].lists = r.lists
             /\ [r EXCEPT !.up = FALSE].up = FALSE
  BY DEF PeerRecord
<1>4. \A q \in Peers : peer'[q] = IF q = p THEN [peer[p] EXCEPT !.up = FALSE] ELSE peer[q]
  BY <1>1, <1>2
<1>5. Lowers
  <2> SUFFICES ASSUME NEW q \in Peers
               PROVE  /\ peer'[q].opened = peer[q].opened
                      /\ peer'[q].link = peer[q].link
                      /\ peer'[q].up => peer[q].up
                      /\ peer'[q].lists => peer[q].lists
    BY <1>1, <1>2, <1>3 DEF Lowers
  <2>1. CASE q = p
    BY <1>3, <1>1, <2>1, <1>4
  <2>2. CASE q # p
    BY <1>4, <2>2
  <2> QED BY <2>1, <2>2
<1> QED BY <1>2, <1>5, LoweringKeeps

LEMMA DisconnectsOneKeeps ==
  ASSUME PeersInv, NEW p \in Peers, DisconnectsOne(p)
  PROVE  PeersInv'
<1>1. /\ peer' = Disconnected({p}, peer)
      /\ UNCHANGED <<disk, edits, named, leaving, links, lister, tried, holds, dropped, crossed>>
  BY DEF DisconnectsOne
<1>2. Lowers
  BY <1>1, DisconnectedIs DEF Lowers, PeersInv, Shape
<1> QED BY <1>1, <1>2, LoweringKeeps

\* A manifest that changes says what no peer was made of.
LEMMA RewriteKeeps ==
  ASSUME PeersInv, NEW n \in Names, NEW says \in {"peer", "bad", "none"}, Rewrite(n, says)
  PROVE  PeersInv'
<1> USE DEF PeersInv
<1>1. /\ edits < MaxEdits /\ edits' = edits + 1
      /\ disk' = [disk EXCEPT ![n] = [says |-> says, edit |-> edits + 1]]
      /\ UNCHANGED <<named, leaving, peer, links, lister, tried, holds, dropped, crossed>>
  BY DEF Rewrite
<1>2. edits \in 1 .. MaxEdits /\ edits' \in 1 .. MaxEdits
  BY <1>1, DescribedAssumption DEF Shape
<1>3. /\ disk' \in [Names -> [says : {"peer", "bad", "none"}, edit : 1 .. MaxEdits]]
      /\ \A m \in Names : disk'[m].edit = (IF m = n THEN edits + 1 ELSE disk[m].edit)
                          /\ (m # n => disk'[m] = disk[m])
  BY <1>1, <1>2 DEF Shape
<1>4. Shape'
  BY <1>1, <1>2, <1>3 DEF Shape
<1>5. \A m \in Names : named[m].edit \in Nat /\ lister.named[m].edit \in Nat /\ disk[m].edit \in Nat
  BY ListerIs, DescribedAssumption DEF Shape, Naming
<1>6. Young'
  BY <1>1, <1>2, <1>3, <1>5 DEF Young
<1>7. Stamped'
  <2>1. ASSUME NEW m \in Names, NEW x \in {named[m], lister.named[m]},
               x.peer # 0, x.edit = disk'[m].edit
        PROVE  disk'[m].says = "peer"
    BY <1>3, <2>1, <1>2, <1>5 DEF Stamped, Young
  <2> QED BY <1>1, <2>1 DEF Stamped
<1>8. OneName' /\ OneSource' /\ LinkStands'
  <2>1. OneName'
    BY <1>1 DEF OneName, OwnerIs
  <2>2. OneSource'
    BY <1>1 DEF OneSource, SourceIs
  <2>3. LinkStands'
    BY <1>1 DEF LinkStands
  <2> QED BY <2>1, <2>2, <2>3
<1>9. Underway' /\ Counted' /\ LeavingAreHeld' /\ NoneLeft'
  BY <1>1 DEF Underway, Fate, Counted, IsKept, LeavingAreHeld, HoldsAny, NoneLeft
<1> QED BY <1>4, <1>6, <1>7, <1>8, <1>9

\* One peer of the listing is listed, over a link it has or a new one.
ListsOne(p) ==
  /\ peer' \in [Peers -> PeerRecord]
  /\ \A q \in Peers : peer'[q].opened = peer[q].opened /\ (q # p => peer'[q] = peer[q])
  /\ \/ /\ links' = links /\ peer'[p].link = peer[p].link
        /\ peer'[p].lists \/ peer'[p].up => peer'[p].link # 0
     \/ links < MaxLinks /\ links' = links + 1 /\ peer'[p].link = links + 1
  /\ lister' \in ListerRecord(Peers) /\ lister'.todo \subseteq lister.todo
  /\ lister'.pc = lister.pc /\ lister'.made = lister.made
  /\ lister'.named = lister.named /\ lister'.leaving = lister.leaving

LEMMA ListingKeeps ==
  ASSUME PeersInv, lister.pc = "listing", NEW p \in Peers, p \in lister.todo, ListsOne(p),
         UNCHANGED <<disk, edits, named, leaving, tried, holds, dropped, crossed>>
  PROVE  PeersInv'
<1> USE DEF PeersInv
<1>1. /\ peer' \in [Peers -> PeerRecord]
      /\ \A q \in Peers : peer'[q].opened = peer[q].opened /\ (q # p => peer'[q] = peer[q])
  BY DEF ListsOne
<1>2. /\ lister' \in ListerRecord(Peers) /\ lister'.todo \subseteq lister.todo
      /\ lister'.pc = "listing" /\ lister'.made = lister.made
      /\ lister'.named = lister.named /\ lister'.leaving = lister.leaving
  BY DEF ListsOne
<1>3. PICK m \in Names : lister.named[m].peer = p
  BY DEF Underway
<1>4. links \in 0 .. MaxLinks /\ links' \in 0 .. MaxLinks /\ links \in Nat /\ links <= links'
  BY DescribedAssumption DEF Shape, ListsOne
<1>5. Shape'
  BY <1>1, <1>2, <1>4 DEF Shape
<1>6. Young'
  BY <1>1, <1>2 DEF Young
<1>7. Stamped'
  BY <1>2 DEF Stamped
<1>8. OneName'
  BY <1>2 DEF OneName, OwnerIs
<1>9. OneSource'
  <2>1. PICK s \in [1 .. MaxLinks -> 0 .. MaxPeers] : SourceIs(s)
    BY DEF OneSource
  <2>2. CASE links' = links /\ peer'[p].link = peer[p].link
    <3>1. SourceIs(s)'
      BY <1>1, <2>1, <2>2 DEF SourceIs
    <3> QED BY <3>1 DEF OneSource
  <2>3. CASE links < MaxLinks /\ links' = links + 1 /\ peer'[p].link = links + 1
    <3>1. p \in 0 .. MaxPeers
      BY DescribedAssumption DEF Peers
    <3>2. links + 1 \in 1 .. MaxLinks
      BY <1>4, <2>3, DescribedAssumption
    <3>3. PICK t \in [1 .. MaxLinks -> 0 .. MaxPeers] :
            t[links + 1] = p /\ \A g \in 1 .. MaxLinks : g <= links => t[g] = s[g]
      <4>1. \A g \in 1 .. MaxLinks : g <= links => g # links + 1
        BY <1>4
      <4>2. [s EXCEPT ![links + 1] = p] \in [1 .. MaxLinks -> 0 .. MaxPeers]
        BY <3>1
      <4> QED BY <3>2, <4>1, <4>2
    <3>4. ASSUME NEW q \in Peers
          PROVE  peer'[q].link <= links' /\ (peer'[q].link # 0 => t[peer'[q].link] = q)
      <4>1. CASE q = p
        BY <1>4, <2>3, <3>3, <4>1
      <4>2. CASE q # p
        BY <1>4, <3>3, <1>1, <2>1, <4>2, DescribedAssumption DEF SourceIs, Shape, PeerRecord
      <4> QED BY <4>1, <4>2
    <3>5. ASSUME NEW q \in Peers, NEW g \in 1 .. MaxLinks, peer'[q].opened[g] > 0
          PROVE  g <= links' /\ t[g] = q
      <4>1. g <= links /\ s[g] = q
        BY <2>1, <1>1, <3>5 DEF SourceIs
      <4>2. t[g] = q
        BY <3>3, <4>1
      <4>3. g <= links'
        BY <1>4, <2>3, <4>1, DescribedAssumption
      <4> QED BY <4>2, <4>3
    <3>6. ~crossed => \A o \in holds : o.stamp <= links' /\ t[o.stamp] = o.peer
      <4>1. \A o \in holds : o.stamp \in 1 .. MaxLinks
        BY DEF Shape, Held
      <4> QED BY <1>4, <2>1, <3>3, <4>1, DescribedAssumption DEF SourceIs
    <3>7. SourceIs(t)'
      BY <3>4, <3>5, <3>6 DEF SourceIs
    <3> QED BY <3>7 DEF OneSource
  <2> QED BY <2>2, <2>3 DEF ListsOne
<1>10. LinkStands'
  BY <1>1, <1>4 DEF LinkStands, ListsOne
<1>11. Underway'
  <2>1. ASSUME NEW q \in Peers, Fate(q) PROVE Fate(q)'
    BY <1>1, <1>2, <1>3, <2>1 DEF Fate
  <2>2. ASSUME NEW n \in Names, named[n].peer # 0 PROVE Fate(named[n].peer)'
    BY DescribedAssumption, <2>2, <2>1 DEF Shape, Naming, Peers, Underway
  <2>3. \A q \in lister.todo : \E n \in Names : lister.named[n].peer = q
    BY DEF Underway
  <2> QED BY <1>2, <2>2, <2>3 DEF Underway
<1>12. Counted'
  BY <1>1, <1>2 DEF Counted, IsKept
<1>13. LeavingAreHeld'
  BY <1>1 DEF LeavingAreHeld, HoldsAny, Shape, Entries
<1>14. NoneLeft'
  BY <1>1, <1>2, <1>3 DEF NoneLeft, IsKept
<1> QED BY <1>5, <1>6, <1>7, <1>8, <1>9, <1>10, <1>11, <1>12, <1>13, <1>14

\* What a listing that goes on is made of.
LEMMA ListerGoesOn ==
  ASSUME PeersInv, lister.pc = "listing", NEW p, NEW F \in SUBSET Peers,
         lister' = [lister EXCEPT !.todo = @ \ {p}, !.failed = F]
  PROVE  /\ lister' \in ListerRecord(Peers) /\ lister'.todo \subseteq lister.todo
         /\ lister'.pc = lister.pc /\ lister'.made = lister.made
         /\ lister'.named = lister.named /\ lister'.leaving = lister.leaving
<1>1. lister \in ListerRecord(Peers)
  BY DEF PeersInv, Shape
<1> QED BY <1>1 DEF ListerRecord

LEMMA PeerListsKeeps ==
  ASSUME PeersInv, NEW p \in Peers, NEW yes \in BOOLEAN, PeerLists(p, yes)
  PROVE  PeersInv'
<1> DEFINE g == IF peer[p].up THEN peer[p].link ELSE links + 1
           L == IF yes THEN {g} ELSE {}
           r == [peer[p] EXCEPT !.up = TRUE, !.link = g, !.lists = yes, !.ever = TRUE, !.listed = L]
<1>1. /\ lister.pc = "listing" /\ p \in lister.todo /\ (peer[p].up \/ links < MaxLinks)
      /\ lister' = [lister EXCEPT !.todo = @ \ {p}]
      /\ UNCHANGED <<disk, edits, named, leaving, tried, holds, dropped, crossed>>
  BY DEF PeerLists
<1>2. /\ peer' = [peer EXCEPT ![p] = r]
      /\ links' = IF peer[p].up THEN links ELSE links + 1
  BY DEF PeerLists, NewLink
<1>3. peer \in [Peers -> PeerRecord] /\ peer[p] \in PeerRecord /\ links \in 0 .. MaxLinks
  BY DEF PeersInv, Shape
<1>4. g \in 1 .. MaxLinks
  BY <1>1, <1>3, DescribedAssumption DEF PeerRecord, PeersInv, LinkStands
<1>5. L \in SUBSET (1 .. MaxLinks) /\ g \in 0 .. MaxLinks /\ g # 0
  BY <1>4, DescribedAssumption
<1> HIDE DEF L
<1>6. peer[p].up => g = peer[p].link
  OBVIOUS
<1>7. ~peer[p].up => g = links + 1
  OBVIOUS
<1> HIDE DEF g
<1>8. r \in PeerRecord /\ r.opened = peer[p].opened /\ r.link = g
  BY <1>3, <1>5 DEF PeerRecord
<1> HIDE DEF r
<1>9. /\ peer' \in [Peers -> PeerRecord] /\ peer'[p] = r
      /\ \A q \in Peers : q # p => peer'[q] = peer[q]
  BY <1>2, <1>3, <1>8
<1>10. lister.failed \in SUBSET Peers
  BY ListerIs DEF PeersInv
<1>11. ListsOne(p)
  BY <1>1, <1>9, <1>8, <1>2, <1>5, <1>6, <1>7, <1>10, ListerIs, ListerGoesOn
    DEF ListsOne, ListerRecord, PeersInv
<1> QED BY <1>1, <1>11, ListingKeeps

LEMMA PeerFailsKeeps ==
  ASSUME PeersInv, NEW p \in Peers, NEW yes \in BOOLEAN, PeerFails(p, yes)
  PROVE  PeersInv'
<1> DEFINE r == [peer[p] EXCEPT !.up = TRUE, !.link = links + 1, !.lists = FALSE]
<1>1. /\ lister.pc = "listing" /\ p \in lister.todo
      /\ yes => links < MaxLinks
      /\ UNCHANGED <<disk, edits, named, leaving, tried, holds, dropped, crossed>>
  BY DEF PeerFails
<1>2. lister.failed \cup {p} \in SUBSET Peers
  BY ListerIs DEF PeersInv
<1>3. /\ lister' \in ListerRecord(Peers) /\ lister'.todo \subseteq lister.todo
      /\ lister'.pc = lister.pc /\ lister'.made = lister.made
      /\ lister'.named = lister.named /\ lister'.leaving = lister.leaving
  BY <1>1, <1>2, ListerGoesOn DEF PeerFails
<1>4. peer \in [Peers -> PeerRecord] /\ peer[p] \in PeerRecord /\ links \in 0 .. MaxLinks
  BY DEF PeersInv, Shape
<1>5. CASE yes
  <2>1. peer' = [peer EXCEPT ![p] = r] /\ links' = links + 1
    BY <1>5 DEF PeerFails, NewLink
  <2>2. links + 1 \in 0 .. MaxLinks
    BY <1>1, <1>4, <1>5, DescribedAssumption
  <2>3. r \in PeerRecord /\ r.opened = peer[p].opened /\ r.link = links + 1
    BY <1>4, <2>2 DEF PeerRecord
  <2> HIDE DEF r
  <2>4. ListsOne(p)
    BY <1>1, <1>3, <1>5, <2>1, <2>3, <1>4 DEF ListsOne
  <2> QED BY <1>1, <2>4, ListingKeeps
<1>6. CASE ~yes
  <2>1. ListsOne(p)
    BY <1>3, <1>4, <1>6, DescribedAssumption DEF ListsOne, PeersInv, LinkStands, PeerFails
  <2> QED BY <1>1, <2>1, ListingKeeps
<1> QED BY <1>5, <1>6

-----------------------------------------------------------------------------
\* Between two listings, the registry opens and the source forgets.
LEMMA RegistryTurnKeeps ==
  ASSUME PeersInv, lister.pc # "listing", lister' \in ListerRecord(Candidates),
         lister'.pc # "listing", lister'.made = lister.made, lister'.named = lister.named,
         lister'.leaving = lister.leaving, tried' \in [Names -> 0 .. MaxLinks],
         UNCHANGED <<disk, edits, named, leaving, peer, links, holds, dropped, crossed>>
  PROVE  PeersInv'
<1> USE DEF PeersInv
<1>1. Shape'
  BY DEF Shape
<1>2. Young' /\ Stamped'
  BY DEF Young, Stamped
<1>3. OneName'
  BY DEF OneName, OwnerIs
<1>4. OneSource'
  <2>1. PICK s \in [1 .. MaxLinks -> 0 .. MaxPeers] : SourceIs(s)
    BY DEF OneSource
  <2>2. SourceIs(s)'
    BY <2>1 DEF SourceIs
  <2> QED BY <2>2 DEF OneSource
<1>5. LinkStands'
  BY DEF LinkStands
<1>6. Underway'
  BY DEF Underway
<1>7. Counted' /\ NoneLeft'
  BY DEF Counted, IsKept, NoneLeft
<1>8. LeavingAreHeld'
  BY DEF LeavingAreHeld, HoldsAny
<1> QED BY <1>1, <1>2, <1>3, <1>4, <1>5, <1>6, <1>7, <1>8

LEMMA RefreshEndsKeeps ==
  ASSUME PeersInv, RefreshEnds
  PROVE  PeersInv'
<1>1. /\ lister.pc = "opening" /\ lister' = [lister EXCEPT !.pc = "idle"]
      /\ UNCHANGED <<disk, edits, named, leaving, peer, links, tried, holds, dropped, crossed>>
  BY DEF RefreshEnds
<1>2. lister \in ListerRecord(Candidates) /\ tried \in [Names -> 0 .. MaxLinks]
  BY <1>1, ListerIs DEF PeersInv, Shape
<1>3. /\ lister' \in ListerRecord(Candidates) /\ lister'.pc = "idle" /\ lister'.made = lister.made
      /\ lister'.named = lister.named /\ lister'.leaving = lister.leaving
  BY <1>1, <1>2 DEF ListerRecord
<1> QED BY <1>1, <1>2, <1>3, RegistryTurnKeeps

\* Numbers for the peers to be made, each its own.
LEMMA NumbersAre ==
  ASSUME NEW T \in SUBSET Names
  PROVE  /\ Cardinality(T) \in Nat
         /\ \E f \in [T -> 1 .. Cardinality(T)] : \A x, y \in T : x # y => f[x] # f[y]
<1>1. IsFiniteSet(T)
  BY DescribedAssumption, FS_Subset
<1>2. Cardinality(T) \in Nat /\ ExistsBijection(1 .. Cardinality(T), T)
  BY <1>1, FS_CardinalityType
<1>3. ExistsBijection(T, 1 .. Cardinality(T))
  BY <1>2, Fun_ExistsBijSymmetric
<1>4. PICK f \in [T -> 1 .. Cardinality(T)] : IsInjective(f)
  BY <1>3 DEF ExistsBijection, Bijection, Injection
<1>5. \A x, y \in T : x # y => f[x] # f[y]
  BY <1>4 DEF IsInjective
<1> QED BY <1>2, <1>5

LEMMA ListBeginKeeps ==
  ASSUME PeersInv, ListBegin
  PROVE  PeersInv'
<1> DEFINE fresh == {n \in Names : disk[n].says = "peer" /\ named[n].edit # disk[n].edit}
           count == Cardinality(fresh)
           number == CHOOSE f \in [fresh -> 1 .. count] : \A x, y \in fresh : x # y => f[x] # f[y]
           made == lister.made + count
           now == [n \in Names |->
                     IF disk[n].says # "peer" THEN [peer |-> 0, edit |-> 0]
                     ELSE IF n \in fresh THEN [peer |-> lister.made + number[n], edit |-> disk[n].edit]
                     ELSE named[n]]
           goes == {[name |-> n, peer |-> named[n].peer] : n \in Replaced}
           ends == {named[n].peer : n \in {x \in Names : disk[x].says = "none"}} \ {0}
           asked == {now[n].peer : n \in Names} \ {0}
<1>1. /\ lister.pc = "idle" /\ made <= MaxPeers
      /\ lister' = [pc |-> "listing", named |-> now, made |-> made, failed |-> {},
                    leaving |-> leaving \cup goes, todo |-> asked]
      /\ peer' = Disconnected(Dropped, peer)
      /\ dropped' = dropped \cup ends
      /\ UNCHANGED <<disk, edits, named, leaving, links, tried, holds, crossed>>
  BY DEF ListBegin
<1>2. /\ count \in Nat
      /\ number \in [fresh -> 1 .. count] /\ \A x, y \in fresh : x # y => number[x] # number[y]
  <2>1. fresh \in SUBSET Names
    OBVIOUS
  <2> HIDE DEF fresh
  <2> QED BY <2>1, NumbersAre
<1>3. Dropped = ends
  BY DEF Dropped
<1>4. /\ Shape /\ Young /\ Stamped /\ OneName /\ OneSource /\ LinkStands /\ Underway
      /\ Counted /\ LeavingAreHeld /\ NoneLeft
  BY DEF PeersInv
<1>5. /\ \A n \in Names : lister.named[n].peer = 0
      /\ lister.leaving = {} /\ lister.made \in 0 .. MaxPeers /\ lister.made \in Nat
  <2>1. lister.pc # "listing"
    BY <1>1
  <2> QED BY <1>4, <2>1, ListerIs, DescribedAssumption DEF Underway
<1>6. \A n \in Names : /\ named[n] \in [peer : 0 .. MaxPeers, edit : 0 .. MaxEdits]
                       /\ named[n].peer \in 0 .. MaxPeers /\ named[n].peer <= lister.made
                       /\ named[n].edit \in 0 .. MaxEdits /\ named[n].edit <= edits
                       /\ disk[n].edit \in 1 .. MaxEdits /\ disk[n].edit <= edits
                       /\ disk[n].says \in {"peer", "bad", "none"}
                       /\ named[n].peer # 0 => named[n].peer \in Peers
  BY <1>4, DescribedAssumption DEF Shape, Naming, Young, Peers
<1>7. \A n \in Names :
        /\ disk[n].says # "peer" => now[n].peer = 0 /\ now[n].edit = 0
        /\ n \in fresh => /\ now[n].peer = lister.made + number[n] /\ now[n].edit = disk[n].edit
                          /\ disk[n].says = "peer" /\ named[n].edit # disk[n].edit
        /\ disk[n].says = "peer" /\ n \notin fresh =>
             now[n] = named[n] /\ named[n].edit = disk[n].edit
        /\ now[n] \in {[peer |-> 0, edit |-> 0], named[n],
                       [peer |-> lister.made + number[n], edit |-> disk[n].edit]}
        /\ n \in fresh \/ now[n] \in {[peer |-> 0, edit |-> 0], named[n]}
  <2> HIDE DEF number
  <2> QED OBVIOUS
<1>8. \A n \in fresh : n \in Names /\ number[n] \in 1 .. count /\ number[n] \in Nat /\ number[n] >= 1
                       /\ lister.made + number[n] \in Peers /\ lister.made + number[n] <= made
                       /\ lister.made + number[n] > lister.made
  <2>1. \A n \in fresh : n \in Names /\ number[n] \in 1 .. count
    BY <1>2
  <2> HIDE DEF fresh, number, count
  <2> QED BY <1>1, <1>2, <1>5, <2>1, DescribedAssumption DEF Peers
<1>9. now = [n \in Names |-> now[n]]
  OBVIOUS
<1>10. made \in 0 .. MaxPeers /\ made \in Nat /\ lister.made <= made
  <2>1. made = lister.made + count /\ made <= MaxPeers
    BY <1>1
  <2>2. count \in Nat /\ lister.made \in Nat /\ MaxPeers \in Nat
    BY <1>2, <1>5, DescribedAssumption
  <2> HIDE DEF count, made
  <2> QED BY <2>1, <2>2
<1> HIDE DEF number, made, now, count
<1>11. \A n \in Names : now[n] \in [peer : 0 .. MaxPeers, edit : 0 .. MaxEdits]
  <2>1. [peer |-> 0, edit |-> 0] \in [peer : 0 .. MaxPeers, edit : 0 .. MaxEdits]
    BY DescribedAssumption
  <2>2. \A n \in fresh : [peer |-> lister.made + number[n], edit |-> disk[n].edit]
                           \in [peer : 0 .. MaxPeers, edit : 0 .. MaxEdits]
    <3>1. \A n \in fresh : lister.made + number[n] \in 0 .. MaxPeers /\ disk[n].edit \in 0 .. MaxEdits
      <4> HIDE DEF fresh
      <4> QED BY <1>6, <1>8, DescribedAssumption DEF Peers
    <3> QED BY <3>1
  <2> HIDE DEF fresh
  <2>3. TAKE n \in Names
  <2>4. CASE n \in fresh
    BY <1>6, <2>1, <2>2, <2>4, <1>7
  <2>5. CASE n \notin fresh
    BY <1>6, <2>1, <1>7, <2>5
  <2> QED BY <2>4, <2>5
<1>12. now \in Naming
  BY <1>9, <1>11 DEF Naming
<1>13. \A n \in Names : /\ now[n].peer \in 0 .. MaxPeers /\ now[n].edit \in 0 .. MaxEdits
                        /\ now[n].peer \in Nat /\ now[n].peer <= made /\ now[n].edit <= edits
                        /\ now[n].peer # 0 => now[n].peer \in Peers
  <2>1. TAKE n \in Names
  <2>2. now[n].peer \in 0 .. MaxPeers /\ now[n].edit \in 0 .. MaxEdits
    BY <1>11
  <2>3. now[n].peer \in Nat /\ (now[n].peer # 0 => now[n].peer \in Peers) /\ edits \in Nat
    BY <1>4, <2>2, DescribedAssumption DEF Peers, Shape
  <2>4. CASE n \in fresh
    <3> HIDE DEF fresh
    <3> QED BY <1>6, <1>7, <1>8, <2>2, <2>3, <2>4
  <2>5. CASE n \notin fresh /\ disk[n].says = "peer"
    <3> HIDE DEF fresh
    <3> QED BY <1>5, <1>6, <1>7, <1>10, <2>2, <2>3, <2>5
  <2>6. CASE disk[n].says # "peer"
    <3> HIDE DEF fresh
    <3> QED BY <1>7, <1>10, <2>2, <2>3, <2>6
  <2> QED BY <2>4, <2>5, <2>6
<1>14. \A n \in Names : now[n].peer # 0 =>
         \/ n \in fresh /\ now[n].peer = lister.made + number[n]
         \/ n \notin fresh /\ now[n] = named[n] /\ disk[n].says = "peer" /\ now[n].peer <= lister.made
  <2> HIDE DEF fresh
  <2> QED BY <1>6, <1>7
<1>15. goes \in SUBSET Entries
       /\ \A e \in goes : e.name \in Names /\ e.peer = named[e.name].peer /\ e.peer # 0
  BY <1>6 DEF Entries, Replaced
<1>16. \A n \in Replaced : \E e \in goes : e.peer = named[n].peer
  <2>1. TAKE n \in Replaced
  <2>2. [name |-> n, peer |-> named[n].peer] \in goes
    OBVIOUS
  <2>3. [name |-> n, peer |-> named[n].peer].peer = named[n].peer
    OBVIOUS
  <2> HIDE DEF goes
  <2> QED BY <2>2, <2>3
<1> HIDE DEF goes
<1>17. asked \in SUBSET Peers /\ \A p \in asked : \E n \in Names : now[n].peer = p
  BY <1>13
<1> HIDE DEF asked
<1>18. /\ lister'.pc = "listing" /\ lister'.named = now /\ lister'.made = made
       /\ lister'.leaving = leaving \cup goes /\ lister'.todo = asked
       /\ lister' \in ListerRecord(Peers)
  BY <1>1, <1>10, <1>12, <1>17, <1>4, <1>15 DEF ListerRecord, Shape
<1>19. /\ peer' \in [Peers -> PeerRecord]
       /\ \A p \in Peers : /\ peer'[p].opened = peer[p].opened
                           /\ p \notin ends => peer'[p] = peer[p]
                           /\ p \in ends => ~peer'[p].up /\ ~peer'[p].lists /\ peer'[p].link = 0
  BY <1>1, <1>3, <1>4, DisconnectedIs DEF Shape
<1>20. \A n \in Names : disk[n].says = "none" /\ named[n].peer # 0 => named[n].peer \in ends
  OBVIOUS
<1>21. \A p \in ends : \E n \in Names : disk[n].says = "none" /\ named[n].peer = p /\ p # 0
  OBVIOUS
<1> HIDE DEF ends
<1> HIDE DEF fresh
<1>22. Shape'
  BY <1>1, <1>4, <1>18, <1>19 DEF Shape
<1>23. Young'
  <2>1. \A n \in Names : /\ named[n].peer <= made /\ named[n].edit <= edits
                         /\ now[n].peer <= made /\ now[n].edit <= edits
    BY <1>5, <1>6, <1>10, <1>13
  <2>2. \A e \in leaving \cup goes : e.peer <= made
    BY <1>5, <1>10, <1>4, <1>6, <1>15 DEF Young, Shape, Entries, Peers
  <2>3. \A o \in holds : o.peer <= made
    BY <1>5, <1>10, <1>4 DEF Young, Shape, Held, Peers
  <2>4. \A p \in Peers : p > made => \A g \in 1 .. MaxLinks : peer'[p].opened[g] = 0
    BY <1>4, <1>19, <1>5, <1>10 DEF Young, Peers
  <2>5. \A e \in leaving' \cup lister'.leaving : e \in leaving \cup goes
    BY <1>1, <1>18
  <2> QED BY <1>1, <1>6, <1>18, <2>1, <2>2, <2>3, <2>4, <2>5 DEF Young
<1>24. Stamped'
  BY <1>1, <1>4, <1>18, <1>7 DEF Stamped
<1>25. OneName'
  <2>1. PICK f \in [Peers -> Names \cup {0}] : OwnerIs(f)
    BY <1>4 DEF OneName
  <2>2. PICK t \in [Peers -> Names \cup {0}] :
          /\ \A n \in fresh : t[lister.made + number[n]] = n
          /\ \A p \in Peers : p <= lister.made => t[p] = f[p]
    <3> DEFINE of(p) == CHOOSE n \in fresh : p = lister.made + number[n]
               u == [p \in Peers |-> IF \E n \in fresh : p = lister.made + number[n] THEN of(p) ELSE f[p]]
    <3>1. ASSUME NEW p \in Peers, \E n \in fresh : p = lister.made + number[n]
          PROVE  of(p) \in fresh /\ p = lister.made + number[of(p)]
      BY <3>1
    <3>2. \A n, m \in fresh : lister.made + number[n] = lister.made + number[m] => n = m
      <4>1. TAKE n, m \in fresh
      <4> QED BY <1>5, <1>2, <1>8
    <3> HIDE DEF of
    <3>3. u \in [Peers -> Names \cup {0}]
      BY <1>8, <3>1
    <3>4. ASSUME NEW n \in fresh PROVE u[lister.made + number[n]] = n
      <4>1. PICK p \in Peers : p = lister.made + number[n]
        BY <1>8
      <4> QED BY <3>2, <4>1, <3>1
    <3>5. ASSUME NEW p \in Peers, p <= lister.made PROVE u[p] = f[p]
      BY <1>5, <1>8, <3>5 DEF Peers
    <3> HIDE DEF u
    <3> QED BY <3>3, <3>4, <3>5
  <2>3. \A n \in Names : named[n].peer # 0 => t[named[n].peer] = n
    BY <1>6, <2>1, <2>2 DEF OwnerIs
  <2>4. \A n \in Names : now[n].peer # 0 => t[now[n].peer] = n
    BY <1>14, <2>2, <2>3
  <2>5. OwnerIs(t)'
    BY <1>1, <1>18, <2>3, <2>4, <1>15, <2>2, <1>4, <2>1 DEF OwnerIs, Young, Shape, Entries, Held
  <2> QED BY <2>5 DEF OneName
<1>26. OneSource'
  <2>1. PICK s \in [1 .. MaxLinks -> 0 .. MaxPeers] : SourceIs(s)
    BY <1>4 DEF OneSource
  <2>2. links \in Nat
    BY <1>4, DescribedAssumption DEF Shape
  <2>3. SourceIs(s)'
    BY <1>1, <1>19, <2>1, <2>2 DEF SourceIs
  <2> QED BY <2>3 DEF OneSource
<1>27. LinkStands'
  BY <1>4, <1>19 DEF LinkStands
<1>28. Underway'
  <2>1. ASSUME NEW n \in Names, named[n].peer # 0, NEW p \in Peers, p = named[n].peer PROVE Fate(p)'
    <3>1. CASE disk[n].says # "none" /\ named[n].edit # disk[n].edit
      BY <1>16, <1>18, <2>1, <3>1 DEF Fate, Replaced
    <3>2. CASE disk[n].says # "none" /\ named[n].edit = disk[n].edit
      <4> QED BY <1>18, <1>7, <2>1, <1>4, <3>2 DEF Fate, Stamped, fresh
    <3>3. CASE disk[n].says = "none"
      <4>1. p \in ends
        BY <1>20, <2>1, <3>3
      <4>2. p \in dropped' /\ ~peer'[p].up
        BY <1>1, <1>19, <4>1
      <4>3. PICK f \in [Peers -> Names \cup {0}] : OwnerIs(f)
        BY <1>4 DEF OneName
      <4>4. ASSUME NEW m \in Names PROVE now[m].peer # p
        <5>1. SUFFICES ASSUME now[m].peer = p PROVE FALSE
          OBVIOUS
        <5>2. now[m].peer # 0
          BY <2>1, <5>1
        <5>3. CASE m \in fresh /\ now[m].peer = lister.made + number[m]
          BY <1>5, <5>1, <1>6, <2>1, <1>8, <5>3
        <5>4. CASE m \notin fresh /\ now[m] = named[m] /\ disk[m].says = "peer"
          BY <2>1, <3>3, <4>3, <5>1, <5>4 DEF OwnerIs
        <5> QED BY <1>14, <5>2, <5>3, <5>4
      <4> QED BY <1>18, <4>2, <4>4 DEF Fate
    <3> QED BY <3>1, <3>2, <3>3
  <2>2. \A n \in Names : named'[n].peer # 0 => Fate(named[n].peer)'
    <3>1. ASSUME NEW n \in Names, named[n].peer # 0 PROVE Fate(named[n].peer)'
      <4>1. PICK p \in Peers : p = named[n].peer /\ p = named'[n].peer
        BY <1>1, <1>6, <3>1
      <4> QED BY <4>1, <2>1, <3>1 DEF Fate
    <3> QED BY <1>1, <3>1
  <2> QED BY <1>1, <1>17, <1>18, <2>2 DEF Underway
<1>29. \A p \in Peers : IsKept(p) => IsKept(p)'
  <2>1. TAKE p \in Peers
  <2>2. p # 0
    BY DEF Peers
  <2>3. ASSUME IsKept(p)
        PROVE  (\E n \in Names : named[n].peer = p) \/ \E e \in leaving : e.peer = p
    BY <1>5, <2>2, <2>3 DEF IsKept
  <2> QED BY <1>1, <1>18, <2>3 DEF IsKept
<1>30. \A p \in Peers : IsKept(p)' => IsKept(p) \/ p > lister.made
  <2>1. TAKE p \in Peers
  <2>2. ASSUME NEW n \in Names, now[n].peer = p PROVE IsKept(p) \/ p > lister.made
    BY <1>8, <1>14, <2>2 DEF IsKept, Peers
  <2>3. \A e \in goes : e.peer = p => IsKept(p)
    BY <1>15 DEF IsKept
  <2> QED BY <1>1, <1>18, <2>2, <2>3 DEF IsKept
<1>31. Counted'
  <2> SUFFICES ASSUME ~crossed'
               PROVE  /\ \A p \in Peers : IsKept(p)' => \A g \in 1 .. MaxLinks :
                           peer'[p].opened[g] = Cardinality(Of(holds, p, g))
                      /\ \A o \in holds : IsKept(o.peer)' \/ o.peer \in dropped'
    BY <1>1 DEF Counted, Of
  <2>1. ~crossed
    BY <1>1
  <2>2. ASSUME NEW p \in Peers, p > lister.made, NEW g \in 1 .. MaxLinks
        PROVE  peer'[p].opened[g] = Cardinality(Of(holds, p, g))
    <3>1. Of(holds, p, g) = {}
      BY <1>5, <2>2, <1>4 DEF Of, Peers, Young, Shape, Held
    <3> QED BY <1>4, <1>19, <2>2, <3>1, FS_EmptySet DEF Young
  <2>3. \A p \in Peers : IsKept(p) => \A g \in 1 .. MaxLinks :
          peer'[p].opened[g] = Cardinality(Of(holds, p, g))
    BY <1>4, <1>19, <2>1 DEF Counted
  <2>4. \A o \in holds : o.peer \in Peers /\ (IsKept(o.peer) \/ o.peer \in dropped)
    BY <1>4, <2>1 DEF Counted, Shape, Held
  <2>5. \A o \in holds : IsKept(o.peer)' \/ o.peer \in dropped'
    <3>1. TAKE o \in holds
    <3>2. PICK p \in Peers : p = o.peer
      BY <2>4
    <3>3. IsKept(p) => IsKept(p)'
      BY <1>29
    <3>4. IsKept(p) \/ p \in dropped
      BY <2>4, <3>2
    <3> QED BY <1>1, <3>2, <3>3, <3>4 DEF IsKept
  <2> QED BY <1>30, <2>2, <2>3, <2>5
<1>32. LeavingAreHeld'
  BY <1>1, <1>4, <1>19 DEF LeavingAreHeld, HoldsAny, Shape, Entries
<1>33. NoneLeft'
  BY <1>4, <1>29, <1>19 DEF NoneLeft
<1> QED BY <1>22, <1>23, <1>24, <1>25, <1>26, <1>27, <1>28, <1>31, <1>32, <1>33 DEF PeersInv

-----------------------------------------------------------------------------
\* The last of a list of peers is one of it.
LEMMA LastIs ==
  ASSUME NEW S \in SUBSET Entries
  PROVE  LastOf(S) = 0 \/ \E e \in S : e.peer = LastOf(S)
<1> DEFINE found == {e.peer : e \in S}
           last == CHOOSE p \in found : \A q \in found : q <= p
<1>1. LastOf(S) = IF found = {} THEN 0 ELSE last
  BY DEF LastOf
<1>2. found \in SUBSET (1 .. MaxPeers)
  BY DEF Entries, Peers
<1>3. \A p \in found : \E e \in S : e.peer = p
  OBVIOUS
<1> HIDE DEF found
<1>4. ASSUME found # {} PROVE last \in found
  BY <1>2, <1>4, HasLast, DescribedAssumption
<1> HIDE DEF last
<1> QED BY <1>1, <1>3, <1>4

\* A library is opened from a peer of its name that the source knows.
LEMMA OpenerIs ==
  ASSUME Shape, NEW n \in Names, Opener(n) # 0
  PROVE  /\ Opener(n) \in Peers /\ IsKept(Opener(n))
         /\ \A f : OwnerIs(f) => f[Opener(n)] = n
<1> DEFINE going == {e \in leaving : e.name = n /\ peer[e.peer].lists}
           was == LastOf(going)
<1>1. Opener(n) = named[n].peer \/ (was # 0 /\ Opener(n) = was)
  BY DEF Opener
<1>2. going \in SUBSET Entries /\ leaving \in SUBSET Entries
  BY DEF Shape
<1>3. \A e \in going : e \in leaving /\ e.name = n /\ e.peer \in Peers
  BY <1>2 DEF Entries
<1>4. was # 0 => \E e \in going : e.peer = was
  BY <1>2, LastIs
<1> HIDE DEF going, was
<1>5. CASE Opener(n) = named[n].peer
  <2>1. named[n].peer \in 0 .. MaxPeers /\ named[n].peer # 0
    BY <1>5 DEF Shape, Naming
  <2>2. Opener(n) \in Peers
    BY <1>5, <2>1, DescribedAssumption DEF Peers
  <2>3. IsKept(Opener(n))
    BY <1>5 DEF IsKept
  <2>4. \A f : OwnerIs(f) => f[Opener(n)] = n
    BY <1>5, <2>1 DEF OwnerIs
  <2> QED BY <2>2, <2>3, <2>4
<1>6. CASE was # 0 /\ Opener(n) = was
  <2>1. PICK e \in going : e.peer = Opener(n)
    BY <1>4, <1>6
  <2>2. e \in leaving /\ e.name = n /\ Opener(n) \in Peers
    BY <1>3, <2>1
  <2>3. IsKept(Opener(n))
    BY <2>1, <2>2 DEF IsKept
  <2>4. \A f : OwnerIs(f) => f[Opener(n)] = n
    BY <2>1, <2>2 DEF OwnerIs
  <2> QED BY <2>2, <2>3, <2>4
<1> QED BY <1>1, <1>5, <1>6

\* What a peer has open under one stamp is all that is counted anew.
Counts(all, p, g, k) == [all EXCEPT ![p] = [all[p] EXCEPT !.opened = [all[p].opened EXCEPT ![g] = k]]]

LEMMA Counting ==
  ASSUME NEW all \in [Peers -> PeerRecord], NEW p \in Peers, NEW g \in 1 .. MaxLinks,
         NEW k \in Nat
  PROVE  LET new == Counts(all, p, g, k) IN
         /\ new \in [Peers -> PeerRecord]
         /\ \A q \in Peers : /\ new[q].link = all[q].link /\ (new[q].up = all[q].up)
                             /\ (new[q].lists = all[q].lists)
                             /\ \A h \in 1 .. MaxLinks : new[q].opened[h]
                                  = IF q = p /\ h = g THEN k ELSE all[q].opened[h]
<1> DEFINE new == Counts(all, p, g, k)
<1>1. all[p] \in PeerRecord /\ all[p].opened \in [1 .. MaxLinks -> Nat]
  BY DEF PeerRecord
<1>2. PICK O \in [1 .. MaxLinks -> Nat] : O = [all[p].opened EXCEPT ![g] = k]
  BY <1>1
<1>3. \A h \in 1 .. MaxLinks : O[h] = IF h = g THEN k ELSE all[p].opened[h]
  BY <1>1, <1>2
<1>4. PICK R : R = [all[p] EXCEPT !.opened = O]
  OBVIOUS
<1>5. R \in PeerRecord
  BY <1>1, <1>4 DEF PeerRecord
<1>6. R.link = all[p].link /\ R.opened = O
  BY <1>1, <1>4 DEF PeerRecord
<1>7. (R.up = all[p].up) /\ (R.lists = all[p].lists)
  BY <1>1, <1>4 DEF PeerRecord
<1>8. new = [all EXCEPT ![p] = R]
  BY <1>2, <1>4 DEF Counts
<1> HIDE DEF new
<1>9. new \in [Peers -> PeerRecord] /\ new[p] = R /\ \A q \in Peers : q # p => new[q] = all[q]
  BY <1>5, <1>8
<1>10. \A q \in Peers : (new[q].up = all[q].up) /\ (new[q].lists = all[q].lists)
  BY <1>7, <1>9
<1>11. \A q \in Peers : /\ new[q].link = all[q].link
                        /\ \A h \in 1 .. MaxLinks : new[q].opened[h]
                             = IF q = p /\ h = g THEN k ELSE all[q].opened[h]
  BY <1>3, <1>6, <1>9
<1> QED BY <1>9, <1>10, <1>11 DEF new

LEMMA OpenOneKeeps ==
  ASSUME PeersInv, NEW c \in lister.todo, NEW opens \in BOOLEAN, OpenOne(c, opens)
  PROVE  PeersInv'
<1>1. /\ lister.pc = "opening" /\ lister' = [lister EXCEPT !.todo = @ \ {c}]
      /\ tried' = [tried EXCEPT ![c.name] = c.stamp]
      /\ UNCHANGED <<disk, edits, named, leaving, links, dropped>>
  BY DEF OpenOne
<1>2. /\ Shape /\ Young /\ Stamped /\ OneName /\ OneSource /\ LinkStands /\ Underway
      /\ Counted /\ LeavingAreHeld /\ NoneLeft
  BY DEF PeersInv
<1>3. lister \in ListerRecord(Candidates) /\ tried \in [Names -> 0 .. MaxLinks]
  BY <1>1, <1>2, ListerIs DEF Shape
<1>4. c.name \in Names /\ c.stamp \in 1 .. MaxLinks /\ c.stamp \in 0 .. MaxLinks
  BY <1>3, DescribedAssumption DEF ListerRecord, Candidates
<1>5. /\ lister' \in ListerRecord(Candidates) /\ lister'.pc = "opening"
      /\ lister'.made = lister.made /\ lister'.named = lister.named
      /\ lister'.leaving = lister.leaving
  BY <1>1, <1>3 DEF ListerRecord
<1>6. tried' \in [Names -> 0 .. MaxLinks]
  BY <1>1, <1>3, <1>4
<1>7. CASE ~opens
  BY <1>1, <1>5, <1>6, <1>7, RegistryTurnKeeps DEF OpenOne
<1>8. CASE opens
  <2> DEFINE p == Opener(c.name)
             g == peer[p].link
             W == {o \in holds : o.name # c.name}
             still == {[o EXCEPT !.serving = @ /\ o.name # c.name] : o \in holds}
             new == [name |-> c.name, peer |-> p, stamp |-> c.stamp, serving |-> TRUE,
                     id |-> CHOOSE i \in 1 .. MaxOpens : \A o \in holds : o.id # i]
  <2>1. /\ p # 0 /\ peer[p].up /\ Cardinality(holds) < MaxOpens
        /\ peer' = [peer EXCEPT ![p] = [peer[p] EXCEPT !.opened = [peer[p].opened EXCEPT ![g] = peer[p].opened[g] + 1]]]
        /\ holds' = still \cup {new}
        /\ crossed' = (crossed \/ g # c.stamp)
    BY <1>8 DEF OpenOne
  <2>2. p \in Peers /\ IsKept(p) /\ \A f : OwnerIs(f) => f[p] = c.name
    BY <1>2, <1>4, <2>1, OpenerIs
  <2> HIDE DEF p
  <2>3. peer \in [Peers -> PeerRecord] /\ peer[p] \in PeerRecord /\ peer[p].link \in 0 .. MaxLinks
        /\ links \in 0 .. MaxLinks /\ links \in Nat /\ holds \in SUBSET Held /\ OwnIds(holds)
    BY <1>2, <2>2, DescribedAssumption DEF Shape, PeerRecord
  <2>4. g \in 1 .. MaxLinks
    BY <1>2, <2>1, <2>2, <2>3, DescribedAssumption DEF LinkStands
  <2> HIDE DEF g
  <2>5. still = Stilled(holds, W)
    <3> DEFINE F(o) == [o EXCEPT !.serving = @ /\ o.name # c.name]
               G(o) == [o EXCEPT !.serving = @ /\ o \in W]
    <3>1. \A o \in holds : (o.serving /\ o.name # c.name) = (o.serving /\ o \in W)
      OBVIOUS
    <3> HIDE DEF W
    <3>2. \A o \in holds : F(o) = G(o)
      BY <3>1
    <3>3. still = {F(o) : o \in holds} /\ Stilled(holds, W) = {G(o) : o \in holds}
      BY DEF Stilled
    <3> HIDE DEF F, G
    <3>4. {F(o) : o \in holds} = {G(o) : o \in holds}
      BY <3>2
    <3> QED BY <3>3, <3>4
  <2> HIDE DEF W, still
  <2>6. /\ still \in SUBSET Held /\ OwnIds(still)
        /\ \A x \in still : \E o \in holds : Alike(x, o)
        /\ \A q, h : Cardinality(Of(still, q, h)) = Cardinality(Of(holds, q, h))
    BY <2>3, <2>5, StillCounted
  <2>7. /\ new \in Held /\ new.peer = p /\ new.stamp = c.stamp /\ new.name = c.name
        /\ \A o \in holds : o.id # new.id
    <3> DEFINE i == CHOOSE i \in 1 .. MaxOpens : \A o \in holds : o.id # i
    <3>1. i \in 1 .. MaxOpens /\ \A o \in holds : o.id # i
      BY <2>1, <2>3, FreeId
    <3> HIDE DEF i
    <3>2. new = [name |-> c.name, peer |-> p, stamp |-> c.stamp, serving |-> TRUE, id |-> i]
      BY DEF i
    <3> HIDE DEF new
    <3> QED BY <1>4, <2>2, <3>1, <3>2 DEF Held
  <2> HIDE DEF new
  <2>8. \A o \in still : o.id # new.id
    BY <2>6, <2>7 DEF Alike
  <2>9. new \notin still
    BY <2>8
  <2>10. /\ holds' \in SUBSET Held /\ OwnIds(holds')
         /\ \A x \in holds' : x = new \/ \E o \in holds : Alike(x, o)
    BY <2>1, <2>6, <2>7, <2>8 DEF OwnIds
  <2>11. /\ peer' \in [Peers -> PeerRecord]
         /\ \A q \in Peers : /\ peer'[q].link = peer[q].link /\ peer'[q].up = peer[q].up
                             /\ peer'[q].lists = peer[q].lists
                             /\ \A h \in 1 .. MaxLinks : peer'[q].opened[h]
                                  = peer[q].opened[h] + IF q = p /\ h = g THEN 1 ELSE 0
    <3>1. peer[p].opened[g] \in Nat
      BY <2>3, <2>4 DEF PeerRecord
    <3>2. PICK k \in Nat : k = peer[p].opened[g] + 1
      BY <3>1
    <3>3. /\ peer' \in [Peers -> PeerRecord]
          /\ \A q \in Peers : /\ peer'[q].link = peer[q].link /\ (peer'[q].up = peer[q].up)
                              /\ (peer'[q].lists = peer[q].lists)
                              /\ \A h \in 1 .. MaxLinks : peer'[q].opened[h]
                                   = IF q = p /\ h = g THEN k ELSE peer[q].opened[h]
      BY <2>2, <2>3, <2>4, <2>1, <3>2, Counting DEF Counts
    <3>4. ASSUME NEW q \in Peers, NEW h \in 1 .. MaxLinks
          PROVE  peer'[q].opened[h] = peer[q].opened[h] + IF q = p /\ h = g THEN 1 ELSE 0
      <4>1. peer[q] \in PeerRecord
        BY <2>3
      <4>2. peer[q].opened[h] \in Nat
        BY <4>1 DEF PeerRecord
      <4>3. peer'[q].opened[h] = IF q = p /\ h = g THEN k ELSE peer[q].opened[h]
        BY <3>3
      <4> QED BY <3>2, <4>2, <4>3
    <3> QED BY <3>3, <3>4
  <2>12. Shape'
    BY <1>1, <1>2, <1>5, <1>6, <2>10, <2>11, <2>1 DEF Shape
  <2>13. lister.made \in Nat /\ p \in Nat /\ p <= lister.made
    BY <1>2, <2>2, ListerIs, DescribedAssumption DEF Young, IsKept, Peers
  <2>14. Young'
    <3>1. ASSUME NEW q \in Peers, q > lister.made, NEW h \in 1 .. MaxLinks PROVE peer'[q].opened[h] = 0
      BY <2>11, <2>13, <3>1, <1>2 DEF Young, Peers
    <3> QED BY <1>1, <1>2, <1>5, <2>7, <2>10, <2>13, <3>1 DEF Young, Alike
  <2>15. Stamped'
    BY <1>1, <1>2, <1>5 DEF Stamped
  <2>16. OneName'
    <3>1. PICK f \in [Peers -> Names \cup {0}] : OwnerIs(f)
      BY <1>2 DEF OneName
    <3>2. OwnerIs(f)'
      BY <1>1, <1>5, <3>1, <2>2, <2>7, <2>10 DEF OwnerIs, Alike
    <3> QED BY <3>2 DEF OneName
  <2>17. OneSource'
    <3>1. PICK t \in [1 .. MaxLinks -> 0 .. MaxPeers] : SourceIs(t)
      BY <1>2 DEF OneSource
    <3>2. g <= links /\ t[g] = p
      BY <2>2, <2>4, <3>1 DEF SourceIs, g
    <3>3. ASSUME NEW q \in Peers, NEW h \in 1 .. MaxLinks, peer'[q].opened[h] > 0
          PROVE  h <= links /\ t[h] = q
      <4>1. peer[q].opened[h] \in Nat
        <5>1. peer[q] \in PeerRecord
          BY <2>3
        <5> QED BY <5>1 DEF PeerRecord
      <4>2. CASE q = p /\ h = g
        BY <3>2, <4>2
      <4>3. CASE ~(q = p /\ h = g)
        BY <3>1, <2>11, <3>3, <4>1, <4>3 DEF SourceIs
      <4> QED BY <4>2, <4>3
    <3>4. ~crossed' => \A o \in holds' : o.stamp <= links /\ t[o.stamp] = o.peer
      <4>1. SUFFICES ASSUME ~crossed', NEW x \in holds' PROVE x.stamp <= links /\ t[x.stamp] = x.peer
        OBVIOUS
      <4>2. ~crossed /\ g = c.stamp
        BY <2>1, <4>1
      <4>3. CASE x = new
        BY <2>7, <3>2, <4>2, <4>3
      <4>4. CASE \E o \in holds : Alike(x, o)
        BY <3>1, <4>2, <4>4 DEF SourceIs, Alike
      <4> QED BY <2>10, <4>1, <4>3, <4>4
    <3>5. SourceIs(t)'
      BY <1>1, <3>3, <3>4, <2>11, <3>1 DEF SourceIs
    <3> QED BY <3>5 DEF OneSource
  <2>18. LinkStands'
    BY <1>2, <2>11 DEF LinkStands
  <2>19. Underway'
    BY <1>1, <1>2, <1>5 DEF Underway
  <2>20. \A q \in Peers : IsKept(q)' <=> IsKept(q)
    BY <1>1, <1>5 DEF IsKept
  <2>21. Counted'
    <3> SUFFICES ASSUME ~crossed'
                 PROVE  /\ \A q \in Peers : IsKept(q)' => \A h \in 1 .. MaxLinks :
                             peer'[q].opened[h] = Cardinality(Of(holds', q, h))
                        /\ \A o \in holds' : IsKept(o.peer)' \/ o.peer \in dropped'
      BY DEF Counted, Of
    <3>1. ~crossed /\ g = c.stamp
      BY <2>1
    <3>2. ASSUME NEW q \in Peers, IsKept(q), NEW h \in 1 .. MaxLinks
          PROVE  peer'[q].opened[h] = Cardinality(Of(holds', q, h))
      BY <2>1, <2>6, <2>7, <2>9, OneMore, <2>11, <3>1, <1>2, <3>2 DEF Counted
    <3>3. ASSUME NEW x \in holds' PROVE IsKept(x.peer)' \/ x.peer \in dropped'
      BY <1>1, <1>5, <1>2, <2>2, <2>7, <2>10, <3>1 DEF IsKept, Counted, Alike
    <3> QED BY <2>20, <3>2, <3>3
  <2>22. LeavingAreHeld'
    <3>1. ASSUME NEW e \in leaving PROVE \E h \in 1 .. MaxLinks : peer'[e.peer].opened[h] > 0
      <4>1. e.peer \in Peers
        BY <1>2 DEF Shape, Entries
      <4>2. PICK h \in 1 .. MaxLinks : peer[e.peer].opened[h] > 0
        BY <1>2 DEF LeavingAreHeld, HoldsAny
      <4>3. peer[e.peer] \in PeerRecord /\ peer[e.peer].opened[h] \in Nat
        BY <2>3, <4>1 DEF PeerRecord
      <4>4. peer'[e.peer].opened[h] > 0
        BY <2>11, <4>1, <4>2, <4>3
      <4> QED BY <4>4
    <3> QED BY <1>1, <3>1 DEF LeavingAreHeld, HoldsAny
  <2>23. NoneLeft'
    BY <1>2, <2>11, <2>20 DEF NoneLeft
  <2> QED BY <2>12, <2>14, <2>15, <2>16, <2>17, <2>18, <2>19, <2>21, <2>22, <2>23 DEF PeersInv
<1> QED BY <1>7, <1>8

\* What a library is held of stays: the entry of a peer that leaves is of one
\* that counts it.
LEMMA HeldStays ==
  ASSUME PeersInv, ~crossed, NEW o \in holds, IsKept(o.peer)
  PROVE  o.peer \in Peers /\ HoldsAny(peer[o.peer])
<1>1. holds \in SUBSET Held /\ OwnIds(holds) /\ Counted
  BY DEF PeersInv, Shape
<1>2. o.peer \in Peers /\ o.stamp \in 1 .. MaxLinks
  BY <1>1 DEF Held
<1>3. peer[o.peer].opened[o.stamp] = Cardinality(Of(holds, o.peer, o.stamp))
  BY <1>1, <1>2 DEF Counted
<1>4. Cardinality(Of(holds, o.peer, o.stamp)) > 0
  BY <1>1, HeldCounts
<1> QED BY <1>2, <1>3, <1>4 DEF HoldsAny

\* Those that leave stay while they hold something; the others lose their links.
LEMMA GoingIs ==
  ASSUME NEW S, NEW all, NEW e \in S
  PROVE  /\ Staying(S, all) \subseteq S
         /\ e \in Staying(S, all) <=> HoldsAny(all[e.peer])
         /\ ~HoldsAny(all[e.peer]) => e.peer \in Going(S, all)
BY DEF Staying, Going

\* The libraries after a listing is stored.
LEMMA StoredHolds ==
  ASSUME NEW W, W = {o \in holds : ListedFor(o.name) # {}}
  PROVE  {[o EXCEPT !.serving = @ /\ ListedFor(o.name) # {}] : o \in holds} = Stilled(holds, W)
<1> DEFINE L(n) == ListedFor(n) # {}
           F(o) == [o EXCEPT !.serving = @ /\ L(o.name)]
           G(o) == [o EXCEPT !.serving = @ /\ o \in W]
<1>1. W = {o \in holds : L(o.name)}
  OBVIOUS
<1>2. {[o EXCEPT !.serving = @ /\ ListedFor(o.name) # {}] : o \in holds} = {F(o) : o \in holds}
  OBVIOUS
<1> HIDE DEF L
<1>3. \A o \in holds : F(o) = G(o)
  BY <1>1
<1>4. Stilled(holds, W) = {G(o) : o \in holds}
  BY DEF Stilled
<1> HIDE DEF F, G
<1>5. {F(o) : o \in holds} = {G(o) : o \in holds}
  BY <1>3
<1> QED BY <1>2, <1>4, <1>5

LEMMA ListStoreKeeps ==
  ASSUME PeersInv, ListStore
  PROVE  PeersInv'
<1>1. /\ Shape /\ Young /\ Stamped /\ OneName /\ OneSource /\ LinkStands /\ Underway
      /\ Counted /\ LeavingAreHeld /\ NoneLeft
  BY DEF PeersInv
<1>2. /\ lister.pc = "listing" /\ named' = lister.named
      /\ leaving' = Staying(lister.leaving, peer)
      /\ peer' = Disconnected(Going(lister.leaving, peer), peer)
      /\ UNCHANGED <<disk, edits, links, dropped, crossed>>
  BY DEF ListStore
<1>3. /\ lister.named \in Naming /\ lister.leaving \in SUBSET Entries /\ lister.made \in 0 .. MaxPeers
  BY <1>1, ListerIs
<1>4. leaving' \subseteq lister.leaving
  BY <1>2 DEF Staying
<1>5. /\ lister' \in ListerRecord(Candidates) /\ lister'.pc = "opening" /\ lister'.made = lister.made
      /\ lister'.leaving = {} /\ \A n \in Names : lister'.named[n] = [peer |-> 0, edit |-> 0]
  <2> DEFINE T == {c \in [name : Names, stamp : 1 .. MaxLinks] :
                     c.stamp \in ListedFor(c.name) \ {tried[c.name]}}
  <2>1. T \in SUBSET Candidates
    BY DEF Candidates
  <2>2. lister' = [Idle EXCEPT !.pc = "opening", !.made = lister.made, !.todo = T]
    BY DEF ListStore
  <2> HIDE DEF T
  <2>3. 0 \in 0 .. MaxPeers /\ 0 \in 0 .. MaxEdits
    BY DescribedAssumption
  <2> QED BY <1>3, <2>1, <2>2, <2>3 DEF Idle, ListerRecord, Naming
<1>6. tried' \in [Names -> 0 .. MaxLinks]
  BY <1>1, DescribedAssumption DEF ListStore, Shape
<1>7. /\ holds' \in SUBSET Held /\ OwnIds(holds')
      /\ \A x \in holds' : \E o \in holds : Alike(x, o)
      /\ \A p, g : Cardinality(Of(holds', p, g)) = Cardinality(Of(holds, p, g))
  <2>1. PICK W : W = {o \in holds : ListedFor(o.name) # {}}
    OBVIOUS
  <2>2. holds' = Stilled(holds, W)
    BY <2>1, StoredHolds DEF ListStore
  <2>3. holds \in SUBSET Held /\ OwnIds(holds)
    BY <1>1 DEF Shape
  <2> QED BY <2>2, <2>3, StillCounted
<1>8. /\ peer \in [Peers -> PeerRecord] /\ peer' \in [Peers -> PeerRecord]
      /\ \A p \in Peers : /\ peer'[p].opened = peer[p].opened
                          /\ p \in Going(lister.leaving, peer) => ~peer'[p].up
                          /\ \/ peer'[p].link = 0 /\ ~peer'[p].up /\ ~peer'[p].lists
                             \/ peer'[p] = peer[p]
  BY <1>2, <1>1, DisconnectedIs DEF Shape
<1>9. Shape'
  BY <1>1, <1>2, <1>3, <1>4, <1>5, <1>6, <1>7, <1>8 DEF Shape
<1>10. Young'
  <2>1. \A n \in Names : /\ named'[n].peer <= lister'.made /\ lister'.named[n].peer <= lister'.made
                         /\ named'[n].edit <= edits' /\ lister'.named[n].edit <= edits'
                         /\ disk'[n].edit <= edits'
    BY <1>1, <1>2, <1>3, <1>5, DescribedAssumption DEF Young, Shape
  <2>2. \A e \in leaving' \cup lister'.leaving : e.peer <= lister'.made
    BY <1>1, <1>4, <1>5 DEF Young
  <2>3. \A o \in holds' : o.peer <= lister'.made
    BY <1>1, <1>5, <1>7 DEF Young, Alike
  <2>4. \A p \in Peers : p > lister'.made => \A g \in 1 .. MaxLinks : peer'[p].opened[g] = 0
    BY <1>1, <1>5, <1>8 DEF Young
  <2> QED BY <2>1, <2>2, <2>3, <2>4 DEF Young
<1>11. Stamped'
  BY <1>1, <1>2, <1>5 DEF Stamped
<1>12. OneName'
  <2>1. PICK f \in [Peers -> Names \cup {0}] : OwnerIs(f)
    BY <1>1 DEF OneName
  <2>2. OwnerIs(f)'
    BY <1>2, <1>5, <2>1, <1>4, <1>7 DEF OwnerIs, Alike
  <2> QED BY <2>2 DEF OneName
<1>13. OneSource'
  <2>1. PICK s \in [1 .. MaxLinks -> 0 .. MaxPeers] : SourceIs(s)
    BY <1>1 DEF OneSource
  <2>2. ~crossed => \A o \in holds' : o.stamp <= links /\ s[o.stamp] = o.peer
    BY <1>7, <2>1 DEF SourceIs, Alike
  <2>3. SourceIs(s)'
    BY <1>2, <1>8, <2>1, <1>1, DescribedAssumption, <2>2 DEF SourceIs, Shape
  <2> QED BY <2>3 DEF OneSource
<1>14. LinkStands'
  BY <1>1, <1>8 DEF LinkStands
<1>15. Underway'
  BY <1>5 DEF Underway
<1>16. ASSUME NEW p \in Peers
       PROVE  IsKept(p)' <=> \/ \E n \in Names : lister.named[n].peer = p
                             \/ \E e \in leaving' : e.peer = p
  <2>1. p # 0
    BY DEF Peers
  <2> QED BY <1>2, <1>5, <2>1 DEF IsKept
<1>17. ASSUME NEW p \in Peers, IsKept(p)' PROVE IsKept(p)
  BY <1>4, <1>16, <1>17 DEF IsKept
<1>18. ASSUME NEW p \in Peers, IsKept(p)
       PROVE  \/ \E n \in Names : lister.named[n].peer = p
              \/ \E e \in lister.leaving : e.peer = p
              \/ p \in dropped /\ ~peer[p].up
  <2>1. leaving \subseteq lister.leaving /\ \A n \in Names : named[n].peer # 0 => Fate(named[n].peer)
    BY <1>1, <1>2 DEF Underway
  <2>2. CASE \E n \in Names : named[n].peer = p
    <3>1. p # 0
      BY DEF Peers
    <3>2. Fate(p)
      BY <2>1, <2>2, <3>1
    <3> QED BY <3>2 DEF Fate
  <2> QED BY <1>18, <2>1, <2>2 DEF IsKept
<1>19. Counted'
  <2> SUFFICES ASSUME ~crossed'
               PROVE  /\ \A p \in Peers : IsKept(p)' => \A g \in 1 .. MaxLinks :
                           peer'[p].opened[g] = Cardinality(Of(holds', p, g))
                      /\ \A o \in holds' : IsKept(o.peer)' \/ o.peer \in dropped'
    BY DEF Counted, Of
  <2>1. ~crossed
    BY <1>2
  <2>2. ASSUME NEW p \in Peers, IsKept(p)', NEW g \in 1 .. MaxLinks
        PROVE  peer'[p].opened[g] = Cardinality(Of(holds', p, g))
    BY <1>1, <1>7, <1>8, <1>17, <2>1, <2>2 DEF Counted
  <2>3. ASSUME NEW x \in holds' PROVE IsKept(x.peer)' \/ x.peer \in dropped'
    <3>1. PICK o \in holds : x.peer = o.peer
      BY <1>7 DEF Alike
    <3>2. PICK p \in Peers : p = o.peer /\ p = x.peer
      BY <1>1, <3>1 DEF Shape, Held
    <3>3. IsKept(o.peer) \/ p \in dropped
      BY <1>1, <2>1, <3>2 DEF Counted
    <3>4. CASE IsKept(o.peer)
      <4>1. IsKept(p)
        BY <3>2, <3>4
      <4>2. CASE \E e \in lister.leaving : e.peer = p
        <5>1. PICK e \in lister.leaving : e.peer = p
          BY <4>2
        <5>2. IsKept(p)'
          BY <1>16, <5>1, <1>2, <2>1, <3>2, <3>4, HeldStays, GoingIs
        <5> QED BY <3>2, <5>2
      <4>3. CASE \E n \in Names : lister.named[n].peer = p
        BY <3>2, <1>16, <4>3
      <4>4. CASE p \in dropped
        BY <1>2, <3>2, <4>4
      <4> QED BY <1>18, <4>1, <4>2, <4>3, <4>4
    <3> QED BY <1>2, <3>2, <3>3, <3>4
  <2> QED BY <2>2, <2>3
<1>20. LeavingAreHeld'
  <2>1. ASSUME NEW e \in leaving' PROVE \E g \in 1 .. MaxLinks : peer'[e.peer].opened[g] > 0
    BY <1>8, <1>2, <1>4, GoingIs, <1>3 DEF HoldsAny, Entries
  <2> QED BY <2>1 DEF LeavingAreHeld, HoldsAny
<1>21. NoneLeft'
  <2>1. ASSUME NEW p \in Peers, peer'[p].up PROVE IsKept(p)'
    <3>1. peer[p].up /\ p \notin Going(lister.leaving, peer)
      BY <1>8, <2>1
    <3>2. IsKept(p)
      BY <1>1, <3>1 DEF NoneLeft
    <3>3. ASSUME NEW e \in lister.leaving, e.peer = p PROVE e \in leaving'
      BY <1>2, <3>1, <3>3, GoingIs
    <3> QED BY <1>16, <1>18, <3>1, <3>2, <3>3
  <2> QED BY <2>1 DEF NoneLeft
<1> QED BY <1>9, <1>10, <1>11, <1>12, <1>13, <1>14, <1>15, <1>19, <1>20, <1>21 DEF PeersInv

\* Each peer asked takes one off what it has open under a stamp, if anything.
Closed(asked, stamp) ==
  [p \in Peers |-> IF p \in asked /\ peer[p].opened[stamp] > 0
                   THEN [peer[p] EXCEPT !.opened[stamp] = @ - 1] ELSE peer[p]]

LEMMA ClosedIs ==
  ASSUME peer \in [Peers -> PeerRecord], NEW A, NEW g \in 1 .. MaxLinks
  PROVE  /\ Closed(A, g) \in [Peers -> PeerRecord]
         /\ \A p \in Peers :
              /\ Closed(A, g)[p].link = peer[p].link /\ (Closed(A, g)[p].up = peer[p].up)
              /\ (Closed(A, g)[p].lists = peer[p].lists)
              /\ \A h \in 1 .. MaxLinks : Closed(A, g)[p].opened[h]
                   = IF p \in A /\ h = g /\ peer[p].opened[h] > 0 THEN peer[p].opened[h] - 1
                     ELSE peer[p].opened[h]
<1>1. ASSUME NEW p \in Peers
      PROVE  /\ Closed(A, g)[p] \in PeerRecord
             /\ Closed(A, g)[p].link = peer[p].link /\ (Closed(A, g)[p].up = peer[p].up)
             /\ (Closed(A, g)[p].lists = peer[p].lists)
             /\ \A h \in 1 .. MaxLinks : Closed(A, g)[p].opened[h]
                  = IF p \in A /\ h = g /\ peer[p].opened[h] > 0 THEN peer[p].opened[h] - 1
                    ELSE peer[p].opened[h]
  <2>1. peer[p] \in PeerRecord
    OBVIOUS
  <2>2. peer[p].opened \in [1 .. MaxLinks -> Nat] /\ peer[p].opened[g] \in Nat
    BY <2>1 DEF PeerRecord
  <2>3. CASE ~(p \in A /\ peer[p].opened[g] > 0)
    BY <2>1, <2>3 DEF Closed
  <2>4. CASE p \in A /\ peer[p].opened[g] > 0
    <3>1. PICK k \in Nat : k = peer[p].opened[g] - 1
      BY <2>2, <2>4
    <3>2. PICK O \in [1 .. MaxLinks -> Nat] : O = [peer[p].opened EXCEPT ![g] = k]
      BY <2>2
    <3>3. PICK R : R = [peer[p] EXCEPT !.opened = O]
      OBVIOUS
    <3>4. R \in PeerRecord
      BY <2>1, <3>3 DEF PeerRecord
    <3>5. R.link = peer[p].link /\ R.opened = O
      BY <2>1, <3>3 DEF PeerRecord
    <3>6. (R.up = peer[p].up) /\ (R.lists = peer[p].lists)
      BY <2>1, <3>3 DEF PeerRecord
    <3>7. Closed(A, g)[p] = R
      BY <3>1, <3>2, <3>3, <2>4 DEF Closed
    <3>8. \A h \in 1 .. MaxLinks : R.opened[h]
                  = IF p \in A /\ h = g /\ peer[p].opened[h] > 0 THEN peer[p].opened[h] - 1
                    ELSE peer[p].opened[h]
      BY <2>4, <3>1, <2>2, <3>2, <3>5
    <3> QED BY <3>4, <3>5, <3>6, <3>7, <3>8
  <2> QED BY <2>3, <2>4
<1>2. Closed(A, g) \in [Peers -> PeerRecord]
  BY <1>1 DEF Closed
<1> QED BY <1>1, <1>2

LEMMA CloseOneKeeps ==
  ASSUME PeersInv, NEW o \in holds, CloseOne(o)
  PROVE  PeersInv'
<1> DEFINE asked == ({named[o.name].peer} \ {0}) \cup {e.peer : e \in {x \in leaving : x.name = o.name}}
           after == Closed(asked, o.stamp)
<1>1. /\ Shape /\ Young /\ Stamped /\ OneName /\ OneSource /\ LinkStands /\ Underway
      /\ Counted /\ LeavingAreHeld /\ NoneLeft
  BY DEF PeersInv
<1>2. /\ lister.pc = "idle" /\ holds' = holds \ {o}
      /\ UNCHANGED <<disk, edits, named, links, lister, tried, dropped, crossed>>
  BY DEF CloseOne
<1>3. leaving' = Staying(leaving, after) /\ peer' = Disconnected(Going(leaving, after), after)
  BY DEF CloseOne, Closed
<1>4. /\ holds \in SUBSET Held /\ OwnIds(holds) /\ leaving \in SUBSET Entries
      /\ named \in Naming /\ peer \in [Peers -> PeerRecord] /\ links \in Nat
  BY <1>1, DescribedAssumption DEF Shape
<1>5. \A q \in Peers : q \in asked <=> \/ named[o.name].peer = q
                                       \/ \E e \in leaving : e.peer = q /\ e.name = o.name
  BY DEF Peers
<1> HIDE DEF asked
<1>6. /\ after \in [Peers -> PeerRecord]
      /\ \A q \in Peers :
           /\ after[q].link = peer[q].link /\ (after[q].up = peer[q].up)
           /\ (after[q].lists = peer[q].lists)
           /\ \A h \in 1 .. MaxLinks : after[q].opened[h]
                = IF q \in asked /\ h = o.stamp /\ peer[q].opened[h] > 0 THEN peer[q].opened[h] - 1
                  ELSE peer[q].opened[h]
  BY <1>4, ClosedIs DEF Held
<1> HIDE DEF after
<1>7. /\ peer' \in [Peers -> PeerRecord]
      /\ \A q \in Peers : /\ peer'[q].opened = after[q].opened
                          /\ q \in Going(leaving, after) => ~peer'[q].up
                          /\ \/ peer'[q].link = 0 /\ ~peer'[q].up /\ ~peer'[q].lists
                             \/ peer'[q] = after[q]
  BY <1>3, <1>6, DisconnectedIs
<1>8. ASSUME NEW q \in Peers, NEW h \in 1 .. MaxLinks
      PROVE  /\ peer[q].opened[h] \in Nat
             /\ peer'[q].opened[h] = IF q \in asked /\ h = o.stamp /\ peer[q].opened[h] > 0
                                     THEN peer[q].opened[h] - 1 ELSE peer[q].opened[h]
             /\ peer'[q].opened[h] > 0 => peer[q].opened[h] > 0
             /\ peer[q].opened[h] = 0 => peer'[q].opened[h] = 0
  <2>1. peer[q].opened[h] \in Nat
    BY <1>4 DEF PeerRecord
  <2> QED BY <2>1, <1>6, <1>7
<1>9. \A q \in Peers :
        \/ peer'[q].link = 0 /\ ~peer'[q].up /\ ~peer'[q].lists
        \/ /\ peer'[q].link = peer[q].link
           /\ peer'[q].up => peer[q].up
           /\ peer'[q].lists => peer[q].lists
  BY <1>6, <1>7
<1>10. leaving' \subseteq leaving /\ \A e \in leaving : e \in leaving' <=> HoldsAny(after[e.peer])
  BY <1>3 DEF Staying
<1>11. OwnIds(holds') /\ holds' \in SUBSET Held
  BY <1>2, <1>4, OneLess
<1>12. lister.leaving = {} /\ \A n \in Names : lister.named[n].peer = 0
  BY <1>1, <1>2 DEF Underway
<1>13. Shape'
  BY <1>1, <1>2, <1>7, <1>11, <1>4, <1>10 DEF Shape
<1>14. Young'
  BY <1>1, <1>2, <1>8, <1>10 DEF Young
<1>15. Stamped'
  BY <1>1, <1>2 DEF Stamped
<1>16. OneName'
  BY <1>1, <1>2, <1>10 DEF OneName, OwnerIs
<1>17. OneSource'
  <2>1. PICK s \in [1 .. MaxLinks -> 0 .. MaxPeers] : SourceIs(s)
    BY <1>1 DEF OneSource
  <2>2. SourceIs(s)'
    BY <1>2, <2>1, <1>4, <1>9, <1>8 DEF SourceIs
  <2> QED BY <2>2 DEF OneSource
<1>18. LinkStands'
  BY <1>1, <1>9 DEF LinkStands
<1>19. Underway'
  BY <1>2, <1>12 DEF Underway
<1>20. ASSUME NEW q \in Peers
       PROVE  /\ IsKept(q) <=> (\E n \in Names : named[n].peer = q) \/ \E e \in leaving : e.peer = q
              /\ IsKept(q)' <=> (\E n \in Names : named[n].peer = q) \/ \E e \in leaving' : e.peer = q
  <2>1. q # 0
    BY DEF Peers
  <2> QED BY <1>2, <1>12, <2>1 DEF IsKept
<1>21. ASSUME ~crossed, NEW q \in Peers, IsKept(q), NEW h \in 1 .. MaxLinks
       PROVE  peer'[q].opened[h] = Cardinality(Of(holds', q, h))
  <2>1. peer[q].opened[h] = Cardinality(Of(holds, q, h))
    BY <1>1, <1>21 DEF Counted
  <2>2. Cardinality(Of(holds', q, h))
          = Cardinality(Of(holds, q, h)) - IF o.peer = q /\ o.stamp = h THEN 1 ELSE 0
    <3>1. PICK H : H = holds \ {o}
      OBVIOUS
    <3>2. Cardinality(Of(H, q, h))
            = Cardinality(Of(holds, q, h)) - IF o.peer = q /\ o.stamp = h THEN 1 ELSE 0
      BY <1>4, <3>1, OneLess
    <3>3. holds' = H
      BY <1>2, <3>1
    <3> QED BY <3>2, <3>3
  <2>3. CASE o.peer = q /\ o.stamp = h
    <3>1. peer[q].opened[h] > 0
      BY <1>4, <2>1, <2>3, HeldCounts
    <3>2. PICK f \in [Peers -> Names \cup {0}] : OwnerIs(f)
      BY <1>1 DEF OneName
    <3>3. q # 0
      BY DEF Peers
    <3>4. q \in asked
      BY <1>5, <1>20, <1>21, <3>2, <2>3, <3>3 DEF OwnerIs
    <3> QED BY <1>8, <2>1, <2>2, <2>3, <3>1, <3>4
  <2>4. CASE o.stamp = h /\ o.peer # q
    <3>1. PICK s \in [1 .. MaxLinks -> 0 .. MaxPeers] : SourceIs(s)
      BY <1>1 DEF OneSource
    <3> QED BY <1>8, <2>1, <2>2, <2>4, <1>21, <3>1 DEF SourceIs
  <2>5. CASE o.stamp # h
    BY <1>8, <2>1, <2>2, <2>5
  <2> QED BY <2>3, <2>4, <2>5
<1>22. Counted'
  <2> SUFFICES ASSUME ~crossed'
               PROVE  /\ \A p \in Peers : IsKept(p)' => \A g \in 1 .. MaxLinks :
                           peer'[p].opened[g] = Cardinality(Of(holds', p, g))
                      /\ \A x \in holds' : IsKept(x.peer)' \/ x.peer \in dropped'
    BY DEF Counted, Of
  <2>1. ~crossed
    BY <1>2
  <2>2. ASSUME NEW q \in Peers, IsKept(q)' PROVE IsKept(q)
    BY <1>10, <1>20, <2>2
  <2>3. ASSUME NEW x \in holds' PROVE IsKept(x.peer)' \/ x.peer \in dropped'
    <3>1. x \in holds /\ x.stamp \in 1 .. MaxLinks /\ x.peer \in Peers
      BY <1>2, <1>11 DEF Held
    <3>2. PICK q \in Peers : q = x.peer
      BY <3>1
    <3>3. IsKept(q) \/ q \in dropped
      BY <1>1, <2>1, <3>1, <3>2 DEF Counted
    <3>4. CASE IsKept(q)
      <4>1. IsKept(q)'
        BY <1>10, <1>20, <3>4, <3>1, <1>7, <1>11, <1>21, <2>1, <3>2, HeldCounts DEF HoldsAny
      <4> QED BY <3>2, <4>1
    <3> QED BY <1>2, <3>2, <3>3, <3>4
  <2> QED BY <1>21, <2>1, <2>2, <2>3
<1>23. LeavingAreHeld'
  <2>1. ASSUME NEW e \in leaving' PROVE \E h \in 1 .. MaxLinks : peer'[e.peer].opened[h] > 0
    BY <1>7, <1>10, <1>4 DEF HoldsAny, Entries
  <2> QED BY <2>1 DEF LeavingAreHeld, HoldsAny
<1>24. NoneLeft'
  <2>1. ASSUME NEW q \in Peers, peer'[q].up PROVE IsKept(q)'
    <3>1. peer[q].up /\ q \notin Going(leaving, after)
      BY <1>7, <1>9, <2>1
    <3>2. IsKept(q)
      BY <1>1, <3>1 DEF NoneLeft
    <3>3. ASSUME NEW e \in leaving, e.peer = q PROVE e \in leaving'
      BY <1>3, <3>1, <3>3, GoingIs
    <3> QED BY <1>20, <3>2, <3>3
  <2> QED BY <2>1 DEF NoneLeft
<1> QED BY <1>13, <1>14, <1>15, <1>16, <1>17, <1>18, <1>19, <1>22, <1>23, <1>24 DEF PeersInv

-----------------------------------------------------------------------------
LEMMA PeersStep == PeersInv /\ [DescribedNext]_dvars => PeersInv'
<1> SUFFICES ASSUME PeersInv, [DescribedNext]_dvars PROVE PeersInv'
  OBVIOUS
<1>1. ASSUME NEW n \in Names, NEW says \in {"peer", "bad", "none"}, Rewrite(n, says) PROVE PeersInv'
  BY <1>1, RewriteKeeps
<1>2. ASSUME NEW p \in Peers, LinkDies(p) PROVE PeersInv'
  BY <1>2, LinkDiesKeeps
<1>3. ASSUME NEW p \in Peers, DisconnectsOne(p) PROVE PeersInv'
  BY <1>3, DisconnectsOneKeeps
<1>4. CASE ListBegin
  BY <1>4, ListBeginKeeps
<1>5. ASSUME NEW p \in Peers, NEW yes \in BOOLEAN, PeerLists(p, yes) PROVE PeersInv'
  BY <1>5, PeerListsKeeps
<1>6. ASSUME NEW p \in Peers, NEW yes \in BOOLEAN, PeerFails(p, yes) PROVE PeersInv'
  BY <1>6, PeerFailsKeeps
<1>7. CASE ListStore
  BY <1>7, ListStoreKeeps
<1>8. CASE RefreshEnds
  BY <1>8, RefreshEndsKeeps
<1>9. CASE DisconnectBegins
  BY <1>9, IdlingKeeps DEF DisconnectBegins
<1>10. ASSUME NEW c \in lister.todo, NEW opens \in BOOLEAN, OpenOne(c, opens) PROVE PeersInv'
  BY <1>10, OpenOneKeeps
<1>11. ASSUME NEW o \in holds, CloseOne(o) PROVE PeersInv'
  BY <1>11, CloseOneKeeps
<1>12. CASE UNCHANGED dvars
  BY <1>12, IdlingKeeps DEF dvars
<1> QED BY <1>1, <1>2, <1>3, <1>4, <1>5, <1>6, <1>7, <1>8, <1>9, <1>10, <1>11, <1>12 DEF DescribedNext

\* A peer counts exactly what the registry holds of it for as long as the
\* source knows it, the source knows it for as long as something of it is
\* held (unless one opened over another link than its stamp's), one replaced
\* goes with the last library held of it, and no link outlives what is known
\* of its peer, for any number of names, peers, links and libraries
\* (client.rs: Described::list, Listing::let_go, Described::open and close).
THEOREM PeersKept == DescribedInit /\ [][DescribedNext]_dvars => []PeersAreKept
<1>1. DescribedInit => PeersInv
  BY PeersStart
<1>2. PeersInv /\ [DescribedNext]_dvars => PeersInv'
  BY PeersStep
<1>3. PeersInv => PeersAreKept
  BY InvKeeps
<1> QED BY <1>1, <1>2, <1>3, PTL

-----------------------------------------------------------------------------
(* KnownKinds.                                                             *)

\* What holds at first and is handed on holds at every number.
LEMMA HandedOn ==
  ASSUME NEW n \in Nat, NEW S \in SUBSET (0 .. n), 0 \in S,
         \A i \in 1 .. n : i - 1 \in S => i \in S
  PROVE  n \in S
<1> DEFINE Apart == {i \in 0 .. n : i \notin S}
           R == OpToRel(<, Nat)
<1> SUFFICES ASSUME n \notin S PROVE FALSE
  OBVIOUS
<1>1. \A x, y \in Nat : <<y, x>> \in R <=> y < x
  BY DEF OpToRel
<1>2. Apart \subseteq Nat /\ Apart # {}
  <2>1. n \in Apart
    OBVIOUS
  <2> QED BY <2>1
<1>3. PICK x \in Apart : \A y \in Apart : <<y, x>> \notin R
  <2>1. IsWellFoundedOn(R, Nat)
    BY NatLessThanWellFounded
  <2> HIDE DEF R, Apart
  <2> QED BY <1>2, <2>1, WFMin
<1>4. x \in 0 .. n /\ x \notin S
  OBVIOUS
<1>5. x # 0
  BY <1>4
<1>6. x \in 1 .. n
  BY <1>4, <1>5
<1>7. x - 1 \in Apart /\ x - 1 \in Nat /\ x \in Nat /\ x - 1 < x
  BY <1>6, <1>4
<1> HIDE DEF R, Apart
<1> QED BY <1>1, <1>3, <1>7

\* What is known is still known, as it was.
Keeps(f, g) == DOMAIN f \subseteq DOMAIN g /\ \A k \in DOMAIN f : g[k] = f[k]

\* All that a provider's own document says is known.
CoveredBy(p, f) == DOMAIN Own[p] \subseteq DOMAIN f /\ Agree(f, Own[p])
Covered(p) == CoveredBy(p, known)

LEMMA LearnKeeps ==
  ASSUME NEW f, NEW p \in Providers, DOMAIN f \subseteq Kinds
  PROVE  /\ Keeps(f, Learn(f, p).known) /\ DOMAIN Learn(f, p).known \subseteq Kinds
         /\ Learn(f, p).ok => CoveredBy(p, Learn(f, p).known)
         /\ CoveredBy(p, f) => Learn(f, p).ok
<1> DEFINE g == [k \in DOMAIN f \cup DOMAIN Own[p] |-> IF k \in DOMAIN f THEN f[k] ELSE Own[p][k]]
<1>1. DOMAIN g = DOMAIN f \cup DOMAIN Own[p] /\ Keeps(f, g)
  BY DEF Keeps
<1>2. Agree(f, Own[p]) => Agree(g, Own[p])
  BY DEF Agree
<1>3. Keeps(f, f)
  BY DEF Keeps
<1> HIDE DEF g
<1>4. CASE Agree(f, Own[p])
  <2>1. Learn(f, p).ok = TRUE /\ Learn(f, p).known = g
    BY <1>4 DEF Learn, g
  <2>2. CoveredBy(p, g)
    BY <1>1, <1>2, <1>4 DEF CoveredBy
  <2>3. DOMAIN g \subseteq Kinds
    BY KindsAssumption, <1>1
  <2> QED BY <1>1, <2>1, <2>2, <2>3
<1>5. CASE ~Agree(f, Own[p])
  BY <1>3, <1>5 DEF CoveredBy, Learn
<1> QED BY <1>4, <1>5

LEMMA KeepsOn ==
  ASSUME NEW f, NEW g, NEW h, Keeps(f, g), Keeps(g, h)
  PROVE  Keeps(f, h)
BY DEF Keeps

LEMMA KeepsCovered ==
  ASSUME NEW f, NEW g, NEW p, Keeps(f, g), CoveredBy(p, f)
  PROVE  CoveredBy(p, g)
BY DEF Keeps, CoveredBy, Agree

\* One document after another.
LEMMA LearnedOneByOne ==
  ASSUME NEW order, NEW n \in Nat, Cardinality(DOMAIN order) = n
  PROVE  /\ Learned(order)[0] = known
         /\ \A i \in 1 .. n : Learned(order)[i] = Learn(Learned(order)[i - 1], order[i]).known
<1> DEFINE Following(f, i) == Learn(f, order[i]).known
           F(g, m) == [i \in 0 .. m |-> IF i = 0 THEN known ELSE Following(g[i - 1], i)]
           u == CHOOSE g : g = F(g, n)
           S == {m \in 0 .. n : \E g : g = F(g, m)}
<1>1. Learned(order) = u
  BY DEF Learned
<1> HIDE DEF Following
<1>2. 0 \in S
  <2>1. [i \in 0 .. 0 |-> known] = F([i \in 0 .. 0 |-> known], 0)
    OBVIOUS
  <2>2. 0 \in 0 .. n
    OBVIOUS
  <2> QED BY <2>1, <2>2
<1>3. ASSUME NEW m \in 1 .. n, m - 1 \in S PROVE m \in S
  <2>1. PICK g : g = F(g, m - 1)
    BY <1>3
  <2> DEFINE h == [i \in 0 .. m |-> IF i = m THEN Following(g[m - 1], m) ELSE g[i]]
  <2>2. ASSUME NEW i \in 0 .. m PROVE h[i] = IF i = 0 THEN known ELSE Following(h[i - 1], i)
    <3>1. CASE i = 0
      BY <2>1, <3>1
    <3>2. CASE i # 0 /\ i # m
      <4>1. i \in 0 .. m - 1 /\ i - 1 \in 0 .. m /\ i - 1 # m
        BY <3>2
      <4>2. g[i] = Following(g[i - 1], i)
        BY <2>1, <3>2, <4>1
      <4>3. h[i] = g[i] /\ h[i - 1] = g[i - 1]
        BY <3>2, <4>1
      <4> QED BY <3>2, <4>2, <4>3
    <3>3. CASE i = m
      BY <3>3
    <3> QED BY <3>1, <3>2, <3>3
  <2>3. h = F(h, m)
    <3>1. h = [i \in 0 .. m |-> h[i]]
      OBVIOUS
    <3> HIDE DEF h
    <3> QED BY <2>2, <3>1
  <2> HIDE DEF h, F
  <2>4. m \in 0 .. n
    OBVIOUS
  <2> QED BY <2>3, <2>4
<1>4. n \in S
  <2>1. S \in SUBSET (0 .. n)
    OBVIOUS
  <2> HIDE DEF S
  <2> QED BY <1>2, <1>3, <2>1, HandedOn
<1>5. u = F(u, n)
  <2>1. \E g : g = F(g, n)
    BY <1>4
  <2> HIDE DEF F
  <2> QED BY <2>1
<1> HIDE DEF u
<1>6. u[0] = known
  BY <1>5
<1>7. ASSUME NEW i \in 1 .. n PROVE u[i] = Following(u[i - 1], i)
  BY <1>5
<1> QED BY <1>1, <1>6, <1>7 DEF Following

\* Whatever the order, nothing known is lost, and who is served is covered.
LEMMA LearnedKeeps ==
  ASSUME NEW P \in SUBSET Providers, NEW order \in Orders(P), DOMAIN known \subseteq Kinds
  PROVE  /\ Keeps(known, KnownAfter(order)) /\ DOMAIN KnownAfter(order) \subseteq Kinds
         /\ \A p \in ServedIn(order) : p \in Providers /\ CoveredBy(p, KnownAfter(order))
<1>1. PICK n \in Nat : n = Cardinality(P)
  BY KindsAssumption, FS_Subset, FS_CardinalityType
<1>2. order \in [1 .. n -> P] /\ DOMAIN order = 1 .. n
  BY <1>1 DEF Orders
<1>3. Cardinality(DOMAIN order) = n
  BY <1>2, FS_Interval
<1>4. PICK u : u = Learned(order)
  OBVIOUS
<1>5. u[0] = known /\ \A i \in 1 .. n : u[i] = Learn(u[i - 1], order[i]).known
  BY <1>3, <1>4, LearnedOneByOne
<1>6. KnownAfter(order) = u[n]
  BY <1>3, <1>4 DEF KnownAfter
<1>7. \A i \in 1 .. n : order[i] \in Providers
  BY <1>2
<1>8. ASSUME NEW m \in 0 .. n PROVE DOMAIN u[m] \subseteq Kinds
  <2> DEFINE S == {i \in 0 .. m : DOMAIN u[i] \subseteq Kinds}
  <2>1. 0 \in S
    BY <1>5
  <2>2. ASSUME NEW i \in 1 .. m, i - 1 \in S PROVE i \in S
    <3> QED BY <1>5, <1>7, <2>2, LearnKeeps
  <2>3. S \in SUBSET (0 .. m) /\ m \in Nat
    OBVIOUS
  <2> HIDE DEF S
  <2>4. m \in S
    BY <2>1, <2>2, <2>3, HandedOn
  <2> QED BY <2>4 DEF S
<1>9. ASSUME NEW i \in 1 .. n
      PROVE  /\ Keeps(u[i - 1], u[i])
             /\ Learn(u[i - 1], order[i]).ok => CoveredBy(order[i], u[i])
  <2>1. PICK f, p : f = u[i - 1] /\ p = order[i] /\ p \in Providers /\ DOMAIN f \subseteq Kinds
    BY <1>7, <1>8
  <2>2. Keeps(f, Learn(f, p).known) /\ (Learn(f, p).ok => CoveredBy(p, Learn(f, p).known))
    BY <2>1, LearnKeeps
  <2>3. u[i] = Learn(f, p).known
    BY <1>5, <2>1
  <2> QED BY <2>1, <2>2, <2>3
<1>10. ASSUME NEW j \in 0 .. n PROVE Keeps(u[j], u[n])
  <2> DEFINE S == {i \in 0 .. n : i >= j => Keeps(u[j], u[i])}
  <2>1. Keeps(u[j], u[j])
    BY DEF Keeps
  <2>2. 0 \in S
    BY <2>1
  <2>3. ASSUME NEW i \in 1 .. n, i - 1 \in S PROVE i \in S
    <3>1. i \in 0 .. n /\ Keeps(u[i - 1], u[i])
      BY <1>9
    <3>2. CASE i = j
      BY <2>1, <3>1, <3>2
    <3>3. CASE i # j
      <4> QED BY <3>1, <2>3, <3>3, KeepsOn
    <3> QED BY <3>2, <3>3
  <2>4. S \in SUBSET (0 .. n)
    OBVIOUS
  <2> HIDE DEF S
  <2>5. n \in S
    BY <2>2, <2>3, <2>4, HandedOn
  <2>6. n >= j
    OBVIOUS
  <2> QED BY <2>5, <2>6 DEF S
<1>11. Keeps(known, u[n]) /\ DOMAIN u[n] \subseteq Kinds
  BY <1>5, <1>8, <1>10
<1>12. ASSUME NEW p \in ServedIn(order) PROVE p \in Providers /\ CoveredBy(p, u[n])
  <2>1. PICK i \in 1 .. n : p = order[i] /\ Learn(u[i - 1], order[i]).ok
    BY <1>2, <1>4 DEF ServedIn
  <2>2. CoveredBy(p, u[i])
    BY <1>9, <2>1
  <2>3. i \in 0 .. n
    OBVIOUS
  <2>4. Keeps(u[i], u[n])
    BY <1>10, <2>3
  <2> QED BY <1>7, <2>1, <2>2, <2>4, KeepsCovered
<1> QED BY <1>6, <1>11, <1>12

-----------------------------------------------------------------------------
\* What requests are.
Tablings == UNION {[S -> SUBSET Kinds] : S \in SUBSET Providers}
RequestIs == [pc : {"idle", "give", "given"}, op : {"list", "open"}, of : SUBSET Providers,
         tables : Tablings, kinds : SUBSET Kinds, promised : SUBSET Kinds]

\* A provider's tables are of kinds it serves; it has some once all it says of
\* kinds is known.
TableIs(p, table, kinds, f) == table \subseteq Serves[p] \cap kinds /\ (table # {} => CoveredBy(p, f))

\* What a request will answer was known when it looked, is still, and was given
\* to the link before it answers; an OPEN has all that was promised.
AskIs(q, f, had) ==
  /\ DOMAIN q.tables = q.of /\ q.kinds \subseteq DOMAIN f
  /\ \A p \in q.of : TableIs(p, q.tables[p], q.kinds, f)
  /\ q.pc = "given" => q.kinds \subseteq had
  /\ q.op = "open" => \A p \in q.of : q.promised \subseteq q.tables[p]

KindsInv ==
  /\ registered \subseteq Providers /\ linkKinds \subseteq DOMAIN known /\ DOMAIN known \subseteq Kinds
  /\ request \in [Requests -> RequestIs] /\ listed \in [Providers -> SUBSET Kinds]
  /\ \A p \in Providers : TableIs(p, listed[p], linkKinds, known)
  /\ \A r \in Requests : AskIs(request[r], known, linkKinds)

LEMMA TableStays ==
  ASSUME NEW p, NEW table, NEW kinds, NEW more, NEW f, NEW g, TableIs(p, table, kinds, f),
         Keeps(f, g), kinds \subseteq more
  PROVE  TableIs(p, table, more, g)
BY KeepsCovered DEF TableIs

LEMMA AskStays ==
  ASSUME NEW q \in RequestIs, NEW f, NEW g, NEW had, NEW more, AskIs(q, f, had), Keeps(f, g),
         had \subseteq more
  PROVE  AskIs(q, g, more)
<1>1. q.kinds \subseteq DOMAIN g
  BY DEF AskIs, Keeps
<1>2. ASSUME NEW p \in q.of PROVE TableIs(p, q.tables[p], q.kinds, g)
  BY TableStays DEF AskIs
<1> QED BY <1>1, <1>2 DEF AskIs

\* What a request finds is known is kept for the rest.
LEMMA RequestLooks ==
  ASSUME KindsInv, NEW r \in Requests, NEW q \in RequestIs, NEW g, known' = g,
         request' = [request EXCEPT ![r] = q], UNCHANGED <<registered, linkKinds, listed>>,
         Keeps(known, g), DOMAIN g \subseteq Kinds, AskIs(q, g, linkKinds)
  PROVE  KindsInv'
<1>1. linkKinds \subseteq DOMAIN g
  BY DEF KindsInv, Keeps
<1>2. request' \in [Requests -> RequestIs]
  BY DEF KindsInv
<1>3. ASSUME NEW p \in Providers PROVE TableIs(p, listed[p], linkKinds, g)
  BY TableStays DEF KindsInv
<1>4. ASSUME NEW s \in Requests PROVE AskIs(request'[s], g, linkKinds)
  <2>1. CASE s = r
    BY <2>1 DEF KindsInv
  <2>2. CASE s # r
    BY <2>2, AskStays DEF KindsInv
  <2> QED BY <2>1, <2>2
<1> QED BY <1>1, <1>2, <1>3, <1>4 DEF KindsInv

LEMMA CatalogsKnow ==
  ASSUME KindsInv, NEW r \in Requests, NEW order \in Orders(registered), Catalogs(r, order)
  PROVE  KindsInv'
<1>1. PICK g, served : g = KnownAfter(order) /\ served = ServedIn(order)
  OBVIOUS
<1>2. /\ Keeps(known, g) /\ DOMAIN g \subseteq Kinds
      /\ \A p \in served : p \in Providers /\ CoveredBy(p, g)
  BY <1>1, LearnedKeeps DEF KindsInv
<1>3. PICK q : q = [pc |-> "give", op |-> "list", of |-> served,
                    tables |-> [p \in served |-> Serves[p] \cap DOMAIN g],
                    kinds |-> DOMAIN g, promised |-> {}]
  OBVIOUS
<1>4. /\ known' = g /\ request' = [request EXCEPT ![r] = q]
      /\ UNCHANGED <<registered, linkKinds, listed>>
  BY <1>1, <1>3 DEF Catalogs, Tables
<1>5. q \in RequestIs
  <2> QED BY <1>2, <1>3 DEF RequestIs, Tablings
<1>6. AskIs(q, g, linkKinds)
  <2>1. /\ q.of = served /\ q.tables = [p \in served |-> Serves[p] \cap DOMAIN g]
        /\ q.kinds = DOMAIN g /\ q.pc = "give" /\ q.op = "list"
    BY <1>3
  <2>2. ASSUME NEW p \in served PROVE TableIs(p, q.tables[p], DOMAIN g, g)
    BY <1>2, <2>1 DEF TableIs
  <2> QED BY <2>1, <2>2 DEF AskIs
<1> QED BY <1>2, <1>4, <1>5, <1>6, RequestLooks

LEMMA HoldsKnow ==
  ASSUME KindsInv, NEW r \in Requests, NEW p \in Providers, Holds(r, p)
  PROVE  KindsInv'
<1>1. PICK g, ok : g = Learn(known, p).known /\ ok = Learn(known, p).ok
  OBVIOUS
<1>2. /\ Keeps(known, g) /\ DOMAIN g \subseteq Kinds
      /\ ok => CoveredBy(p, g)
      /\ CoveredBy(p, known) => ok
  BY <1>1, LearnKeeps DEF KindsInv
<1>3. ok \in BOOLEAN
  BY <1>1 DEF Learn
<1>4. listed[p] # {} /\ TableIs(p, listed[p], linkKinds, known)
  BY DEF Holds, KindsInv
<1>5. ok
  BY <1>2, <1>4 DEF TableIs
<1>6. PICK table : table = Serves[p] \cap DOMAIN g
  OBVIOUS
<1>7. PICK q : q = [pc |-> "give", op |-> "open", of |-> {p}, tables |-> [x \in {p} |-> table],
                    kinds |-> DOMAIN g, promised |-> listed[p]]
  OBVIOUS
<1>8. /\ known' = g /\ request' = [request EXCEPT ![r] = q]
      /\ UNCHANGED <<registered, linkKinds, listed>>
  BY <1>1, <1>7, <1>6, <1>5 DEF Holds, Tables
<1>9. listed[p] \subseteq table /\ listed[p] \in SUBSET Kinds /\ table \in SUBSET Kinds
  BY <1>2, <1>6, <1>4 DEF TableIs, KindsInv, Keeps
<1>10. q \in RequestIs
  BY <1>2, <1>7, <1>9 DEF RequestIs, Tablings
<1>11. AskIs(q, g, linkKinds)
  BY <1>9, <1>7, <1>2, <1>5, <1>6 DEF AskIs, TableIs
<1> QED BY <1>2, <1>8, <1>10, <1>11, RequestLooks

LEMMA GivesKnow ==
  ASSUME KindsInv, NEW r \in Requests, GiveKinds(r)
  PROVE  KindsInv'
<1>1. /\ linkKinds' = DOMAIN known /\ request' = [request EXCEPT ![r] = [request[r] EXCEPT !.pc = "given"]]
      /\ UNCHANGED <<registered, known, listed>>
  BY DEF GiveKinds, Given
<1>2. linkKinds \subseteq DOMAIN known /\ Keeps(known, known)
  BY DEF KindsInv, Keeps
<1>3. PICK q : q = [request[r] EXCEPT !.pc = "given"]
  OBVIOUS
<1>4. request[r] \in RequestIs /\ AskIs(request[r], known, linkKinds)
  BY DEF KindsInv
<1>5. /\ q \in RequestIs /\ q.of = request[r].of /\ q.tables = request[r].tables /\ q.kinds = request[r].kinds
      /\ q.op = request[r].op /\ q.promised = request[r].promised
  BY <1>3, <1>4 DEF RequestIs
<1>6. request' \in [Requests -> RequestIs] /\ request'[r] = q
  BY <1>1, <1>3, <1>5 DEF KindsInv
<1>7. ASSUME NEW p \in Providers PROVE TableIs(p, listed[p], DOMAIN known, known)
  BY <1>2, TableStays DEF KindsInv
<1>8. ASSUME NEW s \in Requests PROVE AskIs(request'[s], known, DOMAIN known)
  <2>1. CASE s = r
    BY <1>4, <1>5, <1>6, <2>1 DEF AskIs
  <2>2. CASE s # r
    BY <1>2, <1>1, <2>2, AskStays DEF KindsInv
  <2> QED BY <2>1, <2>2
<1> QED BY <1>1, <1>6, <1>7, <1>8 DEF KindsInv

LEMMA NothingAsked == NoRequest \in RequestIs /\ \A f, had : AskIs(NoRequest, f, had)
<1>1. NoRequest \in RequestIs
  BY DEF RequestIs, NoRequest, Tablings
<1>2. \A f, had : AskIs(NoRequest, f, had)
  BY DEF AskIs, NoRequest
<1> QED BY <1>1, <1>2

LEMMA AnswersKnow ==
  ASSUME KindsInv, NEW r \in Requests, Answers(r)
  PROVE  KindsInv'
<1>1. request' = [request EXCEPT ![r] = NoRequest] /\ UNCHANGED <<registered, known, linkKinds>>
  BY DEF Answers
<1>2. request' \in [Requests -> RequestIs]
  BY <1>1, NothingAsked DEF KindsInv
<1>3. ASSUME NEW s \in Requests PROVE AskIs(request'[s], known, linkKinds)
  BY <1>1, NothingAsked DEF KindsInv
<1>4. CASE request[r].op = "open"
  BY <1>1, <1>2, <1>3, <1>4 DEF KindsInv, Answers
<1>5. CASE request[r].op # "open"
  <2>1. listed' = [p \in Providers |-> IF p \in request[r].of THEN request[r].tables[p] ELSE {}]
    BY <1>5 DEF Answers
  <2>2. ASSUME NEW p \in Providers
        PROVE  listed'[p] \in SUBSET Kinds /\ TableIs(p, listed'[p], linkKinds, known)
    <3>1. CASE p \in request[r].of
      <4>1. listed'[p] = request[r].tables[p]
        BY <2>1, <3>1
      <4>2. TableIs(p, request[r].tables[p], linkKinds, known)
        BY <3>1, TableStays DEF AskIs, KindsInv, Answers, Keeps
      <4>3. request[r].tables[p] \subseteq Kinds
        BY <4>2 DEF TableIs, KindsInv
      <4> QED BY <4>1, <4>2, <4>3
    <3>2. CASE p \notin request[r].of
      BY <2>1, <3>2 DEF TableIs
    <3> QED BY <3>1, <3>2
  <2>3. listed' \in [Providers -> SUBSET Kinds]
    BY <2>1, <2>2
  <2> QED BY <1>1, <1>2, <1>3, <2>2, <2>3 DEF KindsInv
<1> QED BY <1>4, <1>5

LEMMA KindsSay == KindsInv => KindsAreKnown
<1> SUFFICES ASSUME KindsInv PROVE KindsAreKnown
  OBVIOUS
<1>1. KnownTypeOK /\ AnsweredIsKnown
  <2>1. ASSUME NEW p \in Providers PROVE listed[p] \subseteq Serves[p] /\ listed[p] \subseteq linkKinds
    BY DEF KindsInv, TableIs
  <2>2. ASSUME NEW r \in Requests, request[r].pc = "given" PROVE request[r].kinds \subseteq linkKinds
    BY <2>2 DEF KindsInv, AskIs
  <2> QED BY <2>1, <2>2 DEF KnownTypeOK, AnsweredIsKnown, KindsInv
<1>2. CalledAsDescribed
  <2> SUFFICES ASSUME NEW r \in Requests, NEW p \in DOMAIN request[r].tables,
                      NEW k \in request[r].tables[p] \cap DOMAIN Own[p]
               PROVE  Own[p][k] = known[k]
    BY DEF CalledAsDescribed
  <2> QED BY DEF CoveredBy, Agree, TableIs, KindsInv, AskIs
<1>3. ListedIsHeld
  BY DEF ListedIsHeld, KindsInv, AskIs
<1> QED BY <1>1, <1>2, <1>3 DEF KindsAreKnown

\* However requests run at once and libraries come and go: what is answered is
\* known to the link, no provider is served through a shape it does not agree
\* with, and a library opens with all that a list had promised of it (learn,
\* kinds_for, catalog, hold and give_kinds of server.rs).
THEOREM KindsKnown == KnownInit /\ [][KnownNext]_kvars => []KindsAreKnown
<1>1. KnownInit => KindsInv
  <2> SUFFICES ASSUME KnownInit PROVE KindsInv
    OBVIOUS
  <2>1. DOMAIN known = {} /\ linkKinds = {} /\ registered = {}
    BY DEF KnownInit
  <2>2. request \in [Requests -> RequestIs] /\ \A r \in Requests : AskIs(request[r], known, linkKinds)
    BY NothingAsked DEF KnownInit
  <2>3. listed \in [Providers -> SUBSET Kinds] /\ \A p \in Providers : listed[p] = {}
    BY DEF KnownInit
  <2>4. ASSUME NEW p \in Providers PROVE TableIs(p, listed[p], linkKinds, known)
    BY <2>3 DEF TableIs
  <2> QED BY <2>1, <2>2, <2>3, <2>4 DEF KindsInv
<1>2. KindsInv /\ [KnownNext]_kvars => KindsInv'
  <2> SUFFICES ASSUME KindsInv, [KnownNext]_kvars PROVE KindsInv'
    OBVIOUS
  <2>1. ASSUME NEW p \in Providers, Load(p) \/ Retire(p) PROVE KindsInv'
    BY <2>1 DEF Load, Retire, KindsInv
  <2>2. ASSUME NEW r \in Requests, NEW order \in Orders(registered), Catalogs(r, order) PROVE KindsInv'
    BY <2>2, CatalogsKnow
  <2>3. ASSUME NEW r \in Requests, NEW p \in Providers, Holds(r, p) PROVE KindsInv'
    BY <2>3, HoldsKnow
  <2>4. ASSUME NEW r \in Requests, GiveKinds(r) PROVE KindsInv'
    BY <2>4, GivesKnow
  <2>5. ASSUME NEW r \in Requests, Answers(r) PROVE KindsInv'
    BY <2>5, AnswersKnow
  <2>6. CASE UNCHANGED kvars
    BY <2>6 DEF kvars, KindsInv
  <2> QED BY <2>1, <2>2, <2>3, <2>4, <2>5, <2>6 DEF KnownNext
<1>3. KindsInv => KindsAreKnown
  BY KindsSay
<1> QED BY <1>1, <1>2, <1>3, PTL

-----------------------------------------------------------------------------
(* Buffers.                                                                *)

LEMMA SumIs ==
  ASSUME NEW f, NEW n \in Nat, NEW r \in [Nat -> Nat], r[0] = 0,
         \A i \in 1 .. n : f[i] \in Nat /\ r[i] = r[i - 1] + f[i]
  PROVE  SumOf(f, n) = r[n]
<1> DEFINE F(g) == [i \in 0 .. n |-> IF i = 0 THEN 0 ELSE f[i] + g[i - 1]]
           w == [i \in 0 .. n |-> r[i]]
           g == CHOOSE g : g = F(g)
<1>1. w = F(w)
  <2>1. \A i \in 0 .. n : w[i] = IF i = 0 THEN 0 ELSE f[i] + w[i - 1]
    <3> TAKE i \in 0 .. n
    <3>1. CASE i = 0
      BY <3>1
    <3>2. CASE i # 0
      <4>1. i \in 1 .. n /\ i - 1 \in 0 .. n
        BY <3>2
      <4>2. w[i] = r[i] /\ w[i - 1] = r[i - 1]
        BY <4>1
      <4>3. r[i] = r[i - 1] + f[i] /\ f[i] \in Nat /\ r[i - 1] \in Nat
        BY <4>1
      <4> HIDE DEF w
      <4> QED BY <3>2, <4>2, <4>3
    <3> QED BY <3>1, <3>2
  <2> QED BY <2>1
<1>2. g = F(g)
  <2> HIDE DEF w, F
  <2> QED BY <1>1
<1> HIDE DEF g
<1> DEFINE S == {i \in 0 .. n : g[i] = w[i]}
<1>3. 0 \in S
  BY <1>2
<1>4. \A i \in 1 .. n : i - 1 \in S => i \in S
  <2> TAKE i \in 1 .. n
  <2> HAVE i - 1 \in S
  <2>1. i \in 0 .. n /\ i - 1 \in 0 .. n /\ i # 0
    OBVIOUS
  <2>2. g[i] = f[i] + g[i - 1]
    BY <1>2, <2>1
  <2>3. w[i] = f[i] + w[i - 1]
    BY <1>1, <2>1
  <2> QED BY <2>1, <2>2, <2>3
<1>5. n \in S
  <2>1. S \in SUBSET (0 .. n)
    OBVIOUS
  <2> HIDE DEF S
  <2> QED BY <1>3, <1>4, <2>1, HandedOn
<1>6. SumOf(f, n) = g[n]
  BY DEF SumOf, g
<1> QED BY <1>5, <1>6

\* r is how many bytes so many of the buffers hold.
Sums(bufs, n, r) == r \in [Nat -> Nat] /\ r[0] = 0 /\ \A i \in 1 .. n : r[i] = r[i - 1] + bufs[i]

\* Bytes and count are those of the buffers kept.
Accounts(bufs, bytes, count) ==
  /\ bufs \in Seq(Sizes) /\ count = Len(bufs) /\ bytes <= KEEP_AT_MOST
  /\ \E r : Sums(bufs, Len(bufs), r) /\ bytes = r[Len(bufs)]

\* A closed link keeps no buffer; the one parked goes before its close is done.
Gone ==
  keptClosed => /\ keptBufs = <<>> /\ emptying \in {"idle", "close", "close 2"}
                /\ emptying # "close 2" => parked = 0

BufInv == Accounts(keptBufs, keptBytes, keptCount) /\ Gone

LEMMA NoneKept == Accounts(<<>>, 0, 0)
<1>1. PICK r : r = [i \in Nat |-> 0]
  OBVIOUS
<1>2. Len(<<>>) = 0 /\ <<>> \in Seq(Sizes) /\ 1 .. 0 = {}
  OBVIOUS
<1>3. Sums(<<>>, 0, r) /\ r[0] = 0
  BY <1>1 DEF Sums
<1> QED BY <1>2, <1>3, BuffersAssumption DEF Accounts

LEMMA OneGiven ==
  ASSUME NEW bufs, NEW bytes, NEW count, Accounts(bufs, bytes, count), NEW size \in Sizes,
         bytes + size <= KEEP_AT_MOST
  PROVE  Accounts(Append(bufs, size), bytes + size, Len(bufs) + 1)
<1>1. bufs \in Seq(Sizes) /\ size \in Nat
  BY BuffersAssumption DEF Accounts
<1>2. PICK n \in Nat : n = Len(bufs)
  BY <1>1
<1>3. PICK r : Sums(bufs, n, r) /\ bytes = r[n]
  BY <1>2 DEF Accounts
<1>4. r \in [Nat -> Nat] /\ r[0] = 0 /\ \A i \in 1 .. n : r[i] = r[i - 1] + bufs[i]
  BY <1>3 DEF Sums
<1>5. PICK c : c = Append(bufs, size)
  OBVIOUS
<1>6. c \in Seq(Sizes) /\ Len(c) = n + 1 /\ c[n + 1] = size /\ \A i \in 1 .. n : c[i] = bufs[i]
  BY <1>1, <1>2, <1>5
<1>7. PICK k \in Nat : k = r[n] + size
  BY <1>1, <1>4
<1>8. PICK v : v = [i \in Nat |-> IF i = n + 1 THEN k ELSE r[i]]
  OBVIOUS
<1>9. v \in [Nat -> Nat] /\ v[0] = 0 /\ v[n + 1] = k
  BY <1>4, <1>8
<1>10. ASSUME NEW i \in 1 .. n + 1 PROVE v[i] = v[i - 1] + c[i]
  <2>1. CASE i = n + 1
    <3>1. v[n] = r[n]
      BY <1>8
    <3> QED BY <1>7, <1>6, <1>9, <2>1, <3>1
  <2>2. CASE i # n + 1
    <3>1. i \in 1 .. n /\ i \in Nat /\ i - 1 \in Nat /\ i - 1 # n + 1
      BY <2>2
    <3>2. v[i] = r[i] /\ v[i - 1] = r[i - 1]
      BY <1>8, <2>2, <3>1
    <3>3. c[i] = bufs[i] /\ r[i] = r[i - 1] + bufs[i]
      BY <1>4, <1>6, <3>1
    <3> QED BY <3>2, <3>3
  <2> QED BY <2>1, <2>2
<1>11. Accounts(c, bytes + size, n + 1)
  BY <1>6, <1>9, <1>10, <1>3, <1>7 DEF Accounts, Sums
<1> QED BY <1>2, <1>5, <1>11

LEMMA LastGone ==
  ASSUME NEW bufs, NEW bytes, NEW count, Accounts(bufs, bytes, count), bufs # <<>>
  PROVE  Accounts(Front(bufs), bytes - Last(bufs), Len(bufs) - 1)
<1>1. bufs \in Seq(Sizes) /\ bytes <= KEEP_AT_MOST
  BY DEF Accounts
<1>2. PICK n \in Nat : n + 1 = Len(bufs)
  BY <1>1
<1>3. PICK r : Sums(bufs, n + 1, r) /\ bytes = r[n + 1]
  BY <1>2 DEF Accounts
<1>4. r \in [Nat -> Nat] /\ r[0] = 0 /\ \A i \in 1 .. n + 1 : r[i] = r[i - 1] + bufs[i]
  BY <1>3 DEF Sums
<1>5. PICK c : c = Front(bufs)
  OBVIOUS
<1>6. c \in Seq(Sizes) /\ Len(c) = n /\ \A i \in 1 .. n : c[i] = bufs[i]
  BY <1>1, <1>2, <1>5 DEF Front
<1>7. Last(bufs) = bufs[n + 1] /\ bufs[n + 1] \in Nat /\ r[n] \in Nat
  <2>1. bufs[n + 1] \in Sizes
    BY <1>1, <1>2
  <2>2. Last(bufs) = bufs[n + 1]
    BY <1>2 DEF Last
  <2>3. r[n] \in Nat
    BY <1>4
  <2> QED BY <2>1, <2>2, <2>3, BuffersAssumption
<1>8. r[n + 1] = r[n] + bufs[n + 1]
  BY <1>4
<1>9. bytes - Last(bufs) = r[n] /\ r[n] <= KEEP_AT_MOST
  BY <1>1, <1>3, <1>7, <1>8, BuffersAssumption
<1>10. Sums(c, n, r)
  <2>1. ASSUME NEW i \in 1 .. n PROVE r[i] = r[i - 1] + c[i]
    <3>1. i \in 1 .. n + 1 /\ c[i] = bufs[i]
      BY <1>6, <2>1
    <3> QED BY <1>4, <3>1
  <2> QED BY <1>4, <2>1 DEF Sums
<1>11. Len(bufs) - 1 = n
  BY <1>2
<1>12. Accounts(c, r[n], n)
  BY <1>6, <1>9, <1>10 DEF Accounts
<1> QED BY <1>5, <1>9, <1>11, <1>12

\* A buffer taken is one fewer of those counted.
LEMMA PopsOne ==
  ASSUME BufInv, Popped
  PROVE  /\ Accounts(keptBufs', keptBytes', keptCount')
         /\ keptBufs = <<>> => keptBufs' = <<>>
<1>1. CASE keptBufs = <<>>
  BY <1>1 DEF BufInv, Popped
<1>2. CASE keptBufs # <<>>
  BY <1>2, LastGone DEF Popped, BufInv
<1> QED BY <1>1, <1>2

LEMMA BuffersKeep == BufInv /\ [BuffersNext]_bufvars => BufInv'
<1> SUFFICES ASSUME BufInv, [BuffersNext]_bufvars PROVE BufInv'
  OBVIOUS
<1>1. ASSUME NEW u \in Users, TakeLooks(u) PROVE BufInv'
  BY <1>1 DEF TakeLooks, BufInv, Gone
<1>2. ASSUME NEW u \in Users, TakesBuffer(u) PROVE BufInv'
  BY <1>2, PopsOne DEF TakesBuffer, BufInv, Gone
<1>3. ASSUME NEW size \in Sizes, Gives(size) PROVE BufInv'
  <2>1. CASE Fits(size)
    <3>1. /\ keptBufs' = Append(keptBufs, size) /\ keptBytes' = keptBytes + size
          /\ keptCount' = Len(keptBufs) + 1 /\ UNCHANGED <<keptClosed, emptying, parked>>
      BY <1>3, <2>1 DEF Gives
    <3>2. Accounts(Append(keptBufs, size), keptBytes + size, Len(keptBufs) + 1)
      BY <2>1, OneGiven DEF Fits, BufInv
    <3>3. Gone'
      BY <2>1, <3>1 DEF Fits, Gone
    <3> QED BY <3>1, <3>2, <3>3 DEF BufInv
  <2>2. CASE ~Fits(size)
    BY <1>3, <2>2 DEF Gives, BufInv, Gone
  <2> QED BY <2>1, <2>2
<1>4. CASE RoomTakes
  BY <1>4 DEF RoomTakes, BufInv, Gone
<1>5. CASE HandsOver
  BY <1>5 DEF HandsOver, BufInv, Gone
<1>6. CASE HandTakes
  BY <1>6, PopsOne DEF HandTakes, BufInv, Gone
<1>7. CASE Parks
  BY <1>7 DEF Parks, BufInv, Gone
<1>8. ASSUME NEW how \in {"release", "close"}, Empties(how) PROVE BufInv'
  BY <1>8 DEF Empties, BufInv, Gone
<1>9. CASE EmptiesFirst
  <2>1. DropsKept(1)
    BY <1>9 DEF EmptiesFirst, DropsParked, Order
  <2>2. /\ keptBufs' = <<>> /\ keptBytes' = 0 /\ keptCount' = 0 /\ parked' = parked
        /\ keptClosed' = (keptClosed \/ emptying \in {"close", "close 2"})
    BY <2>1 DEF DropsKept
  <2>3. Gone'
    BY <2>2, <1>9 DEF Gone, BufInv, EmptiesFirst
  <2> QED BY <2>2, <2>3, NoneKept DEF BufInv
<1>10. CASE EmptiesSecond
  <2>1. DropsParked(2)
    BY <1>10 DEF EmptiesSecond, DropsKept, Order
  <2> QED BY <1>10, <2>1 DEF BufInv, Gone, EmptiesSecond, DropsParked
<1>11. CASE UNCHANGED bufvars
  BY <1>11 DEF bufvars, BufInv, Gone
<1> QED BY <1>1, <1>2, <1>3, <1>4, <1>5, <1>6, <1>7, <1>8, <1>9, <1>10, <1>11 DEF BuffersNext

LEMMA BuffersSay == BufInv => BuffersAreCounted
<1> SUFFICES ASSUME BufInv PROVE BuffersAreCounted
  OBVIOUS
<1>1. /\ keptBufs \in Seq(Sizes) /\ keptCount = Len(keptBufs) /\ keptBytes <= KEEP_AT_MOST
  BY DEF BufInv, Accounts
<1>2. PICK n \in Nat : n = Len(keptBufs)
  BY <1>1
<1>3. PICK r : Sums(keptBufs, n, r) /\ keptBytes = r[n]
  BY <1>2 DEF BufInv, Accounts
<1>4. \A i \in 1 .. n : keptBufs[i] \in Nat
  <2>1. ASSUME NEW i \in 1 .. n PROVE keptBufs[i] \in Nat
    <3>1. keptBufs[i] \in Sizes
      BY <1>1, <1>2, <2>1
    <3> QED BY <3>1, BuffersAssumption
  <2> QED BY <2>1
<1>5. SumOf(keptBufs, n) = r[n]
  BY <1>3, <1>4, SumIs DEF Sums
<1> QED BY <1>1, <1>2, <1>3, <1>5 DEF BufInv, Gone, BuffersAreCounted, BytesAreExact, ClosedHoldsNothing

-----------------------------------------------------------------------------
(* How threads wait.                                                       *)

Polls == {w \in Waiters : waiter[w] = "polls"}
Adding == {w \in Waiters : waiter[w] \in {"polls", "back"}}

WaitInv ==
  /\ waiter \in [Waiters -> {"idle", "add", "back", "polls", "sleeps"}]
  /\ polling = Cardinality(Adding) /\ Cardinality(Polls) <= Cores

LEMMA FinitelyMany ==
  ASSUME NEW S \in SUBSET Waiters
  PROVE  IsFiniteSet(S) /\ Cardinality(S) \in Nat
BY WaitingAssumption, FS_Subset, FS_CardinalityType

LEMMA WaitersKeep == WaitInv /\ [WaitingNext]_waitvars => WaitInv'
<1> SUFFICES ASSUME WaitInv, [WaitingNext]_waitvars PROVE WaitInv'
  OBVIOUS
<1>0. IsFiniteSet(Adding) /\ IsFiniteSet(Polls) /\ Cardinality(Adding) \in Nat /\ Cardinality(Polls) \in Nat
  BY FinitelyMany DEF Adding, Polls
<1>1. ASSUME NEW w \in Waiters, PollAsks(w) PROVE WaitInv'
  BY <1>1 DEF PollAsks, WaitInv, Adding, Polls
<1>2. ASSUME NEW w \in Waiters, PollAdds(w) PROVE WaitInv'
  <2>1. /\ waiter' \in [Waiters -> {"idle", "add", "back", "polls", "sleeps"}]
        /\ waiter[w] = "add" /\ polling' = polling + 1
        /\ waiter'[w] = (IF Crowded THEN "back" ELSE "polls")
        /\ \A x \in Waiters : x # w => waiter'[x] = waiter[x]
    BY <1>2 DEF PollAdds, WaitInv
  <2>2. Adding' = Adding \cup {w} /\ w \notin Adding
    BY <2>1 DEF Adding
  <2>3. Cardinality(Adding') = Cardinality(Adding) + 1
    BY <1>0, <2>2, FS_AddElement
  <2>4. Cardinality(Polls') <= Cores
    <3>1. CASE Crowded
      BY <2>1, <3>1 DEF WaitInv, Polls
    <3>2. CASE ~Crowded
      <4>1. polling < Cores
        BY <1>0, <3>2, WaitingAssumption DEF Crowded, WaitInv
      <4>2. Polls' = Polls \cup {w} /\ w \notin Polls /\ Polls \subseteq Adding
        BY <2>1, <3>2 DEF Polls, Adding
      <4>3. Cardinality(Polls') = Cardinality(Polls) + 1
        BY <1>0, <4>2, FS_AddElement
      <4>4. Cardinality(Polls) <= Cardinality(Adding)
        BY <1>0, <4>2, FS_Subset
      <4> QED BY <1>0, <4>1, <4>3, <4>4, WaitingAssumption DEF WaitInv
    <3> QED BY <3>1, <3>2
  <2> QED BY <2>1, <2>3, <2>4 DEF WaitInv
<1>3. ASSUME NEW w \in Waiters, PollTakesBack(w) PROVE WaitInv'
  <2>1. /\ waiter' \in [Waiters -> {"idle", "add", "back", "polls", "sleeps"}]
        /\ waiter[w] = "back" /\ polling' = polling - 1 /\ waiter'[w] = "sleeps"
        /\ \A x \in Waiters : x # w => waiter'[x] = waiter[x]
    BY <1>3 DEF PollTakesBack, WaitInv
  <2>2. Adding' = Adding \ {w} /\ w \in Adding /\ Polls' = Polls
    BY <2>1 DEF Adding, Polls
  <2>3. Cardinality(Adding') = Cardinality(Adding) - 1
    BY <1>0, <2>2, FS_RemoveElement
  <2> QED BY <2>1, <2>2, <2>3 DEF WaitInv
<1>4. ASSUME NEW w \in Waiters, NEW s \in Waited, WaitEnds(w, s) PROVE WaitInv'
  <2>1. /\ waiter' \in [Waiters -> {"idle", "add", "back", "polls", "sleeps"}]
        /\ waiter[w] \in {"polls", "sleeps"} /\ waiter'[w] = "idle"
        /\ polling' = (IF waiter[w] = "polls" THEN polling - 1 ELSE polling)
        /\ \A x \in Waiters : x # w => waiter'[x] = waiter[x]
    BY <1>4 DEF WaitEnds, WaitInv
  <2>2. CASE waiter[w] = "polls"
    <3>1. Adding' = Adding \ {w} /\ w \in Adding /\ Polls' = Polls \ {w} /\ w \in Polls
      BY <2>1, <2>2 DEF Adding, Polls
    <3>2. Cardinality(Adding') = Cardinality(Adding) - 1 /\ Cardinality(Polls') = Cardinality(Polls) - 1
      BY <1>0, <3>1, FS_RemoveElement
    <3> QED BY <1>0, <2>1, <2>2, <3>2, WaitingAssumption DEF WaitInv
  <2>3. CASE waiter[w] # "polls"
    BY <2>1, <2>3 DEF WaitInv, Adding, Polls
  <2> QED BY <2>2, <2>3
<1>5. CASE UNCHANGED waitvars
  BY <1>5 DEF waitvars, WaitInv, Adding, Polls
<1> QED BY <1>1, <1>2, <1>3, <1>4, <1>5 DEF WaitingNext

\* Whatever threads take, give, hand over and wait at once, and however a close
\* falls in with them: the bytes kept stay within the most and are counted, a
\* closed link keeps none, and no more threads poll than there are cores
\* (buffers.rs and waiting.rs, every step of them).
THEOREM SharedBounded ==
  BuffersInit /\ WaitingInit /\ [][BuffersNext]_bufvars /\ [][WaitingNext]_waitvars => []SharedIsBounded
<1>1. BuffersInit => BufInv
  BY NoneKept DEF BuffersInit, BufInv, Gone
<1>2. BufInv /\ [BuffersNext]_bufvars => BufInv'
  BY BuffersKeep
<1>3. BufInv => BuffersAreCounted
  BY BuffersSay
<1>4. WaitingInit => WaitInv
  <2> SUFFICES ASSUME WaitingInit PROVE WaitInv
    OBVIOUS
  <2>1. Adding = {} /\ Polls = {}
    BY DEF WaitingInit, Adding, Polls
  <2>2. Cardinality({}) = 0
    BY FS_EmptySet
  <2> QED BY <2>1, <2>2, WaitingAssumption DEF WaitingInit, WaitInv
<1>5. WaitInv /\ [WaitingNext]_waitvars => WaitInv'
  BY WaitersKeep
<1>6. WaitInv => PollersBounded
  BY DEF WaitInv, PollersBounded, Adding, Polls
<1>7. BuffersAreCounted /\ PollersBounded => SharedIsBounded
  BY DEF SharedIsBounded
<1> QED BY <1>1, <1>2, <1>3, <1>4, <1>5, <1>6, <1>7, PTL

-----------------------------------------------------------------------------
(* Objects entered.                                                        *)

Frames == [lent : Seq(Objects), target : Seq(Objects), i : Nat,
           pc : {"check", "lock", "mark", "args", "run", "drop", "clear"}]
Leaving(c) == c.pc \in {"drop", "clear"}

\* The objects a call has the locks of: as far as it has come in, or has still to go out.
WayOf(c) == IF Leaving(c) THEN Leaves(c) ELSE Enters(c)
HoldsAt(c, j) ==
  IF Leaving(c) THEN j > c.i \/ (j = c.i /\ c.pc = "drop")
  ELSE j < c.i \/ (j = c.i /\ c.pc = "mark")
LocksOf(c) == {WayOf(c)[j] : j \in {n \in 1 .. Len(WayOf(c)) : HoldsAt(c, n)}}
Once(c) ==
  \A a, b \in 1 .. Len(WayOf(c)) :
    HoldsAt(c, a) /\ HoldsAt(c, b) /\ WayOf(c)[a] = WayOf(c)[b] => a = b
CallFits(c) ==
  /\ Len(c.target) <= 1 /\ c.i # 0
  /\ c.pc \in {"check", "lock", "mark"} => c.i <= Len(Enters(c))
  /\ c.pc = "args" => c.i = Len(c.lent) + 1
  /\ c.pc = "run" => c.i = Len(Enters(c)) + 1
  /\ c.pc = "clear" => c.i <= Len(Leaves(c))

\* A thread's calls hold what the thread owns, no object twice, and only the
\* last of them goes on.
CallsHold(t, s, own) ==
  /\ s \in Seq(Frames)
  /\ \A k \in 1 .. Len(s) : CallFits(s[k]) /\ Once(s[k]) /\ (k < Len(s) => s[k].pc = "run")
  /\ \A k \in 1 .. Len(s) : \A o \in LocksOf(s[k]) : own[o] = t
  /\ \A k, m \in 1 .. Len(s) : k # m => LocksOf(s[k]) \cap LocksOf(s[m]) = {}

AtOf(s, pc) == s # <<>> /\ s[Len(s)].pc = pc
Entered(s) == Enters(s[Len(s)])[s[Len(s)].i]
Left(s) == Leaves(s[Len(s)])[s[Len(s)].i]

\* A thread's marks: on what it owns but where one is about to be made or was taken
\* away, and on nothing else but where one was left or is about to be taken.
MarksFit(t, s, own, ins, gone, left) ==
  /\ \A o \in Objects : own[o] = t => ins[o] = t \/ o \in gone \/ (AtOf(s, "mark") /\ Entered(s) = o)
  /\ AtOf(s, "lock") => ins[Entered(s)] # t
  /\ AtOf(s, "clear") => own[Left(s)] # t
  /\ \A o \in Objects : ins[o] = t => own[o] = t \/ o \in left \/ (AtOf(s, "clear") /\ Left(s) = o)

GuardInv ==
  /\ owner \in [Objects -> PoolThreads \cup {Nobody}]
  /\ inside \in [Objects -> PoolThreads \cup {Nobody}]
  /\ stack \in [PoolThreads -> Seq(Frames)]
  /\ marked \in [PoolThreads -> SUBSET Objects]
  /\ \A t \in PoolThreads : CallsHold(t, stack[t], owner)
  /\ \A t \in PoolThreads : MarksFit(t, stack[t], owner, inside, cleared, marked[t])

\* What a thread enters and leaves.
LEMMA OrderIs ==
  ASSUME NEW c \in Frames, CallFits(c)
  PROVE  /\ Enters(c) \in Seq(Objects) /\ Leaves(c) \in Seq(Objects)
         /\ Len(Enters(c)) = Len(c.lent) + Len(c.target) /\ Len(Leaves(c)) = Len(c.lent) + Len(c.target)
         /\ \A j \in 1 .. Len(c.lent) : Enters(c)[j] = c.lent[j] /\ Leaves(c)[j + Len(c.target)] = c.lent[j]
         /\ \A j \in 1 .. Len(c.target) : Enters(c)[j + Len(c.lent)] = c.target[j] /\ Leaves(c)[j] = c.target[j]
<1>1. c.lent \in Seq(Objects) /\ c.target \in Seq(Objects)
  BY DEF Frames
<1>2. ASSUME NEW a \in Seq(Objects), NEW b \in Seq(Objects)
      PROVE  /\ a \o b \in Seq(Objects) /\ Len(a \o b) = Len(a) + Len(b)
             /\ \A j \in 1 .. Len(a) : (a \o b)[j] = a[j]
             /\ \A j \in 1 .. Len(b) : (a \o b)[j + Len(a)] = b[j]
  OBVIOUS
<1>3. /\ Enters(c) \in Seq(Objects) /\ Len(Enters(c)) = Len(c.lent) + Len(c.target)
      /\ \A j \in 1 .. Len(c.lent) : Enters(c)[j] = c.lent[j]
      /\ \A j \in 1 .. Len(c.target) : Enters(c)[j + Len(c.lent)] = c.target[j]
  BY <1>1, <1>2 DEF Enters
<1>4. /\ Leaves(c) \in Seq(Objects) /\ Len(Leaves(c)) = Len(c.target) + Len(c.lent)
      /\ \A j \in 1 .. Len(c.target) : Leaves(c)[j] = c.target[j]
      /\ \A j \in 1 .. Len(c.lent) : Leaves(c)[j + Len(c.target)] = c.lent[j]
  BY <1>1, <1>2 DEF Leaves
<1>5. Len(c.lent) + Len(c.target) = Len(c.target) + Len(c.lent)
  <2>1. PICK p \in Nat, q \in Nat : p = Len(c.lent) /\ q = Len(c.target)
    BY <1>1
  <2>2. p + q = q + p
    OBVIOUS
  <2> QED BY <2>1, <2>2
<1> QED BY <1>3, <1>4, <1>5

LEMMA HeldAre ==
  ASSUME NEW c \in Frames, CallFits(c)
  PROVE  LocksOf(c) \subseteq Objects
<1>1. PICK f \in Seq(Objects) : f = WayOf(c)
  BY OrderIs DEF WayOf
<1>2. \A j \in 1 .. Len(f) : f[j] \in Objects
  OBVIOUS
<1> QED BY <1>1, <1>2 DEF LocksOf

LEMMA CallsStay ==
  ASSUME NEW t, NEW s, NEW own, NEW own2, CallsHold(t, s, own),
         \A o \in Objects : own[o] = t => own2[o] = t
  PROVE  CallsHold(t, s, own2)
<1>1. \A k \in 1 .. Len(s) : \A o \in LocksOf(s[k]) : own2[o] = t
  <2> SUFFICES ASSUME NEW k \in 1 .. Len(s), NEW o \in LocksOf(s[k]) PROVE own2[o] = t
    OBVIOUS
  <2>1. o \in Objects
    BY HeldAre DEF CallsHold
  <2>2. own[o] = t
    BY DEF CallsHold
  <2> QED BY <2>1, <2>2
<1> QED BY <1>1 DEF CallsHold

LEMMA LastCallIs ==
  ASSUME NEW s \in Seq(Frames), s # <<>>
  PROVE  \E n \in Nat : /\ Len(s) = n + 1 /\ Front(s) \in Seq(Frames) /\ Len(Front(s)) = n
                        /\ \A k \in 1 .. n : Front(s)[k] = s[k]
                        /\ Last(s) = s[n + 1] /\ s[n + 1] \in Frames
<1>1. Len(s) \in Nat /\ Len(s) # 0
  OBVIOUS
<1>2. PICK n \in Nat : n = Len(s) - 1
  BY <1>1
<1>3. Len(s) = n + 1
  BY <1>1, <1>2
<1>4. Front(s) = [k \in 1 .. n |-> s[k]]
  BY <1>3 DEF Front
<1>5. Front(s) \in Seq(Frames) /\ Len(Front(s)) = n
  BY <1>4, <1>3
<1>6. s[n + 1] \in Frames /\ Last(s) = s[n + 1]
  BY <1>3 DEF Last
<1> QED BY <1>3, <1>4, <1>5, <1>6

\* The last call goes on.
LEMMA CallGoesOn ==
  ASSUME NEW t, NEW s, NEW own, NEW own2, NEW c \in Frames, CallsHold(t, s, own), s # <<>>,
         CallFits(c), Once(c), \A o \in LocksOf(c) : own2[o] = t /\ (o \in LocksOf(Last(s)) \/ own[o] # t),
         \A o \in Objects : own[o] = t /\ o \notin LocksOf(Last(s)) => own2[o] = t
  PROVE  /\ CallsHold(t, Append(Front(s), c), own2) /\ Append(Front(s), c) # <<>>
         /\ Append(Front(s), c)[Len(Append(Front(s), c))] = c
<1>1. s \in Seq(Frames)
  BY DEF CallsHold
<1>2. PICK n \in Nat : /\ Len(s) = n + 1 /\ Front(s) \in Seq(Frames) /\ Len(Front(s)) = n
                       /\ \A k \in 1 .. n : Front(s)[k] = s[k]
                       /\ Last(s) = s[n + 1] /\ s[n + 1] \in Frames
  BY <1>1, LastCallIs
<1>3. PICK v : v = Append(Front(s), c)
  OBVIOUS
<1>4. v \in Seq(Frames) /\ Len(v) = n + 1 /\ v[n + 1] = c /\ \A k \in 1 .. n : v[k] = s[k]
  BY <1>2, <1>3
<1>5. \A k \in 1 .. n + 1 : CallFits(v[k]) /\ Once(v[k]) /\ (k < n + 1 => v[k].pc = "run")
  <2> TAKE k \in 1 .. n + 1
  <2>1. CASE k = n + 1
    BY <1>4, <2>1
  <2>2. CASE k # n + 1
    BY <1>4, <1>2, <2>2 DEF CallsHold
  <2> QED BY <2>1, <2>2
<1>6. ASSUME NEW k \in 1 .. n PROVE \A o \in LocksOf(s[k]) : own[o] = t /\ own2[o] = t /\ o \notin LocksOf(c)
  <2>1. k \in 1 .. Len(s) /\ n + 1 \in 1 .. Len(s) /\ k # n + 1
    BY <1>2
  <2>2. LocksOf(s[k]) \cap LocksOf(Last(s)) = {} /\ \A o \in LocksOf(s[k]) : own[o] = t
    BY <1>2, <2>1 DEF CallsHold
  <2>3. LocksOf(s[k]) \subseteq Objects
    BY <1>1, <2>1, HeldAre DEF CallsHold
  <2> QED BY <2>2, <2>3
<1>7. \A k \in 1 .. n + 1 : \A o \in LocksOf(v[k]) : own2[o] = t
  <2> TAKE k \in 1 .. n + 1
  <2>1. CASE k = n + 1
    BY <1>4, <2>1
  <2>2. CASE k # n + 1
    <3>1. k \in 1 .. n
      BY <2>2
    <3> QED BY <1>4, <1>6, <3>1
  <2> QED BY <2>1, <2>2
<1>8. \A k, m \in 1 .. n + 1 : k # m => LocksOf(v[k]) \cap LocksOf(v[m]) = {}
  <2> SUFFICES ASSUME NEW k \in 1 .. n + 1, NEW m \in 1 .. n + 1, k # m PROVE LocksOf(v[k]) \cap LocksOf(v[m]) = {}
    OBVIOUS
  <2>1. CASE k = n + 1
    BY <1>4, <1>6, <2>1
  <2>2. CASE m = n + 1
    BY <1>4, <1>6, <2>2
  <2>3. CASE k # n + 1 /\ m # n + 1
    BY <1>4, <1>2, <2>3 DEF CallsHold
  <2> QED BY <2>1, <2>2, <2>3
<1>9. CallsHold(t, v, own2)
  BY <1>4, <1>5, <1>7, <1>8 DEF CallsHold
<1> QED BY <1>3, <1>4, <1>9

\* The last call is over.
LEMMA CallIsOver ==
  ASSUME NEW t, NEW s, NEW own, NEW own2, CallsHold(t, s, own), s # <<>>,
         \A o \in Objects : own[o] = t /\ o \notin LocksOf(Last(s)) => own2[o] = t
  PROVE  CallsHold(t, Front(s), own2) /\ \A pc \in {"check", "lock", "mark", "clear"} : ~AtOf(Front(s), pc)
<1>1. s \in Seq(Frames)
  BY DEF CallsHold
<1>2. PICK n \in Nat : /\ Len(s) = n + 1 /\ Front(s) \in Seq(Frames) /\ Len(Front(s)) = n
                       /\ \A k \in 1 .. n : Front(s)[k] = s[k]
                       /\ Last(s) = s[n + 1] /\ s[n + 1] \in Frames
  BY <1>1, LastCallIs
<1>3. PICK v : v = Front(s)
  OBVIOUS
<1>4. v \in Seq(Frames) /\ Len(v) = n /\ \A k \in 1 .. n : v[k] = s[k]
  BY <1>2, <1>3
<1>5. \A k \in 1 .. n : k \in 1 .. Len(s) /\ k < Len(s) /\ k # n + 1
  BY <1>2
<1>6. \A k \in 1 .. n : CallFits(v[k]) /\ Once(v[k]) /\ v[k].pc = "run"
  BY <1>4, <1>5 DEF CallsHold
<1>7. \A k \in 1 .. n : \A o \in LocksOf(v[k]) : own2[o] = t
  <2> SUFFICES ASSUME NEW k \in 1 .. n, NEW o \in LocksOf(v[k]) PROVE own2[o] = t
    OBVIOUS
  <2>1. LocksOf(s[k]) \cap LocksOf(s[n + 1]) = {} /\ own[o] = t
    BY <1>4, <1>5, <1>2 DEF CallsHold
  <2>2. o \in Objects
    BY <1>4, <1>1, <1>5, HeldAre DEF CallsHold
  <2> QED BY <1>2, <1>4, <2>1, <2>2
<1>8. CallsHold(t, v, own2)
  BY <1>4, <1>6, <1>7, <1>5 DEF CallsHold
<1>9. v # <<>> => v[Len(v)].pc = "run"
  <2> SUFFICES ASSUME v # <<>> PROVE v[Len(v)].pc = "run"
    OBVIOUS
  <2>1. n # 0
    BY <1>4
  <2>2. n \in 1 .. n
    BY <2>1
  <2> QED BY <1>4, <1>6, <2>2
<1> QED BY <1>3, <1>8, <1>9 DEF AtOf

\* A call begins.
LEMMA CallBegins ==
  ASSUME NEW t, NEW s, NEW own, NEW c \in Frames, CallsHold(t, s, own),
         s = <<>> \/ s[Len(s)].pc = "run", CallFits(c), Once(c), LocksOf(c) = {}
  PROVE  CallsHold(t, Append(s, c), own) /\ Append(s, c) # <<>> /\ Append(s, c)[Len(Append(s, c))] = c
<1>1. s \in Seq(Frames)
  BY DEF CallsHold
<1>2. PICK n \in Nat : n = Len(s)
  BY <1>1
<1>3. PICK v : v = Append(s, c)
  OBVIOUS
<1>4. v \in Seq(Frames) /\ Len(v) = n + 1 /\ v[n + 1] = c /\ \A k \in 1 .. n : v[k] = s[k]
  BY <1>1, <1>2, <1>3
<1>5. \A k \in 1 .. n : s[k].pc = "run"
  <2> TAKE k \in 1 .. n
  <2>1. CASE k = n
    <3>1. s # <<>>
      BY <1>2
    <3> QED BY <1>2, <2>1, <3>1
  <2>2. CASE k # n
    BY <1>2, <2>2 DEF CallsHold
  <2> QED BY <2>1, <2>2
<1>6. \A k \in 1 .. n + 1 : CallFits(v[k]) /\ Once(v[k]) /\ (k < n + 1 => v[k].pc = "run")
                            /\ \A o \in LocksOf(v[k]) : own[o] = t
  <2> TAKE k \in 1 .. n + 1
  <2>1. CASE k = n + 1
    BY <1>4, <2>1
  <2>2. CASE k # n + 1
    BY <1>4, <1>5, <1>2, <2>2 DEF CallsHold
  <2> QED BY <2>1, <2>2
<1>7. \A k, m \in 1 .. n + 1 : k # m => LocksOf(v[k]) \cap LocksOf(v[m]) = {}
  <2> SUFFICES ASSUME NEW k \in 1 .. n + 1, NEW m \in 1 .. n + 1, k # m PROVE LocksOf(v[k]) \cap LocksOf(v[m]) = {}
    OBVIOUS
  <2>1. CASE k = n + 1 \/ m = n + 1
    BY <1>4, <2>1
  <2>2. CASE k # n + 1 /\ m # n + 1
    <3>1. k \in 1 .. n /\ m \in 1 .. n /\ k \in 1 .. Len(s) /\ m \in 1 .. Len(s)
      BY <1>2, <2>2
    <3> QED BY <1>4, <3>1 DEF CallsHold
  <2> QED BY <2>1, <2>2
<1>8. CallsHold(t, v, own)
  BY <1>4, <1>6, <1>7 DEF CallsHold
<1> QED BY <1>3, <1>4, <1>8

\* What a thread's last call is about.
LEMMA TopIs ==
  ASSUME NEW t, NEW s, NEW own, CallsHold(t, s, own), s # <<>>
  PROVE  /\ s[Len(s)] \in Frames /\ Last(s) = s[Len(s)] /\ CallFits(s[Len(s)]) /\ Once(s[Len(s)])
         /\ \A o \in LocksOf(s[Len(s)]) : own[o] = t
<1>1. s \in Seq(Frames)
  BY DEF CallsHold
<1>2. Len(s) \in 1 .. Len(s)
  BY <1>1
<1>3. s[Len(s)] \in Frames
  BY <1>1, <1>2
<1>4. Last(s) = s[Len(s)]
  BY DEF Last
<1> QED BY <1>2, <1>3, <1>4 DEF CallsHold

LEMMA EnteredIs ==
  ASSUME NEW t, NEW s, NEW own, CallsHold(t, s, own)
  PROVE  /\ AtOf(s, "check") \/ AtOf(s, "lock") \/ AtOf(s, "mark") => Entered(s) \in Objects
         /\ AtOf(s, "clear") => Left(s) \in Objects
<1> SUFFICES ASSUME s # <<>>
             PROVE  /\ s[Len(s)].pc \in {"check", "lock", "mark"} => Entered(s) \in Objects
                    /\ s[Len(s)].pc = "clear" => Left(s) \in Objects
  BY DEF AtOf
<1>1. PICK c : c = s[Len(s)]
  OBVIOUS
<1>2. c \in Frames /\ CallFits(c)
  BY <1>1, TopIs
<1>3. Enters(c) \in Seq(Objects) /\ Leaves(c) \in Seq(Objects)
  BY <1>2, OrderIs
<1>4. c.i \in Nat /\ c.i # 0
  BY <1>2 DEF Frames, CallFits
<1>5. c.pc \in {"check", "lock", "mark"} => c.i \in 1 .. Len(Enters(c))
  BY <1>2, <1>3, <1>4 DEF CallFits
<1>6. c.pc = "clear" => c.i \in 1 .. Len(Leaves(c))
  BY <1>2, <1>3, <1>4 DEF CallFits
<1> QED BY <1>1, <1>3, <1>5, <1>6 DEF Entered, Left

\* The others' marks, while one thread steps.
LEMMA OthersFit ==
  ASSUME NEW u, NEW s, NEW own, NEW ins, NEW gone, NEW left, NEW own2, NEW ins2, NEW gone2, NEW left2,
         CallsHold(u, s, own), MarksFit(u, s, own, ins, gone, left),
         \A o \in Objects : own2[o] = u => own[o] = u,
         \A o \in Objects : own[o] = u => own2[o] = u,
         \A o \in Objects : ins2[o] = u => ins[o] = u,
         \A o \in Objects : own[o] = u /\ (ins[o] = u \/ o \in gone) => ins2[o] = u \/ o \in gone2,
         \A o \in Objects : o \in left /\ ins2[o] = u => o \in left2
  PROVE  MarksFit(u, s, own2, ins2, gone2, left2)
<1>1. (AtOf(s, "lock") => Entered(s) \in Objects) /\ (AtOf(s, "clear") => Left(s) \in Objects)
  BY EnteredIs
<1>2. ASSUME NEW o \in Objects, own2[o] = u PROVE ins2[o] = u \/ o \in gone2 \/ (AtOf(s, "mark") /\ Entered(s) = o)
  <2>1. own[o] = u
    BY <1>2
  <2> QED BY <2>1 DEF MarksFit
<1>3. ASSUME AtOf(s, "lock") PROVE ins2[Entered(s)] # u
  BY <1>1, <1>3 DEF MarksFit
<1>4. ASSUME AtOf(s, "clear") PROVE own2[Left(s)] # u
  BY <1>1, <1>4 DEF MarksFit
<1>5. ASSUME NEW o \in Objects, ins2[o] = u PROVE own2[o] = u \/ o \in left2 \/ (AtOf(s, "clear") /\ Left(s) = o)
  <2>1. ins[o] = u
    BY <1>5
  <2> QED BY <1>5, <2>1 DEF MarksFit
<1> QED BY <1>2, <1>3, <1>4, <1>5 DEF MarksFit

\* One thread steps.
Aside(u, own, ins, gone, left) ==
  /\ \A o \in Objects : own[o] = u => owner[o] = u
  /\ \A o \in Objects : owner[o] = u => own[o] = u
  /\ \A o \in Objects : ins[o] = u => inside[o] = u
  /\ \A o \in Objects : owner[o] = u /\ (inside[o] = u \/ o \in cleared) => ins[o] = u \/ o \in gone
  /\ \A o \in Objects : o \in marked[u] /\ ins[o] = u => o \in left

LEMMA ThreadSteps ==
  ASSUME GuardInv, NEW t \in PoolThreads, NEW s \in Seq(Frames),
         NEW own \in [Objects -> PoolThreads \cup {Nobody}], NEW ins \in [Objects -> PoolThreads \cup {Nobody}],
         NEW gone, NEW left \in [PoolThreads -> SUBSET Objects],
         CallsHold(t, s, own), MarksFit(t, s, own, ins, gone, left[t]),
         \A u \in PoolThreads : u # t => Aside(u, own, ins, gone, left[u]),
         stack' = [stack EXCEPT ![t] = s], owner' = own, inside' = ins, cleared' = gone, marked' = left
  PROVE  GuardInv'
<1>1. stack' \in [PoolThreads -> Seq(Frames)] /\ stack'[t] = s
      /\ \A u \in PoolThreads : u # t => stack'[u] = stack[u]
  BY DEF GuardInv
<1>2. ASSUME NEW u \in PoolThreads PROVE CallsHold(u, stack'[u], own)
  <2>1. CASE u = t
    BY <1>1, <2>1
  <2>2. CASE u # t
    <3> QED BY <1>1, <2>2, CallsStay DEF Aside, GuardInv
  <2> QED BY <2>1, <2>2
<1>3. ASSUME NEW u \in PoolThreads PROVE MarksFit(u, stack'[u], own, ins, gone, left[u])
  <2>1. CASE u = t
    BY <1>1, <2>1
  <2>2. CASE u # t
    <3>1. CallsHold(u, stack[u], owner) /\ MarksFit(u, stack[u], owner, inside, cleared, marked[u])
      BY DEF GuardInv
    <3>2. MarksFit(u, stack[u], own, ins, gone, left[u])
      BY <3>1, <2>2, OthersFit DEF Aside
    <3> QED BY <1>1, <2>2, <3>2
  <2> QED BY <2>1, <2>2
<1> QED BY <1>1, <1>2, <1>3 DEF GuardInv

\* A call goes on and holds what it held.
LEMMA MovesOn ==
  ASSUME NEW c \in Frames, NEW d \in Frames, CallFits(c), Once(c), d.lent = c.lent, d.target = c.target,
         \/ c.pc = "check" /\ d.pc = "lock" /\ d.i = c.i
         \/ c.pc = "args" /\ d.pc \in {"check", "run"} /\ d.i = c.i
         \/ c.pc = "mark" /\ d.pc \in {"args", "check", "run"} /\ d.i = c.i + 1
         \/ c.pc = "clear" /\ d.pc = "drop" /\ d.i = c.i + 1
  PROVE  Once(d) /\ LocksOf(d) = LocksOf(c)
<1>1. WayOf(d) = WayOf(c)
  BY DEF WayOf, Leaving, Leaves, Enters
<1>2. c.i \in Nat /\ d.i \in Nat
  BY DEF Frames
<1>3. PICK n \in Nat : n = Len(WayOf(c))
  <2>1. Len(WayOf(c)) \in Nat
    BY OrderIs DEF WayOf
  <2> QED BY <2>1
<1>4. \A j \in 1 .. n : HoldsAt(d, j) <=> HoldsAt(c, j)
  <2> TAKE j \in 1 .. n
  <2>1. CASE c.pc = "check" \/ c.pc = "args"
    BY <2>1 DEF HoldsAt, Leaving
  <2>2. CASE c.pc = "mark"
    BY <2>2, <1>2 DEF HoldsAt, Leaving
  <2>3. CASE c.pc = "clear"
    BY <2>3, <1>2 DEF HoldsAt, Leaving
  <2> QED BY <2>1, <2>2, <2>3
<1>5. {j \in 1 .. n : HoldsAt(d, j)} = {j \in 1 .. n : HoldsAt(c, j)}
  BY <1>4
<1> QED BY <1>1, <1>3, <1>4, <1>5 DEF Once, LocksOf

\* The lock of one more.
LEMMA HoldsMore ==
  ASSUME NEW c \in Frames, NEW d \in Frames, CallFits(c), Once(c), d.lent = c.lent, d.target = c.target,
         c.pc = "lock", d.pc = "mark", d.i = c.i, Enters(c)[c.i] \notin LocksOf(c)
  PROVE  Once(d) /\ LocksOf(d) = LocksOf(c) \cup {Enters(c)[c.i]}
<1>1. Enters(d) = Enters(c)
  BY DEF Enters
<1>a. PICK f : f = Enters(c)
  OBVIOUS
<1>2. PICK n \in Nat, i \in Nat : f = Enters(c) /\ n = Len(f) /\ i = c.i
  <2>1. c.i \in Nat
    BY DEF Frames
  <2>2. f \in Seq(Objects)
    BY <1>a, OrderIs
  <2>3. Len(f) \in Nat
    BY <2>2
  <2> QED BY <1>a, <2>1, <2>3
<1>3. i \in 1 .. n
  BY <1>2 DEF CallFits
<1>4. WayOf(c) = f /\ WayOf(d) = f /\ \A j \in 1 .. n : (HoldsAt(c, j) <=> j < i) /\ (HoldsAt(d, j) <=> j <= i)
  BY <1>1, <1>2 DEF WayOf, Leaving, HoldsAt
<1>5. LocksOf(c) = {f[j] : j \in {m \in 1 .. n : m < i}}
  BY <1>2, <1>4 DEF LocksOf
<1>6. \A j \in 1 .. n : j <= i <=> j < i \/ j = i
  OBVIOUS
<1>7. LocksOf(d) = LocksOf(c) \cup {f[i]}
  BY <1>3, <1>5, <1>2, <1>4, <1>6 DEF LocksOf
<1>8. \A j \in 1 .. n : j < i => f[j] # f[i]
  <2> SUFFICES ASSUME NEW j \in 1 .. n, j < i PROVE f[j] \in LocksOf(c)
    BY <1>2
  <2> QED BY <1>5
<1>9. \A a, b \in 1 .. n : a <= i /\ b <= i /\ f[a] = f[b] => a = b
  BY <1>6, <1>8, <1>2, <1>4 DEF Once
<1> QED BY <1>2, <1>4, <1>7, <1>9 DEF Once

\* The lock of one less.
LEMMA HoldsLess ==
  ASSUME NEW c \in Frames, NEW d \in Frames, CallFits(c), Once(c), d.lent = c.lent, d.target = c.target,
         c.pc = "drop", d.pc = "clear", d.i = c.i, c.i <= Len(Leaves(c))
  PROVE  Once(d) /\ LocksOf(d) = LocksOf(c) \ {Leaves(c)[c.i]} /\ Leaves(c)[c.i] \in LocksOf(c)
<1>1. Leaves(d) = Leaves(c)
  BY DEF Leaves
<1>a. PICK f : f = Leaves(c)
  OBVIOUS
<1>2. PICK n \in Nat, i \in Nat : f = Leaves(c) /\ n = Len(f) /\ i = c.i
  <2>1. c.i \in Nat
    BY DEF Frames
  <2>2. f \in Seq(Objects)
    BY <1>a, OrderIs
  <2>3. Len(f) \in Nat
    BY <2>2
  <2> QED BY <1>a, <2>1, <2>3
<1>3. i \in 1 .. n
  BY <1>2 DEF CallFits
<1>4. WayOf(c) = f /\ WayOf(d) = f /\ \A j \in 1 .. n : (HoldsAt(c, j) <=> j >= i) /\ (HoldsAt(d, j) <=> j > i)
  BY <1>1, <1>2 DEF WayOf, Leaving, HoldsAt
<1>5. \A j \in 1 .. n : j >= i <=> j > i \/ j = i
  OBVIOUS
<1>6. \A a, b \in 1 .. n : a >= i /\ b >= i /\ f[a] = f[b] => a = b
  BY <1>2, <1>4 DEF Once
<1>7. LocksOf(d) = LocksOf(c) \ {f[i]} /\ f[i] \in LocksOf(c)
  BY <1>3, <1>2, <1>4, <1>5, <1>6 DEF LocksOf
<1>8. \A a, b \in 1 .. n : a > i /\ b > i /\ f[a] = f[b] => a = b
  BY <1>5, <1>6
<1> QED BY <1>2, <1>4, <1>7, <1>8 DEF Once

\* A call turns back, all entered or refused at its target.
LEMMA TurnsBack ==
  ASSUME NEW c \in Frames, NEW d \in Frames, CallFits(c), Once(c), d.lent = c.lent, d.target = c.target, d.pc = "drop",
         (c.pc = "run" /\ d.i = 1) \/ (c.pc = "check" /\ c.i > Len(c.lent) /\ d.i = 2)
  PROVE  Once(d) /\ LocksOf(d) = LocksOf(c)
<1>a. PICK f, g : f = Enters(c) /\ g = Leaves(c)
  OBVIOUS
<1>1. PICK n \in Nat, p \in Nat, q \in Nat :
        /\ f = Enters(c) /\ g = Leaves(c) /\ p = Len(c.lent) /\ q = Len(c.target)
        /\ n = Len(f) /\ n = Len(g) /\ n = p + q
  <2>1. Len(Enters(c)) = Len(c.lent) + Len(c.target) /\ Len(Leaves(c)) = Len(c.lent) + Len(c.target)
    BY OrderIs
  <2>2. PICK p \in Nat, q \in Nat : p = Len(c.lent) /\ q = Len(c.target)
    BY DEF Frames
  <2>3. p + q \in Nat
    OBVIOUS
  <2> QED BY <1>a, <2>1, <2>2, <2>3
<1>2. /\ \A j \in 1 .. p : f[j] = g[j + q]
      /\ \A j \in 1 .. q : f[j + p] = g[j]
  <2>1. /\ \A j \in 1 .. Len(c.lent) : Enters(c)[j] = c.lent[j] /\ Leaves(c)[j + Len(c.target)] = c.lent[j]
        /\ \A j \in 1 .. Len(c.target) : Enters(c)[j + Len(c.lent)] = c.target[j] /\ Leaves(c)[j] = c.target[j]
    BY OrderIs
  <2>2. \A j \in 1 .. p : f[j] = g[j + q]
    BY <1>1, <2>1
  <2>3. \A j \in 1 .. q : f[j + p] = g[j]
    BY <1>1, <2>1
  <2> QED BY <2>2, <2>3
<1>3. PICK x \in {0, 1} : /\ d.i = x + 1 /\ (x = 1 => q = 1)
                          /\ \A j \in 1 .. n : HoldsAt(c, j) <=> (x = 1 => j <= p)
  <2>1. CASE c.pc = "run" /\ d.i = 1
    <3>1. c.i = n + 1
      BY <1>1, <2>1 DEF CallFits
    <3> QED BY <2>1, <3>1 DEF HoldsAt, Leaving
  <2>2. CASE c.pc = "check" /\ c.i > Len(c.lent) /\ d.i = 2
    <3>1. c.i \in Nat /\ c.i <= p + q /\ q <= 1 /\ c.i > p
      BY <1>1, <2>2 DEF CallFits, Frames
    <3>2. q = 1 /\ c.i = p + 1
      BY <3>1
    <3>3. \A j \in 1 .. n : HoldsAt(c, j) <=> j <= p
      BY <2>2, <3>2 DEF HoldsAt, Leaving
    <3> QED BY <2>2, <3>2, <3>3
  <2> QED BY <2>1, <2>2
<1>4. q <= 1
  BY <1>1 DEF CallFits
<1>n. n = p + q /\ x \in Nat /\ (x = 0 \/ (x = 1 /\ q = 1))
  BY <1>1, <1>3
<1>5. WayOf(c) = f /\ WayOf(d) = g /\ \A j \in 1 .. n : HoldsAt(d, j) <=> j > x
  <2>1. ~Leaving(c) /\ Leaving(d) /\ d.i = x + 1
    BY <1>3 DEF Leaving
  <2>2. \A j \in 1 .. n : HoldsAt(d, j) <=> j > x
    BY <2>1, <1>n DEF HoldsAt
  <2> QED BY <1>1, <2>1, <2>2 DEF WayOf, Leaves
<1> DEFINE There(a) == IF a <= q THEN a + p ELSE a - q
<1>6. ASSUME NEW a \in 1 .. n, a > x
      PROVE There(a) \in 1 .. n /\ f[There(a)] = g[a] /\ HoldsAt(c, There(a))
  <2>1. CASE a <= q
    BY <2>1, <1>n, <1>4, <1>6, <1>2, <1>3
  <2>2. CASE ~(a <= q)
    <3>1. a - q \in 1 .. p /\ a - q \in 1 .. n /\ (a - q) + q = a
      BY <1>n, <2>2
    <3>2. f[a - q] = g[a]
      BY <1>2, <3>1
    <3>3. HoldsAt(c, a - q)
      BY <1>3, <3>1
    <3> QED BY <2>2, <3>1, <3>2, <3>3
  <2> QED BY <2>1, <2>2
<1>7. ASSUME NEW b \in 1 .. n, HoldsAt(c, b)
      PROVE \E a \in 1 .. n : a > x /\ f[b] = g[a]
  <2>1. CASE b <= p
    BY <1>n, <2>1, <1>2
  <2>2. CASE ~(b <= p)
    <3>1. x = 0
      BY <1>3, <1>7, <2>2
    <3>2. b - p \in 1 .. q /\ b - p \in 1 .. n /\ b - p > x /\ (b - p) + p = b
      BY <1>n, <2>2, <3>1
    <3>3. f[b] = g[b - p]
      BY <1>2, <3>2
    <3> QED BY <3>2, <3>3
  <2> QED BY <2>1, <2>2
<1>8. ASSUME NEW a \in 1 .. n, NEW b \in 1 .. n, a > x, b > x, g[a] = g[b] PROVE a = b
  <2>1. There(a) = There(b)
    <3>1. /\ There(a) \in 1 .. n /\ HoldsAt(c, There(a)) /\ There(b) \in 1 .. n /\ HoldsAt(c, There(b))
          /\ f[There(a)] = f[There(b)]
      BY <1>6, <1>8
    <3> HIDE DEF There
    <3> QED BY <1>1, <1>5, <3>1 DEF Once
  <2> QED BY <1>n, <2>1
<1>9. Once(d)
  BY <1>1, <1>5, <1>8 DEF Once
<1>10. LocksOf(c) \subseteq LocksOf(d)
  <2> SUFFICES ASSUME NEW o \in LocksOf(c) PROVE o \in LocksOf(d)
    OBVIOUS
  <2>1. PICK b \in 1 .. n : HoldsAt(c, b) /\ o = f[b]
    BY <1>1, <1>5 DEF LocksOf
  <2>2. PICK a \in 1 .. n : a > x /\ f[b] = g[a]
    BY <1>7, <2>1
  <2> QED BY <1>1, <1>5, <2>1, <2>2 DEF LocksOf
<1>11. LocksOf(d) \subseteq LocksOf(c)
  <2> SUFFICES ASSUME NEW o \in LocksOf(d) PROVE o \in LocksOf(c)
    OBVIOUS
  <2>1. PICK a \in 1 .. n : HoldsAt(d, a) /\ o = g[a]
    BY <1>1, <1>5 DEF LocksOf
  <2>2. PICK b : b = There(a)
    OBVIOUS
  <2>3. b \in 1 .. n /\ f[b] = g[a] /\ HoldsAt(c, b)
    BY <1>5, <1>6, <2>1, <2>2
  <2> QED BY <1>1, <1>5, <2>1, <2>3 DEF LocksOf
<1> QED BY <1>9, <1>10, <1>11

\* s is a thread's calls and c the last of them, at pc.
TopOf(t, pc, s, c) ==
  /\ s = stack[t] /\ s # <<>> /\ c = Top(t) /\ c = s[Len(s)] /\ c = Last(s) /\ c.pc = pc
  /\ CallsHold(t, s, owner) /\ MarksFit(t, s, owner, inside, cleared, marked[t])
  /\ CallFits(c) /\ Once(c) /\ (\A o \in LocksOf(c) : o \in Objects /\ owner[o] = t)
  /\ \A p : AtOf(s, p) = (p = pc)
  /\ Entered(s) = Awaited(c) /\ Left(s) = Leaves(c)[c.i]

LEMMA TopAt ==
  ASSUME GuardInv, NEW t \in PoolThreads, NEW pc, At(t, pc)
  PROVE  \E s \in Seq(Frames), c \in Frames : TopOf(t, pc, s, c)
<1>1. PICK s : s = stack[t]
  OBVIOUS
<1>2. s \in Seq(Frames) /\ s # <<>> /\ CallsHold(t, s, owner)
      /\ MarksFit(t, s, owner, inside, cleared, marked[t])
  BY <1>1 DEF GuardInv, At
<1>3. PICK c : c = s[Len(s)]
  OBVIOUS
<1>4. c \in Frames /\ CallFits(c) /\ Once(c) /\ c = Last(s) /\ \A o \in LocksOf(c) : owner[o] = t
  BY <1>2, <1>3, TopIs
<1>5. LocksOf(c) \subseteq Objects
  BY <1>4, HeldAre
<1>6. TopOf(t, pc, s, c)
  BY <1>1, <1>2, <1>3, <1>4, <1>5 DEF TopOf, Entered, Left, Awaited, AtOf, Top, At
<1> QED BY <1>2, <1>4, <1>6

\* A call is over, or goes on, and no mark changes.
LEMMA MarksMove ==
  ASSUME NEW t, NEW s, NEW v, NEW own, NEW ins, NEW gone, NEW left, MarksFit(t, s, own, ins, gone, left),
         ~AtOf(s, "mark"), ~AtOf(s, "clear"), ~AtOf(v, "clear"), AtOf(v, "lock") => ins[Entered(v)] # t
  PROVE  MarksFit(t, v, own, ins, gone, left)
BY DEF MarksFit

LEMMA NoMarkMoves ==
  ASSUME GuardInv, NEW t \in PoolThreads, NEW v \in Seq(Frames), CallsHold(t, v, owner),
         MarksFit(t, v, owner, inside, cleared, marked[t]), stack' = [stack EXCEPT ![t] = v],
         UNCHANGED <<owner, inside, cleared, marked>>
  PROVE  GuardInv'
<1>1. \A u \in PoolThreads : Aside(u, owner, inside, cleared, marked[u])
  BY DEF Aside
<1>2. /\ owner \in [Objects -> PoolThreads \cup {Nobody}] /\ inside \in [Objects -> PoolThreads \cup {Nobody}]
      /\ marked \in [PoolThreads -> SUBSET Objects]
  BY DEF GuardInv
<1>3. owner' = owner /\ inside' = inside /\ cleared' = cleared /\ marked' = marked
  OBVIOUS
<1> QED BY <1>1, <1>2, <1>3, ThreadSteps

LEMMA GoesOn ==
  ASSUME GuardInv, NEW t \in PoolThreads, NEW pc, At(t, pc), pc \notin {"mark", "clear"},
         NEW d \in Frames, CallFits(d), Once(d), LocksOf(d) = LocksOf(Top(t)), d.pc # "clear",
         d.pc = "lock" => inside[Awaited(d)] # t,
         stack' = With(t, d), UNCHANGED <<owner, inside, cleared, marked>>
  PROVE  GuardInv'
<1>0. PICK s \in Seq(Frames), c \in Frames : TopOf(t, pc, s, c)
  BY TopAt
<1>1. /\ s = stack[t] /\ s # <<>> /\ c = Top(t) /\ c = s[Len(s)] /\ c = Last(s) /\ c.pc = pc
      /\ CallsHold(t, s, owner) /\ MarksFit(t, s, owner, inside, cleared, marked[t])
      /\ CallFits(c) /\ Once(c) /\ (\A o \in LocksOf(c) : o \in Objects /\ owner[o] = t)
      /\ \A p : AtOf(s, p) = (p = pc)
  BY <1>0 DEF TopOf
<1>2. PICK v : v = Append(Front(s), d)
  OBVIOUS
<1>3. CallsHold(t, v, owner) /\ v # <<>> /\ v[Len(v)] = d
  BY <1>1, <1>2, CallGoesOn
<1>4. MarksFit(t, v, owner, inside, cleared, marked[t])
  BY <1>1, <1>3, MarksMove DEF AtOf, Entered, Awaited
<1>5. stack' = [stack EXCEPT ![t] = v]
  BY <1>1, <1>2 DEF With
<1>6. v \in Seq(Frames)
  BY <1>3 DEF CallsHold
<1> QED BY <1>3, <1>4, <1>5, <1>6, NoMarkMoves

LEMMA IsOver ==
  ASSUME GuardInv, NEW t \in PoolThreads, NEW pc, At(t, pc), pc \notin {"mark", "clear"},
         stack' = [stack EXCEPT ![t] = Front(@)], UNCHANGED <<owner, inside, cleared, marked>>
  PROVE  GuardInv'
<1>0. PICK s \in Seq(Frames), c \in Frames : TopOf(t, pc, s, c)
  BY TopAt
<1>1. /\ s = stack[t] /\ s # <<>> /\ c = Top(t) /\ c = s[Len(s)] /\ c = Last(s) /\ c.pc = pc
      /\ CallsHold(t, s, owner) /\ MarksFit(t, s, owner, inside, cleared, marked[t])
      /\ CallFits(c) /\ Once(c) /\ (\A o \in LocksOf(c) : o \in Objects /\ owner[o] = t)
      /\ \A p : AtOf(s, p) = (p = pc)
  BY <1>0 DEF TopOf
<1>2. PICK v : v = Front(s)
  OBVIOUS
<1>3. CallsHold(t, v, owner) /\ \A p \in {"check", "lock", "mark", "clear"} : ~AtOf(v, p)
  BY <1>1, <1>2, CallIsOver
<1>4. MarksFit(t, v, owner, inside, cleared, marked[t])
  BY <1>1, <1>3, MarksMove
<1>5. stack' = [stack EXCEPT ![t] = v]
  BY <1>1, <1>2
<1>6. v \in Seq(Frames)
  BY <1>3 DEF CallsHold
<1> QED BY <1>3, <1>4, <1>5, <1>6, NoMarkMoves

LEMMA BeginKeeps ==
  ASSUME GuardInv, NEW t \in PoolThreads, NEW c \in Calls, Begin(t, c)
  PROVE  GuardInv'
<1>1. PICK d : d = [lent |-> c.lent, target |-> c.target, i |-> 1,
                    pc |-> IF Enters(c) = <<>> THEN "run" ELSE "check"]
  OBVIOUS
<1>2. c.lent \in Seq(Objects) /\ c.target \in Seq(Objects) /\ Len(c.target) <= 1
  BY GuardAssumption
<1>3. d \in Frames
  BY <1>1, <1>2 DEF Frames
<1>4. Enters(d) = Enters(c) /\ Enters(d) \in Seq(Objects)
  <2>1. c.lent \o c.target \in Seq(Objects)
    BY <1>2
  <2> QED BY <1>1, <2>1 DEF Enters
<1>5. CallFits(d)
  BY <1>1, <1>2, <1>4 DEF CallFits
<1>6. PICK s : s = stack[t]
  OBVIOUS
<1>7. CallsHold(t, s, owner) /\ MarksFit(t, s, owner, inside, cleared, marked[t]) /\ s \in Seq(Frames)
  BY <1>6 DEF GuardInv
<1>8. s = <<>> \/ s[Len(s)].pc = "run"
  BY <1>6 DEF Begin, At, Top, Last
<1>9. PICK v : v = Append(s, d)
  OBVIOUS
<1>10. CallsHold(t, v, owner) /\ v # <<>> /\ v[Len(v)] = d
  BY <1>3, <1>5, <1>1, <1>7, <1>8, <1>9, CallBegins DEF Once, LocksOf, HoldsAt, Leaving
<1>11. MarksFit(t, v, owner, inside, cleared, marked[t])
  BY <1>7, <1>1, <1>8, <1>10, MarksMove DEF AtOf
<1>12. stack' = [stack EXCEPT ![t] = v] /\ UNCHANGED <<owner, inside, cleared, marked>>
  BY <1>1, <1>6, <1>9 DEF Begin
<1>13. v \in Seq(Frames)
  BY <1>10 DEF CallsHold
<1> QED BY <1>10, <1>11, <1>12, <1>13, NoMarkMoves

LEMMA GivesUpKeeps ==
  ASSUME GuardInv, NEW t \in PoolThreads, NEW pc \in {"check", "args"}, At(t, pc), NEW n \in Nat,
         n < Top(t).i, n <= Len(Top(t).lent), GivesUp(t, n), UNCHANGED <<inside, cleared>>
  PROVE  GuardInv'
<1>0. PICK s \in Seq(Frames), c \in Frames : TopOf(t, pc, s, c)
  BY TopAt
<1>1. /\ s = stack[t] /\ s # <<>> /\ c = Top(t) /\ c = s[Len(s)] /\ c = Last(s) /\ c.pc = pc
      /\ CallsHold(t, s, owner) /\ MarksFit(t, s, owner, inside, cleared, marked[t])
      /\ CallFits(c) /\ (\A o \in LocksOf(c) : o \in Objects /\ owner[o] = t)
      /\ \A p : AtOf(s, p) = (p = pc)
  BY <1>0 DEF TopOf
<1>2. PICK kept : kept = {c.lent[j] : j \in 1 .. n}
  OBVIOUS
<1>3. \A o \in kept : o \in Objects /\ owner[o] = t /\ o \in LocksOf(c)
  <2> SUFFICES ASSUME NEW o \in kept PROVE o \in LocksOf(c)
    BY <1>1
  <2>1. PICK j \in 1 .. n : o = c.lent[j]
    BY <1>2
  <2>2. PICK p \in Nat, m \in Nat, i \in Nat : p = Len(c.lent) /\ m = Len(Enters(c)) /\ i = c.i /\ p <= m
    <3>1. c.lent \in Seq(Objects) /\ c.target \in Seq(Objects) /\ c.i \in Nat
      BY DEF Frames
    <3>2. PICK p \in Nat, q \in Nat : p = Len(c.lent) /\ q = Len(c.target)
      BY <3>1
    <3>3. Len(Enters(c)) = p + q
      BY <1>1, <3>2, OrderIs
    <3>4. p + q \in Nat /\ p <= p + q
      OBVIOUS
    <3> QED BY <3>1, <3>2, <3>3, <3>4
  <2>3. j \in 1 .. p /\ j \in 1 .. m /\ j < i
    BY <2>2, <1>1
  <2>4. Enters(c)[j] = c.lent[j]
    BY <1>1, <2>2, <2>3, OrderIs
  <2>5. ~Leaving(c) /\ WayOf(c) = Enters(c)
    BY <1>1 DEF Leaving, WayOf
  <2>6. HoldsAt(c, j)
    BY <2>2, <2>3, <2>5 DEF HoldsAt
  <2> QED BY <2>1, <2>2, <2>3, <2>4, <2>5, <2>6 DEF LocksOf
<1>4. PICK own : own = [o \in Objects |-> IF o \in kept THEN Nobody ELSE owner[o]]
  OBVIOUS
<1>5. owner \in [Objects -> PoolThreads \cup {Nobody}] /\ inside \in [Objects -> PoolThreads \cup {Nobody}]
      /\ marked \in [PoolThreads -> SUBSET Objects]
  BY DEF GuardInv
<1>6. own \in [Objects -> PoolThreads \cup {Nobody}]
  BY <1>4, <1>5
<1>7. PICK left : left = [marked EXCEPT ![t] = @ \cup kept]
  OBVIOUS
<1>8. left \in [PoolThreads -> SUBSET Objects] /\ left[t] = marked[t] \cup kept
      /\ \A u \in PoolThreads : u # t => left[u] = marked[u]
  BY <1>3, <1>5, <1>7
<1>9. PICK v : v = Front(s)
  OBVIOUS
<1>10. stack' = [stack EXCEPT ![t] = v] /\ owner' = own /\ marked' = left /\ inside' = inside /\ cleared' = cleared
  BY <1>1, <1>2, <1>4, <1>7, <1>9 DEF GivesUp
<1>11. \A o \in Objects : own[o] = IF o \in kept THEN Nobody ELSE owner[o]
  BY <1>4
<1>12. CallsHold(t, v, own) /\ \A p \in {"check", "lock", "mark", "clear"} : ~AtOf(v, p)
  <2>1. \A o \in Objects : owner[o] = t /\ o \notin LocksOf(Last(s)) => own[o] = t
    BY <1>1, <1>3, <1>11
  <2> QED BY <1>1, <1>9, <2>1, CallIsOver
<1>13. ~AtOf(s, "mark") /\ ~AtOf(s, "clear")
  BY <1>1
<1>14. MarksFit(t, v, own, inside, cleared, left[t])
  <2>1. ASSUME NEW o \in Objects, own[o] = t PROVE inside[o] = t \/ o \in cleared
    <3>1. owner[o] = t
      BY <1>11, <2>1, GuardAssumption
    <3> QED BY <1>1, <1>13, <3>1 DEF MarksFit
  <2>2. ASSUME NEW o \in Objects, inside[o] = t PROVE own[o] = t \/ o \in left[t]
    BY <1>8, <1>11, <1>1, <1>13, <2>2 DEF MarksFit
  <2> QED BY <1>12, <2>1, <2>2 DEF MarksFit
<1>15. ASSUME NEW u \in PoolThreads, u # t PROVE Aside(u, own, inside, cleared, left[u])
  <2>1. \A o \in Objects : own[o] = u => owner[o] = u
    BY <1>11, GuardAssumption
  <2>2. \A o \in Objects : owner[o] = u => own[o] = u
    BY <1>3, <1>11, <1>15
  <2>3. left[u] = marked[u]
    BY <1>8, <1>15
  <2> QED BY <2>1, <2>2, <2>3 DEF Aside
<1>16. v \in Seq(Frames)
  BY <1>12 DEF CallsHold
<1> QED BY <1>5, <1>6, <1>8, <1>10, <1>12, <1>14, <1>15, <1>16, ThreadSteps

LEMMA RefusesKeeps ==
  ASSUME GuardInv, NEW t \in PoolThreads, Refuses(t)
  PROVE  GuardInv'
<1>1. At(t, "check") /\ UNCHANGED <<inside, cleared>>
  BY DEF Refuses
<1>2. PICK s \in Seq(Frames), c \in Frames : TopOf(t, "check", s, c)
  BY <1>1, TopAt
<1>3. c = Top(t) /\ c.pc = "check" /\ CallFits(c) /\ Once(c)
  BY <1>2 DEF TopOf
<1>4. CASE c.i > Len(c.lent)
  <2>1. PICK d : d = [c EXCEPT !.pc = "drop", !.i = 2]
    OBVIOUS
  <2>2. d \in Frames /\ d.lent = c.lent /\ d.target = c.target /\ d.pc = "drop" /\ d.i = 2
    BY <2>1 DEF Frames
  <2>3. Once(d) /\ LocksOf(d) = LocksOf(c)
    BY <1>3, <1>4, <2>2, TurnsBack
  <2>4. CallFits(d)
    BY <1>3, <2>2 DEF CallFits
  <2>5. stack' = With(t, d) /\ UNCHANGED <<owner, inside, cleared, marked>>
    BY <1>3, <1>4, <2>1 DEF Refuses
  <2> QED BY <1>1, <1>3, <2>2, <2>3, <2>4, <2>5, GoesOn
<1>5. CASE ~(c.i > Len(c.lent))
  <2>1. PICK n : n = c.i - 1
    OBVIOUS
  <2>2. n \in Nat /\ n < c.i /\ n <= Len(c.lent)
    BY <1>3, <1>5, <2>1 DEF CallFits, Frames
  <2>3. GivesUp(t, n)
    BY <1>3, <1>5, <2>1 DEF Refuses
  <2> QED BY <1>1, <1>3, <2>2, <2>3, GivesUpKeeps
<1> QED BY <1>4, <1>5

LEMMA ChecksKeeps ==
  ASSUME GuardInv, NEW t \in PoolThreads, Checks(t)
  PROVE  GuardInv'
<1>1. At(t, "check") /\ UNCHANGED <<owner, inside, cleared, marked>> /\ inside[Awaited(Top(t))] # t
  BY DEF Checks, Passes
<1>2. PICK s \in Seq(Frames), c \in Frames : TopOf(t, "check", s, c)
  BY <1>1, TopAt
<1>3. c = Top(t) /\ c.pc = "check" /\ CallFits(c) /\ Once(c)
  BY <1>2 DEF TopOf
<1>4. PICK d : d = [c EXCEPT !.pc = "lock"]
  OBVIOUS
<1>5. d \in Frames /\ d.lent = c.lent /\ d.target = c.target /\ d.pc = "lock" /\ d.i = c.i
  BY <1>4 DEF Frames
<1>6. Once(d) /\ LocksOf(d) = LocksOf(c)
  BY <1>3, <1>5, MovesOn
<1>7. CallFits(d) /\ Awaited(d) = Awaited(c)
  BY <1>3, <1>5 DEF CallFits, Awaited, Enters
<1>8. stack' = With(t, d)
  BY <1>3, <1>4 DEF Checks
<1> QED BY <1>1, <1>3, <1>5, <1>6, <1>7, <1>8, GoesOn

LEMMA ArguesKeeps ==
  ASSUME GuardInv, NEW t \in PoolThreads, Argues(t)
  PROVE  GuardInv'
<1>1. At(t, "args") /\ UNCHANGED <<inside, cleared>>
  BY DEF Argues
<1>2. PICK s \in Seq(Frames), c \in Frames : TopOf(t, "args", s, c)
  BY <1>1, TopAt
<1>3. c = Top(t) /\ c.pc = "args" /\ CallFits(c) /\ Once(c)
  BY <1>2 DEF TopOf
<1>4. c.i \in Nat /\ c.lent \in Seq(Objects) /\ c.target \in Seq(Objects)
  BY DEF Frames
<1>5. PICK p \in Nat, q \in Nat : p = Len(c.lent) /\ q = Len(c.target)
  BY <1>4
<1>6. Len(Enters(c)) = p + q /\ c.i = p + 1
  BY <1>3, <1>5, OrderIs DEF CallFits
<1>7. CASE ToSet(c.lent) \subseteq present
  <2>1. PICK d : d = [c EXCEPT !.pc = IF c.target # <<>> THEN "check" ELSE "run"]
    OBVIOUS
  <2>2. /\ d \in Frames /\ d.lent = c.lent /\ d.target = c.target /\ d.i = c.i
        /\ d.pc = (IF c.target # <<>> THEN "check" ELSE "run")
    BY <2>1 DEF Frames
  <2>3. Once(d) /\ LocksOf(d) = LocksOf(c)
    BY <1>3, <2>2, MovesOn
  <2>4. (c.target # <<>> => q >= 1) /\ (c.target = <<>> => q = 0)
    BY <1>4, <1>5
  <2>5. CallFits(d)
    <3>1. Len(d.target) <= 1 /\ d.i # 0 /\ d.pc \notin {"args", "clear", "lock", "mark"}
      BY <1>3, <2>2 DEF CallFits
    <3>2. d.i = p + 1 /\ Len(Enters(d)) = p + q
      BY <1>6, <2>2 DEF Enters
    <3>3. d.pc = "check" => d.i <= Len(Enters(d))
      BY <2>2, <2>4, <3>2
    <3>4. d.pc = "run" => d.i = Len(Enters(d)) + 1
      BY <2>2, <2>4, <3>2
    <3> QED BY <3>1, <3>3, <3>4 DEF CallFits
  <2>6. stack' = With(t, d) /\ UNCHANGED <<owner, inside, cleared, marked>>
    BY <1>3, <1>7, <2>1 DEF Argues
  <2> QED BY <1>1, <1>3, <2>2, <2>3, <2>5, <2>6, GoesOn
<1>8. CASE ~(ToSet(c.lent) \subseteq present)
  BY <1>1, <1>3, <1>5, <1>8, <1>6, GivesUpKeeps DEF Argues
<1> QED BY <1>7, <1>8

LEMMA RanKeeps ==
  ASSUME GuardInv, NEW t \in PoolThreads, Ran(t)
  PROVE  GuardInv'
<1>1. At(t, "run") /\ UNCHANGED <<owner, inside, cleared, marked>>
  BY DEF Ran
<1>2. PICK s \in Seq(Frames), c \in Frames : TopOf(t, "run", s, c)
  BY <1>1, TopAt
<1>3. c = Top(t) /\ c.pc = "run" /\ CallFits(c) /\ Once(c)
  BY <1>2 DEF TopOf
<1>4. CASE Enters(c) = <<>>
  BY <1>1, <1>3, <1>4, IsOver DEF Ran
<1>5. CASE Enters(c) # <<>>
  <2>1. PICK d : d = [c EXCEPT !.pc = "drop", !.i = 1]
    OBVIOUS
  <2>2. d \in Frames /\ d.lent = c.lent /\ d.target = c.target /\ d.pc = "drop" /\ d.i = 1
    BY <2>1 DEF Frames
  <2>3. Once(d) /\ LocksOf(d) = LocksOf(c)
    BY <1>3, <2>2, TurnsBack
  <2>4. CallFits(d)
    BY <1>3, <2>2 DEF CallFits
  <2>5. stack' = With(t, d)
    BY <1>3, <1>5, <2>1 DEF Ran
  <2> QED BY <1>1, <1>3, <2>2, <2>3, <2>4, <2>5, GoesOn
<1> QED BY <1>4, <1>5

LEMMA LocksKeeps ==
  ASSUME GuardInv, NEW t \in PoolThreads, Locks(t)
  PROVE  GuardInv'
<1>1. At(t, "lock") /\ UNCHANGED <<inside, cleared, marked>>
  BY DEF Locks
<1>2. PICK s \in Seq(Frames), c \in Frames : TopOf(t, "lock", s, c)
  BY <1>1, TopAt
<1>3. /\ s = stack[t] /\ s # <<>> /\ c = Top(t) /\ c = Last(s) /\ c.pc = "lock"
      /\ CallsHold(t, s, owner) /\ MarksFit(t, s, owner, inside, cleared, marked[t])
      /\ CallFits(c) /\ Once(c) /\ (\A o \in LocksOf(c) : o \in Objects /\ owner[o] = t)
      /\ \A p : AtOf(s, p) = (p = "lock")
  BY <1>2 DEF TopOf
<1>4. PICK o : o = Awaited(c)
  OBVIOUS
<1>5. o \in Objects
  <2>1. AtOf(s, "lock") /\ Entered(s) = o
    BY <1>2, <1>4 DEF TopOf
  <2> QED BY <1>3, <2>1, EnteredIs
<1>6. owner[o] = Nobody /\ owner' = [owner EXCEPT ![o] = t]
  BY <1>3, <1>4 DEF Locks
<1>7. owner \in [Objects -> PoolThreads \cup {Nobody}] /\ inside \in [Objects -> PoolThreads \cup {Nobody}]
      /\ marked \in [PoolThreads -> SUBSET Objects]
  BY DEF GuardInv
<1>8. PICK own : own = [owner EXCEPT ![o] = t]
  OBVIOUS
<1>9. own \in [Objects -> PoolThreads \cup {Nobody}] /\ own[o] = t
      /\ \A x \in Objects : x # o => own[x] = owner[x]
  BY <1>5, <1>7, <1>8
<1>10. PICK d : d = [c EXCEPT !.pc = "mark"]
  OBVIOUS
<1>11. d \in Frames /\ d.lent = c.lent /\ d.target = c.target /\ d.pc = "mark" /\ d.i = c.i
  BY <1>10 DEF Frames
<1>12. o \notin LocksOf(c) /\ o = Enters(c)[c.i]
  BY <1>3, <1>4, <1>6, GuardAssumption DEF Awaited
<1>13. Once(d) /\ LocksOf(d) = LocksOf(c) \cup {o}
  BY <1>3, <1>11, <1>12, HoldsMore
<1>14. CallFits(d)
  BY <1>3, <1>11 DEF CallFits, Enters
<1>15. PICK v : v = Append(Front(s), d)
  OBVIOUS
<1>16. CallsHold(t, v, own) /\ v # <<>> /\ v[Len(v)] = d
  <2>1. ASSUME NEW x \in LocksOf(d) PROVE own[x] = t /\ (x \in LocksOf(Last(s)) \/ owner[x] # t)
    BY <1>3, <1>6, <1>9, <1>13, <2>1, GuardAssumption
  <2> QED BY <1>3, <1>11, <1>13, <1>14, <1>15, <2>1, <1>9, CallGoesOn
<1>17. /\ AtOf(v, "mark") /\ ~AtOf(v, "lock") /\ ~AtOf(v, "clear") /\ Entered(v) = o
       /\ ~AtOf(s, "mark") /\ ~AtOf(s, "clear")
  BY <1>3, <1>11, <1>12, <1>16 DEF AtOf, Entered, Enters
<1>18. MarksFit(t, v, own, inside, cleared, marked[t])
  <2>1. ASSUME NEW x \in Objects, own[x] = t, x # o PROVE inside[x] = t \/ x \in cleared
    <3>1. owner[x] = t
      BY <1>9, <2>1
    <3> QED BY <1>3, <1>17, <3>1 DEF MarksFit
  <2>2. ASSUME NEW x \in Objects, inside[x] = t PROVE own[x] = t \/ x \in marked[t]
    BY <1>9, <1>3, <1>17, <2>2 DEF MarksFit
  <2> QED BY <1>17, <2>1, <2>2 DEF MarksFit
<1>19. ASSUME NEW u \in PoolThreads, u # t PROVE Aside(u, own, inside, cleared, marked[u])
  BY <1>9, <1>19, <1>6, GuardAssumption DEF Aside
<1>20. v \in Seq(Frames)
  BY <1>16 DEF CallsHold
<1>21. stack' = [stack EXCEPT ![t] = v]
  BY <1>3, <1>10, <1>15 DEF Locks, With
<1>22. owner' = own /\ inside' = inside /\ cleared' = cleared /\ marked' = marked
  BY <1>1, <1>6, <1>8
<1> QED BY <1>7, <1>9, <1>16, <1>18, <1>19, <1>20, <1>21, <1>22, ThreadSteps

LEMMA MarksKeeps ==
  ASSUME GuardInv, NEW t \in PoolThreads, Marks(t)
  PROVE  GuardInv'
<1>1. At(t, "mark") /\ UNCHANGED owner
  BY DEF Marks
<1>2. PICK s \in Seq(Frames), c \in Frames : TopOf(t, "mark", s, c)
  BY <1>1, TopAt
<1>3. /\ s = stack[t] /\ s # <<>> /\ c = Top(t) /\ c = Last(s) /\ c.pc = "mark"
      /\ CallsHold(t, s, owner) /\ MarksFit(t, s, owner, inside, cleared, marked[t])
      /\ CallFits(c) /\ Once(c) /\ (\A o \in LocksOf(c) : o \in Objects /\ owner[o] = t)
      /\ \A p : AtOf(s, p) = (p = "mark")
  BY <1>2 DEF TopOf
<1>4. PICK o : o = Awaited(c)
  OBVIOUS
<1>5. Entered(s) = o
  BY <1>2, <1>4 DEF TopOf
<1>6. PICK p \in Nat, m \in Nat, i \in Nat :
        p = Len(c.lent) /\ m = Len(Enters(c)) /\ i = c.i /\ i # 0 /\ i <= m
  <2>1. c.lent \in Seq(Objects) /\ c.i \in Nat /\ Enters(c) \in Seq(Objects)
    BY <1>3, OrderIs DEF Frames
  <2>2. Len(c.lent) \in Nat /\ Len(Enters(c)) \in Nat
    BY <2>1
  <2>3. c.i # 0 /\ c.i <= Len(Enters(c))
    BY <1>3 DEF CallFits
  <2> QED BY <2>1, <2>2, <2>3
<1>7. o \in Objects /\ owner[o] = t
  <2> QED BY <1>3, <1>4, <1>6 DEF LocksOf, Awaited, HoldsAt, Leaving, WayOf
<1>8. owner \in [Objects -> PoolThreads \cup {Nobody}] /\ inside \in [Objects -> PoolThreads \cup {Nobody}]
      /\ marked \in [PoolThreads -> SUBSET Objects]
  BY DEF GuardInv
<1>9. PICK ins, gone, left : ins = [inside EXCEPT ![o] = t] /\ gone = cleared \ {o}
                             /\ left = [u \in PoolThreads |-> marked[u] \ {o}]
  OBVIOUS
<1>10. /\ ins \in [Objects -> PoolThreads \cup {Nobody}] /\ ins[o] = t
       /\ \A x \in Objects : x # o => ins[x] = inside[x]
  BY <1>7, <1>8, <1>9
<1>11. left \in [PoolThreads -> SUBSET Objects] /\ \A u \in PoolThreads : left[u] = marked[u] \ {o}
  BY <1>8, <1>9
<1>12. PICK d : d = [c EXCEPT !.i = @ + 1, !.pc = IF c.i = Len(c.lent) THEN "args"
                                                  ELSE IF c.i < Len(Enters(c)) THEN "check" ELSE "run"]
  OBVIOUS
<1>13. /\ d \in Frames /\ d.lent = c.lent /\ d.target = c.target /\ d.i = i + 1
       /\ d.pc = (IF i = p THEN "args" ELSE IF i < m THEN "check" ELSE "run")
  <2>1. PICK q : q = IF c.i = Len(c.lent) THEN "args" ELSE IF c.i < Len(Enters(c)) THEN "check" ELSE "run"
    OBVIOUS
  <2>2. q = (IF i = p THEN "args" ELSE IF i < m THEN "check" ELSE "run")
    BY <1>6, <2>1
  <2>3. q \in {"args", "check", "run"} /\ i + 1 \in Nat
    BY <2>2
  <2>4. d \in Frames /\ d.lent = c.lent /\ d.target = c.target /\ d.i = i + 1 /\ d.pc = q
    BY <1>6, <1>12, <2>1, <2>3 DEF Frames
  <2> QED BY <2>2, <2>4
<1>14. CallFits(d)
  <2>1. Enters(d) = Enters(c)
    BY <1>13 DEF Enters
  <2>2. Len(d.target) <= 1 /\ d.i # 0 /\ d.pc \notin {"lock", "mark", "clear"}
    BY <1>3, <1>6, <1>13 DEF CallFits
  <2>3. d.pc = "check" => d.i <= m
    BY <1>6, <1>13
  <2>4. d.pc = "args" => d.i = p + 1
    BY <1>13
  <2>5. d.pc = "run" => d.i = m + 1
    BY <1>6, <1>13
  <2> QED BY <1>6, <1>13, <2>1, <2>2, <2>3, <2>4, <2>5 DEF CallFits
<1>15. PICK v : v = Append(Front(s), d)
  OBVIOUS
<1>16. CallsHold(t, v, owner) /\ v # <<>> /\ v[Len(v)] = d
  BY <1>3, <1>13, <1>6, MovesOn, <1>14, <1>15, CallGoesOn
<1>17. ~AtOf(v, "lock") /\ ~AtOf(v, "clear") /\ ~AtOf(s, "clear")
  BY <1>3, <1>13, <1>16 DEF AtOf
<1>18. MarksFit(t, v, owner, ins, gone, left[t])
  <2>1. ASSUME NEW x \in Objects, owner[x] = t PROVE ins[x] = t \/ x \in gone
    <3>1. CASE x = o
      BY <1>10, <3>1
    <3>2. CASE x # o
      BY <1>9, <1>10, <3>2, <1>3, <1>5, <2>1 DEF MarksFit
    <3> QED BY <3>1, <3>2
  <2>2. ASSUME NEW x \in Objects, ins[x] = t PROVE owner[x] = t \/ x \in left[t]
    <3>1. CASE x = o
      BY <1>7, <3>1
    <3>2. CASE x # o
      BY <1>11, <3>2, <1>3, <1>10, <1>17, <2>2 DEF MarksFit
    <3> QED BY <3>1, <3>2
  <2> QED BY <1>17, <2>1, <2>2 DEF MarksFit
<1>19. ASSUME NEW u \in PoolThreads, u # t PROVE Aside(u, owner, ins, gone, left[u])
  <2>1. \A x \in Objects : ins[x] = u => inside[x] = u /\ x # o
    BY <1>10, <1>19
  <2>2. \A x \in Objects : owner[x] = u /\ (inside[x] = u \/ x \in cleared) => ins[x] = u \/ x \in gone
    BY <1>9, <1>10, <1>7, <1>19
  <2>3. \A x \in Objects : x \in marked[u] /\ ins[x] = u => x \in left[u]
    BY <1>11, <2>1
  <2> QED BY <2>1, <2>2, <2>3 DEF Aside
<1>20. v \in Seq(Frames)
  BY <1>16 DEF CallsHold
<1>21. stack' = [stack EXCEPT ![t] = v]
  BY <1>3, <1>12, <1>15 DEF Marks, With
<1>22. owner' = owner /\ inside' = ins /\ cleared' = gone /\ marked' = left
  BY <1>1, <1>3, <1>4, <1>9 DEF Marks
<1> QED BY <1>8, <1>10, <1>11, <1>16, <1>18, <1>19, <1>20, <1>21, <1>22, ThreadSteps

LEMMA DropsKeeps ==
  ASSUME GuardInv, NEW t \in PoolThreads, Drops(t)
  PROVE  GuardInv'
<1>1. At(t, "drop") /\ UNCHANGED <<inside, cleared, marked>>
  BY DEF Drops
<1>2. PICK s \in Seq(Frames), c \in Frames : TopOf(t, "drop", s, c)
  BY <1>1, TopAt
<1>3. /\ s = stack[t] /\ s # <<>> /\ c = Top(t) /\ c = Last(s) /\ c.pc = "drop"
      /\ CallsHold(t, s, owner) /\ MarksFit(t, s, owner, inside, cleared, marked[t])
      /\ CallFits(c) /\ Once(c) /\ (\A o \in LocksOf(c) : o \in Objects /\ owner[o] = t)
      /\ \A p : AtOf(s, p) = (p = "drop")
  BY <1>2 DEF TopOf
<1>4. CASE c.i > Len(Leaves(c))
  BY <1>1, <1>3, <1>4, IsOver DEF Drops
<1>5. CASE ~(c.i > Len(Leaves(c)))
  <2>1. PICK o : o = Leaves(c)[c.i]
    OBVIOUS
  <2>2. c.i <= Len(Leaves(c))
    BY <1>5, <1>3, OrderIs DEF Frames
  <2>3. PICK d : d = [c EXCEPT !.pc = "clear"]
    OBVIOUS
  <2>4. d \in Frames /\ d.lent = c.lent /\ d.target = c.target /\ d.pc = "clear" /\ d.i = c.i
    BY <2>3 DEF Frames
  <2>5. Once(d) /\ LocksOf(d) = LocksOf(c) \ {o} /\ o \in LocksOf(c)
    BY <1>3, <2>1, <2>2, <2>4, HoldsLess
  <2>6. o \in Objects /\ owner[o] = t
    BY <1>3, <2>5
  <2>7. Leaves(d) = Leaves(c)
    BY <2>4 DEF Leaves
  <2>8. owner \in [Objects -> PoolThreads \cup {Nobody}] /\ inside \in [Objects -> PoolThreads \cup {Nobody}]
       /\ marked \in [PoolThreads -> SUBSET Objects]
    BY DEF GuardInv
  <2>9. PICK own : own = [owner EXCEPT ![o] = Nobody]
    OBVIOUS
  <2>10. own \in [Objects -> PoolThreads \cup {Nobody}] /\ own[o] = Nobody
        /\ \A x \in Objects : x # o => own[x] = owner[x]
    BY <2>6, <2>8, <2>9
  <2>11. PICK v : v = Append(Front(s), d)
    OBVIOUS
  <2>12. CallsHold(t, v, own) /\ v # <<>> /\ v[Len(v)] = d
    <3>1. ASSUME NEW x \in LocksOf(d) PROVE own[x] = t /\ x \in LocksOf(Last(s))
      BY <1>3, <2>5, <2>10, <3>1
    <3>2. \A x \in Objects : owner[x] = t /\ x \notin LocksOf(Last(s)) => own[x] = t
      BY <1>3, <2>5, <2>10
    <3> QED BY <1>3, <2>4, <2>5, <2>2, <2>7, <2>11, <3>1, <3>2, CallGoesOn DEF CallFits
  <2>13. /\ ~AtOf(v, "mark") /\ ~AtOf(v, "lock") /\ AtOf(v, "clear") /\ Left(v) = o
         /\ ~AtOf(s, "mark") /\ ~AtOf(s, "clear")
    BY <1>3, <2>1, <2>4, <2>7, <2>12 DEF AtOf, Left
  <2>14. MarksFit(t, v, own, inside, cleared, marked[t])
    <3>1. ASSUME NEW x \in Objects, own[x] = t PROVE inside[x] = t \/ x \in cleared
      BY <1>3, <2>13, <2>6, <2>10, <3>1 DEF MarksFit
    <3>2. ASSUME NEW x \in Objects, inside[x] = t, x # o PROVE own[x] = t \/ x \in marked[t]
      BY <2>10, <3>2, <1>3, <2>13 DEF MarksFit
    <3>3. own[Left(v)] # t
      BY <2>10, <2>13, GuardAssumption
    <3> QED BY <2>13, <3>1, <3>2, <3>3 DEF MarksFit
  <2>15. ASSUME NEW u \in PoolThreads, u # t PROVE Aside(u, own, inside, cleared, marked[u])
    BY <2>10, GuardAssumption, <2>6, <2>15 DEF Aside
  <2>16. v \in Seq(Frames)
    BY <2>12 DEF CallsHold
  <2>17. stack' = [stack EXCEPT ![t] = v]
    BY <1>3, <1>5, <2>3, <2>11 DEF Drops, With
  <2>18. owner' = own /\ inside' = inside /\ cleared' = cleared /\ marked' = marked
    BY <1>1, <1>3, <1>5, <2>1, <2>9 DEF Drops
  <2> QED BY <2>8, <2>10, <2>12, <2>14, <2>15, <2>16, <2>17, <2>18, ThreadSteps
<1> QED BY <1>4, <1>5

LEMMA ClearsKeeps ==
  ASSUME GuardInv, NEW t \in PoolThreads, Clears(t)
  PROVE  GuardInv'
<1>1. At(t, "clear") /\ UNCHANGED owner
  BY DEF Clears
<1>2. PICK s \in Seq(Frames), c \in Frames : TopOf(t, "clear", s, c)
  BY <1>1, TopAt
<1>3. /\ s = stack[t] /\ s # <<>> /\ c = Top(t) /\ c = Last(s) /\ c.pc = "clear"
      /\ CallsHold(t, s, owner) /\ MarksFit(t, s, owner, inside, cleared, marked[t])
      /\ CallFits(c) /\ Once(c) /\ (\A o \in LocksOf(c) : o \in Objects /\ owner[o] = t)
      /\ \A p : AtOf(s, p) = (p = "clear")
  BY <1>2 DEF TopOf
<1>4. PICK o : o = Leaves(c)[c.i]
  OBVIOUS
<1>5. Left(s) = o
  BY <1>2, <1>4 DEF TopOf
<1>6. o \in Objects
  BY <1>3, <1>5, EnteredIs
<1>7. owner[o] # t
  BY <1>3, <1>5 DEF MarksFit
<1>8. owner \in [Objects -> PoolThreads \cup {Nobody}] /\ inside \in [Objects -> PoolThreads \cup {Nobody}]
      /\ marked \in [PoolThreads -> SUBSET Objects]
  BY DEF GuardInv
<1>9. PICK ins, gone, left :
        /\ ins = [inside EXCEPT ![o] = Nobody]
        /\ gone = (IF owner[o] \notin {t, Nobody} THEN cleared \cup {o} ELSE cleared)
        /\ left = [u \in PoolThreads |-> marked[u] \ {o}]
  OBVIOUS
<1>10. /\ ins \in [Objects -> PoolThreads \cup {Nobody}] /\ ins[o] = Nobody
       /\ \A x \in Objects : x # o => ins[x] = inside[x]
  BY <1>6, <1>8, <1>9
<1>11. left \in [PoolThreads -> SUBSET Objects] /\ \A u \in PoolThreads : left[u] = marked[u] \ {o}
  BY <1>8, <1>9
<1>12. cleared \subseteq gone
  BY <1>9
<1>13. PICK d : d = [c EXCEPT !.pc = "drop", !.i = @ + 1]
  OBVIOUS
<1>14. d \in Frames /\ d.lent = c.lent /\ d.target = c.target /\ d.pc = "drop" /\ d.i = c.i + 1
  <2>1. c.i \in Nat
    BY DEF Frames
  <2>2. PICK n \in Nat : n = c.i + 1
    BY <2>1
  <2>3. d \in Frames /\ d.lent = c.lent /\ d.target = c.target /\ d.pc = "drop" /\ d.i = n
    BY <1>13, <2>2 DEF Frames
  <2> QED BY <2>2, <2>3
<1>15. CallFits(d)
  <2>1. d.i # 0
    <3>1. c.i \in Nat
      BY DEF Frames
    <3> QED BY <1>14, <3>1
  <2> QED BY <1>3, <1>14, <2>1 DEF CallFits
<1>16. PICK v : v = Append(Front(s), d)
  OBVIOUS
<1>17. CallsHold(t, v, owner) /\ v # <<>> /\ v[Len(v)] = d
  BY <1>3, <1>14, MovesOn, <1>15, <1>16, CallGoesOn
<1>18. ~AtOf(v, "lock") /\ ~AtOf(v, "clear") /\ ~AtOf(s, "mark")
  BY <1>3, <1>14, <1>17 DEF AtOf
<1>19. MarksFit(t, v, owner, ins, gone, left[t])
  <2>1. ASSUME NEW x \in Objects, owner[x] = t PROVE ins[x] = t \/ x \in gone
    <3>1. x # o
      BY <1>7, <2>1
    <3> QED BY <1>10, <1>12, <3>1, <1>3, <1>18, <2>1 DEF MarksFit
  <2>2. ASSUME NEW x \in Objects, ins[x] = t PROVE owner[x] = t \/ x \in left[t]
    BY <1>11, <1>10, <2>2, GuardAssumption, <1>3, <1>5 DEF MarksFit
  <2> QED BY <1>18, <2>1, <2>2 DEF MarksFit
<1>20. ASSUME NEW u \in PoolThreads, u # t PROVE Aside(u, owner, ins, gone, left[u])
  <2>1. \A x \in Objects : ins[x] = u => inside[x] = u /\ x # o
    BY <1>10, GuardAssumption
  <2>2. \A x \in Objects : owner[x] = u /\ (inside[x] = u \/ x \in cleared) => ins[x] = u \/ x \in gone
    <3> SUFFICES ASSUME NEW x \in Objects, owner[x] = u, inside[x] = u \/ x \in cleared
                 PROVE  ins[x] = u \/ x \in gone
      OBVIOUS
    <3>1. CASE x = o
      BY <1>9, <3>1, <1>20, GuardAssumption
    <3>2. CASE x # o
      BY <1>10, <1>12, <3>2
    <3> QED BY <3>1, <3>2
  <2>3. \A x \in Objects : x \in marked[u] /\ ins[x] = u => x \in left[u]
    BY <1>11, <2>1
  <2> QED BY <2>1, <2>2, <2>3 DEF Aside
<1>21. v \in Seq(Frames)
  BY <1>17 DEF CallsHold
<1>22. stack' = [stack EXCEPT ![t] = v]
  BY <1>3, <1>13, <1>16 DEF Clears, With
<1>23. owner' = owner /\ inside' = ins /\ cleared' = gone /\ marked' = left
  BY <1>1, <1>3, <1>4, <1>9 DEF Clears, Cleared
<1> QED BY <1>8, <1>10, <1>11, <1>17, <1>19, <1>20, <1>21, <1>22, <1>23, ThreadSteps

LEMMA GuardKeeps ==
  ASSUME GuardInv, [GuardNext]_ovars
  PROVE  GuardInv'
<1>1. CASE UNCHANGED ovars
  BY <1>1 DEF GuardInv, ovars
<1>2. ASSUME NEW o \in Objects, Takes(o) PROVE GuardInv'
  BY <1>2 DEF Takes, GuardInv
<1>3. ASSUME NEW t \in PoolThreads,
             \/ \E c \in Calls : Begin(t, c)
             \/ Refuses(t) \/ Checks(t) \/ Locks(t) \/ Marks(t) \/ Argues(t) \/ Ran(t) \/ Drops(t)
             \/ Clears(t)
      PROVE  GuardInv'
  BY <1>3, BeginKeeps, RefusesKeeps, ChecksKeeps, LocksKeeps, MarksKeeps, ArguesKeeps, RanKeeps,
     DropsKeeps, ClearsKeeps
<1> QED BY <1>1, <1>2, <1>3 DEF GuardNext

LEMMA NobodyIn == GuardInit => GuardInv
<1> SUFFICES ASSUME GuardInit PROVE GuardInv
  OBVIOUS
<1>1. stack = [t \in PoolThreads |-> <<>>] /\ <<>> \in Seq(Frames) /\ Len(<<>>) = 0
  BY DEF GuardInit
<1>2. ASSUME NEW t \in PoolThreads PROVE CallsHold(t, stack[t], owner)
  BY <1>1 DEF CallsHold
<1>3. ASSUME NEW t \in PoolThreads PROVE MarksFit(t, stack[t], owner, inside, cleared, marked[t])
  BY <1>1, GuardAssumption DEF MarksFit, GuardInit, AtOf
<1> QED BY <1>1, <1>2, <1>3 DEF GuardInit, GuardInv

LEMMA EntryGuarded == GuardInv => EntryIsGuarded
<1> SUFFICES ASSUME GuardInv PROVE EntryIsGuarded
  OBVIOUS
<1>1. ASSUME NEW t \in PoolThreads, WaitsForItself(t) PROVE Awaited(Top(t)) \in cleared
  <2>1. At(t, "lock") /\ owner[Awaited(Top(t))] = t
    BY <1>1 DEF WaitsForItself
  <2>2. PICK s \in Seq(Frames), c \in Frames : TopOf(t, "lock", s, c)
    BY <2>1, TopAt
  <2>3. /\ c = Top(t) /\ AtOf(s, "lock") /\ ~AtOf(s, "mark") /\ Entered(s) = Awaited(c)
        /\ CallsHold(t, s, owner) /\ MarksFit(t, s, owner, inside, cleared, marked[t])
    BY <2>2 DEF TopOf
  <2>4. Entered(s) \in Objects
    BY <2>3, EnteredIs
  <2> QED BY <2>1, <2>3, <2>4 DEF MarksFit
<1>2. ASSUME NEW t \in PoolThreads, At(t, "check"), inside[Awaited(Top(t))] = t
      PROVE  owner[Awaited(Top(t))] = t \/ Awaited(Top(t)) \in marked[t]
  <2>1. PICK s \in Seq(Frames), c \in Frames : TopOf(t, "check", s, c)
    BY <1>2, TopAt
  <2>2. /\ c = Top(t) /\ AtOf(s, "check") /\ ~AtOf(s, "clear") /\ Entered(s) = Awaited(c)
        /\ CallsHold(t, s, owner) /\ MarksFit(t, s, owner, inside, cleared, marked[t])
    BY <2>1 DEF TopOf
  <2>3. Entered(s) \in Objects
    BY <2>2, EnteredIs
  <2> QED BY <1>2, <2>2, <2>3 DEF MarksFit
<1> QED BY <1>1, <1>2 DEF EntryIsGuarded, SelfCallRefused, BusyIsInside

-----------------------------------------------------------------------------
(* A slot called.                                                          *)

Steps == {"begun", "called", "reads", "handler", "writes", "returned", "settled", "done"}

\* One argument handed over, where the call is at `at`: dropped by a caller that
\* could not make the call, else the callee's as soon as it reads.
HandedFits(arg, gave, our, their, at) ==
  gave \in {"tree", "object"} \/ (gave = "bad" /\ arg = "tree") =>
    \/ at = "done" /\ our = "dropped" /\ their = "none"
    \/ /\ our # "dropped" /\ arg \in {"tree", "object"} /\ at # "begun"
       /\ at = "called" => their = "none"
       /\ at \in {"reads", "handler"} => their = "held"
       /\ at \in {"writes", "returned", "settled", "done"} => their \in {"dropped", "kept"}

HandedInv == \A i \in Places : HandedFits(called.args[i], passed[i], ours[i], theirs[i], step)

\* Who has the answer, by where the call is.
AnswerInv ==
  /\ step \in {"begun", "called", "reads", "handler"} => replyAt = "nobody"
  /\ step = "writes" => replyAt = "handler"
  /\ step \in {"returned", "settled"} =>
       /\ replyAt \in {"nobody", "freed", "out"}
       /\ called.answer = "nothing" => replyAt # "out"
       /\ called.answer # "nothing" => (replyAt = "out" => status = "ok") /\ (status = "ok" => replyAt = "out")
  /\ step = "done" /\ replyAt = "lost" => called.answer = "object" /\ ~settled
  /\ step = "done" /\ replyAt = "caller" /\ called.answer \in {"text", "tree"} => reply.in = HomeOf

TreesInv ==
  /\ step \in {"begun", "called", "reads", "handler"} => \A i \in Places : trees[i] = "home"
  /\ step \in {"begun", "called"} => \A i \in Places : theirs[i] = "none"
  /\ step \in {"settled", "done"} => \A i \in Places : trees[i] = "home" \/ ~settled

ReplyInv == \E what, in : reply = [what |-> what, in |-> in]

\* Nothing of an answer is freed as it is but a text that a tree is made of.
SpillInv == spilled # "none" => spilled = "text" /\ called.answer = "tree"

SlotInv == step \in Steps /\ SpillInv /\ ReplyInv /\ HandedInv /\ AnswerInv /\ TreesInv

LEMMA SlotBegins == SlotCallInit => SlotInv
<1> SUFFICES ASSUME SlotCallInit PROVE SlotInv
  OBVIOUS
<1>1. step = "begun" /\ spilled = "none" /\ reply = [what |-> "nothing", in |-> "library"] /\ replyAt = "nobody"
  BY DEF SlotCallInit, NoReply
<1>2. \A i \in Places : passed[i] = "scalar" /\ trees[i] = "home" /\ theirs[i] = "none"
  BY DEF SlotCallInit
<1>3. ReplyInv
  BY <1>1 DEF ReplyInv
<1>4. HandedInv
  BY <1>2 DEF HandedInv, HandedFits
<1>5. AnswerInv
  BY <1>1 DEF AnswerInv
<1>6. TreesInv
  BY <1>1, <1>2 DEF TreesInv
<1> QED BY <1>1, <1>3, <1>4, <1>5, <1>6 DEF SlotInv, SpillInv, Steps

\* What a step before the answer keeps.
LEMMA KeepsEarly ==
  ASSUME SlotInv, step \in {"begun", "called", "reads", "handler"},
         called' = called, replyAt' = replyAt, reply' = reply, spilled' = spilled, settled' = settled,
         step' \in {"called", "reads", "handler"} /\ trees' = trees,
         step' = "called" => theirs' = theirs /\ step = "begun"
  PROVE  step' \in Steps /\ SpillInv' /\ ReplyInv' /\ AnswerInv' /\ TreesInv'
<1>1. ReplyInv'
  BY DEF SlotInv, ReplyInv
<1>2. AnswerInv'
  BY DEF SlotInv, AnswerInv
<1>3. TreesInv'
  BY DEF SlotInv, TreesInv, Places
<1> QED BY <1>1, <1>2, <1>3 DEF SlotInv, SpillInv, Steps

\* What a refusal keeps.
LEMMA KeepsRefused ==
  ASSUME SlotInv, step \in {"called", "reads", "handler"},
         called' = called, replyAt' = replyAt, reply' = reply, spilled' = spilled,
         step' = "returned", status' # "ok"
  PROVE  step' \in Steps /\ SpillInv' /\ ReplyInv' /\ AnswerInv' /\ TreesInv'
<1>1. ReplyInv'
  BY DEF SlotInv, ReplyInv
<1>2. AnswerInv'
  BY DEF SlotInv, AnswerInv
<1>3. TreesInv'
  BY DEF TreesInv
<1> QED BY <1>1, <1>2, <1>3 DEF SlotInv, SpillInv, Steps

LEMMA HostCallsKeeps ==
  ASSUME SlotInv, NEW gave, NEW taken, HostCalls(gave, taken)
  PROVE  SlotInv'
<1>1. /\ step = "begun" /\ passed' = gave
      /\ UNCHANGED <<called, caller, theirs, trees, reply, replyAt, spilled, status, settled>>
  BY DEF HostCalls
<1>2. PICK made : made = (taken /\ \A i \in Places : LaidOut(i, gave[i]))
  OBVIOUS
<1>3. /\ step' = (IF made THEN "called" ELSE "done")
      /\ ours' = [i \in Places |-> IF ~Owned(i, gave[i]) THEN "none" ELSE IF made THEN "pending" ELSE "dropped"]
  BY <1>2 DEF HostCalls
<1>4. Places' = Places /\ \A i \in Places : ours'[i] = IF ~Owned(i, gave[i]) THEN "none"
                                                       ELSE IF made THEN "pending" ELSE "dropped"
  BY <1>1, <1>3 DEF Places
<1>5. \A i \in Places : theirs[i] = "none" /\ trees[i] = "home"
  BY <1>1 DEF SlotInv, TreesInv
<1>6. CASE made
  <2>1. step' = "called"
    BY <1>3, <1>6
  <2>2. step' \in Steps /\ SpillInv' /\ ReplyInv' /\ AnswerInv' /\ TreesInv'
    BY <1>1, <2>1, KeepsEarly
  <2>3. ASSUME NEW i \in Places PROVE HandedFits(called.args[i], gave[i], ours'[i], theirs[i], "called")
    <3>1. CASE Owned(i, gave[i])
      BY <1>5, <1>2, <1>4, <1>6, <3>1 DEF HandedFits, Owned, LaidOut
    <3>2. CASE ~Owned(i, gave[i])
      BY <3>2 DEF Owned, HandedFits
    <3> QED BY <3>1, <3>2
  <2>4. HandedInv'
    BY <1>1, <1>4, <2>1, <2>3 DEF HandedInv
  <2> QED BY <2>2, <2>4 DEF SlotInv
<1>7. CASE ~made
  <2>1. step' = "done" /\ replyAt' = "nobody"
    BY <1>1, <1>3, <1>7 DEF SlotInv, AnswerInv
  <2>2. AnswerInv' /\ TreesInv'
    BY <1>1, <1>4, <1>5, <2>1 DEF AnswerInv, TreesInv
  <2>3. ASSUME NEW i \in Places PROVE HandedFits(called.args[i], gave[i], ours'[i], theirs[i], "done")
    <3>1. CASE Owned(i, gave[i])
      BY <1>5, <1>4, <1>7, <3>1 DEF HandedFits
    <3>2. CASE ~Owned(i, gave[i])
      BY <3>2 DEF Owned, HandedFits
    <3> QED BY <3>1, <3>2
  <2>4. HandedInv'
    BY <1>1, <1>4, <2>1, <2>3 DEF HandedInv
  <2>5. ReplyInv' /\ SpillInv' /\ step' \in Steps
    BY <1>1, <2>1 DEF SlotInv, SpillInv, ReplyInv, Steps
  <2> QED BY <2>2, <2>4, <2>5 DEF SlotInv
<1> QED BY <1>6, <1>7

LEMMA CCallsKeeps ==
  ASSUME SlotInv, NEW gave, NEW out, CCalls(gave, out)
  PROVE  SlotInv'
<1>1. /\ step = "begun" /\ step' = "called" /\ passed' = gave
      /\ UNCHANGED <<called, caller, theirs, trees, reply, replyAt, spilled, status, settled>>
      /\ ours' = [i \in Places |-> IF Owned(i, gave[i]) THEN "forgotten" ELSE "none"]
  BY DEF CCalls
<1>2. step' \in Steps /\ SpillInv' /\ ReplyInv' /\ AnswerInv' /\ TreesInv'
  BY <1>1, KeepsEarly
<1>3. ASSUME NEW i \in Places PROVE HandedFits(called.args[i], gave[i], ours'[i], theirs[i], "called")
  <2>1. CASE Owned(i, gave[i])
    <3> QED BY <1>1, <2>1 DEF HandedFits, SlotInv, TreesInv, Owned, CCalls
  <2>2. CASE ~Owned(i, gave[i])
    BY <2>2 DEF Owned, HandedFits
  <2> QED BY <2>1, <2>2
<1>4. HandedInv'
  BY <1>1, <1>3 DEF HandedInv, Places
<1> QED BY <1>2, <1>4 DEF SlotInv

LEMMA TakesArgsKeeps ==
  ASSUME SlotInv, TakesArgs
  PROVE  SlotInv'
<1>1. /\ step = "called" /\ Places' = Places
      /\ UNCHANGED <<called, caller, passed, ours, trees, outSlot, reply, replyAt, spilled, settled>>
  BY DEF TakesArgs, Places
<1>2. \A i \in Places : HandedFits(called.args[i], passed[i], ours[i], theirs[i], "called")
  BY <1>1 DEF SlotInv, HandedInv
<1>3. \A i \in Places : TakesAll[i] = Took(i)
  BY DEF TakesAll
<1>4. CASE \E i \in Places : IsTaken(i) /\ Refused(i)
  <2>1. theirs' = LetGoRead(TakesAll) /\ status' = "refused" /\ step' = "returned"
    BY <1>4 DEF TakesArgs
  <2>2. ASSUME NEW i \in Places PROVE HandedFits(called.args[i], passed[i], ours[i], theirs'[i], "returned")
    BY <1>3, <2>1, <1>2 DEF HandedFits, Took, IsTaken, LetGoRead
  <2>3. HandedInv'
    BY <1>1, <2>1, <2>2 DEF HandedInv
  <2>4. step' \in Steps /\ SpillInv' /\ ReplyInv' /\ AnswerInv' /\ TreesInv'
    BY <1>1, <2>1, KeepsRefused
  <2> QED BY <2>3, <2>4 DEF SlotInv
<1>5. CASE ~\E i \in Places : IsTaken(i) /\ Refused(i)
  <2>1. theirs' = TakesAll /\ step' = "reads"
    BY <1>5 DEF TakesArgs
  <2>2. ASSUME NEW i \in Places PROVE HandedFits(called.args[i], passed[i], ours[i], theirs'[i], "reads")
    BY <1>3, <1>5, <2>1, <1>2 DEF HandedFits, Took, IsTaken, Refused
  <2>3. HandedInv'
    BY <1>1, <2>1, <2>2 DEF HandedInv
  <2>4. step' \in Steps /\ SpillInv' /\ ReplyInv' /\ AnswerInv' /\ TreesInv'
    BY <1>1, <2>1, KeepsEarly
  <2> QED BY <2>3, <2>4 DEF SlotInv
<1> QED BY <1>4, <1>5

LEMMA ReadsArgsKeeps ==
  ASSUME SlotInv, ReadsArgs
  PROVE  SlotInv'
<1>1. /\ step = "reads" /\ Places' = Places
      /\ UNCHANGED <<called, caller, passed, ours, trees, outSlot, reply, replyAt, spilled, settled>>
  BY DEF ReadsArgs, Places
<1>2. \A i \in Places : HandedFits(called.args[i], passed[i], ours[i], theirs[i], "reads")
  BY <1>1 DEF SlotInv, HandedInv
<1>3. CASE \E i \in Places : Refused(i)
  <2>1. theirs' = LetGoRead(theirs) /\ status' = "refused" /\ step' = "returned"
    BY <1>3 DEF ReadsArgs
  <2>2. ASSUME NEW i \in Places PROVE HandedFits(called.args[i], passed[i], ours[i], theirs'[i], "returned")
    BY <2>1, <1>2 DEF HandedFits, LetGoRead
  <2>3. HandedInv'
    BY <1>1, <2>1, <2>2 DEF HandedInv
  <2>4. step' \in Steps /\ SpillInv' /\ ReplyInv' /\ AnswerInv' /\ TreesInv'
    BY <1>1, <2>1, KeepsRefused
  <2> QED BY <2>3, <2>4 DEF SlotInv
<1>4. CASE ~\E i \in Places : Refused(i)
  <2>1. theirs' = theirs /\ step' = "handler"
    BY <1>4 DEF ReadsArgs
  <2>2. ASSUME NEW i \in Places PROVE HandedFits(called.args[i], passed[i], ours[i], theirs[i], "handler")
    BY <1>2 DEF HandedFits
  <2>3. HandedInv'
    BY <1>1, <2>1, <2>2 DEF HandedInv
  <2>4. step' \in Steps /\ SpillInv' /\ ReplyInv' /\ AnswerInv' /\ TreesInv'
    BY <1>1, <2>1, KeepsEarly
  <2> QED BY <2>3, <2>4 DEF SlotInv
<1> QED BY <1>3, <1>4

LEMMA UsesKeeps ==
  ASSUME SlotInv, step = "handler", NEW kept, NEW left, HandlerUses(kept, left),
         called' = called, passed' = passed, ours' = ours, step' \in {"writes", "returned"}
  PROVE  HandedInv'
<1>1. Places' = Places
  BY DEF Places
<1>2. ASSUME NEW i \in Places, NEW at \in {"writes", "returned"}
      PROVE HandedFits(called.args[i], passed[i], ours[i], theirs'[i], at)
  BY DEF HandedFits, HandlerUses, SlotInv, HandedInv
<1> QED BY <1>1, <1>2 DEF HandedInv

LEMMA HandlerAnswersKeeps ==
  ASSUME SlotInv, NEW kept, NEW left, NEW what, NEW in, HandlerAnswers(kept, left, what, in)
  PROVE  SlotInv'
<1>1. /\ step = "handler" /\ step' = "writes" /\ HandlerUses(kept, left) /\ replyAt' = "handler"
      /\ reply' = [what |-> what, in |-> in]
      /\ UNCHANGED <<called, caller, passed, ours, outSlot, spilled, status, settled>>
  BY DEF HandlerAnswers
<1>2. HandedInv'
  BY <1>1, UsesKeeps
<1>3. AnswerInv' /\ TreesInv'
  BY <1>1 DEF AnswerInv, TreesInv
<1>4. ReplyInv'
  BY <1>1 DEF ReplyInv
<1> QED BY <1>1, <1>2, <1>3, <1>4 DEF SlotInv, SpillInv, Steps

LEMMA HandlerFailsKeeps ==
  ASSUME SlotInv, NEW kept, NEW left, NEW says, HandlerFails(kept, left, says)
  PROVE  SlotInv'
<1>1. /\ step = "handler" /\ step' = "returned" /\ HandlerUses(kept, left) /\ status' # "ok"
      /\ UNCHANGED <<called, caller, passed, ours, outSlot, reply, replyAt, spilled, settled>>
  BY DEF HandlerFails, Refusing
<1>2. HandedInv'
  BY <1>1, UsesKeeps
<1>3. step' \in Steps /\ SpillInv' /\ ReplyInv' /\ AnswerInv' /\ TreesInv'
  BY <1>1, KeepsRefused
<1> QED BY <1>2, <1>3 DEF SlotInv

\* The arguments are the callee's, and stay so.
LEMMA HandedStays ==
  ASSUME SlotInv, step \in {"writes", "returned", "settled"}, called' = called, passed' = passed, theirs' = theirs,
         step' \in {"returned", "settled", "done"}, \A i \in Places : ours'[i] \in {ours[i], "forgotten"}
  PROVE  HandedInv'
<1>1. Places' = Places
  BY DEF Places
<1>2. ASSUME NEW i \in Places PROVE HandedFits(called.args[i], passed[i], ours'[i], theirs[i], step')
  BY DEF HandedFits, SlotInv, HandedInv
<1> QED BY <1>1, <1>2 DEF HandedInv

LEMMA SpillsText ==
  \A what, from, to : Spills(what, from, to) => what = "text" /\ called.answer = "tree"
BY DEF Spills, Overwritten

LEMMA WritesAnswerKeeps ==
  ASSUME SlotInv, NEW fits, WritesAnswer(fits)
  PROVE  SlotInv'
<1>1. /\ step = "writes" /\ step' = "returned"
      /\ UNCHANGED <<called, caller, passed, ours, theirs, trees, outSlot, settled>>
  BY DEF WritesAnswer
<1>2. HandedInv'
  BY <1>1, HandedStays
<1>3. TreesInv'
  BY <1>1 DEF TreesInv
<1>4. PICK no : no = (called.answer # "nothing" /\ (reply.what \notin MadeOf(called.answer) \/ ~fits \/ outSlot = "null"))
  OBVIOUS
<1>5. CASE no
  BY <1>1, <1>2, <1>3, <1>4, <1>5 DEF SlotInv, SpillInv, Steps, AnswerInv, ReplyInv, WritesAnswer
<1>6. CASE ~no
  <2>1. /\ replyAt' = IF called.answer = "nothing" THEN "freed" ELSE "out"
        /\ reply' = [what |-> called.answer, in |-> BuiltIn] /\ status' = "ok"
    BY <1>4, <1>6 DEF WritesAnswer
  <2>2. SpillInv'
    <3>1. spilled' = IF called.answer \in {"text", "tree"} /\ Spills(reply.what, reply.in, BuiltIn)
                     THEN reply.what ELSE "none"
      BY <1>4, <1>6 DEF WritesAnswer
    <3> QED BY <1>1, <3>1, SpillsText, Zenon DEF SpillInv
  <2>3. AnswerInv'
    BY <1>1, <2>1 DEF AnswerInv
  <2>4. ReplyInv'
    BY <2>1 DEF ReplyInv
  <2> QED BY <1>1, <1>2, <1>3, <2>2, <2>3, <2>4 DEF SlotInv, Steps
<1> QED BY <1>5, <1>6

LEMMA SettleAllKeeps ==
  ASSUME SlotInv, NEW memory, SettleAll(memory)
  PROVE  SlotInv'
<1>1. /\ step = "returned" /\ step' = "settled" /\ Places' = Places
      /\ UNCHANGED <<called, caller, passed, theirs, outSlot, reply, replyAt, spilled, status>>
  BY DEF SettleAll, Places
<1>2. HandedInv'
  BY <1>1, HandedStays DEF SettleAll, GivenUp
<1>3. ASSUME NEW i \in Places, settled' PROVE trees'[i] = "home"
  <2>1. \A j \in Places : trees[j] = "home" \/ (trees[j] = "mixed" /\ memory)
    BY <1>3, Zenon DEF SettleAll
  <2> QED BY <2>1 DEF SettleAll
<1>4. TreesInv'
  BY <1>1, <1>3 DEF TreesInv
<1>5. AnswerInv'
  BY <1>1 DEF SlotInv, AnswerInv
<1>6. ReplyInv'
  BY <1>1 DEF SlotInv, ReplyInv
<1> QED BY <1>1, <1>2, <1>4, <1>5, <1>6 DEF SlotInv, SpillInv, Steps

LEMMA TakesAnswerKeeps ==
  ASSUME SlotInv, NEW sound, TakesAnswer(sound)
  PROVE  SlotInv'
<1>1. /\ step = "settled" /\ step' = "done" /\ Places' = Places
      /\ UNCHANGED <<called, caller, passed, ours, theirs, trees, outSlot, status, settled>>
  BY DEF TakesAnswer, Places
<1>2. HandedInv'
  BY <1>1, HandedStays
<1>3. TreesInv'
  BY <1>1 DEF SlotInv, TreesInv
<1>4. /\ replyAt \in {"nobody", "freed", "out"} /\ (called.answer = "nothing" => replyAt # "out")
      /\ called.answer # "nothing" => (replyAt = "out" => status = "ok") /\ (status = "ok" => replyAt = "out")
  BY <1>1 DEF SlotInv, AnswerInv
<1>5. PICK what, in : reply = [what |-> what, in |-> in]
  BY DEF SlotInv, ReplyInv
<1>6. PICK yes : yes = (status = "ok" /\ settled /\ (sound \/ called.answer \in {"object", "scalar", "nothing"}))
  OBVIOUS
<1>7. CASE yes
  <2>1. /\ replyAt' = IF replyAt = "out" THEN "caller" ELSE replyAt
        /\ reply' = IF called.answer \in {"text", "tree"} THEN Received ELSE reply
    BY <1>6, <1>7 DEF TakesAnswer
  <2>2. SpillInv'
    <3>1. spilled' = IF called.answer \in {"text", "tree"} /\ Spills(reply.what, reply.in, HomeOf)
                     THEN reply.what ELSE spilled
      BY <1>6, <1>7 DEF TakesAnswer
    <3>2. SpillInv
      BY DEF SlotInv
    <3> QED BY <1>1, <3>1, <3>2, SpillsText, Zenon DEF SpillInv
  <2>3. Received = [what |-> what, in |-> HomeOf]
    BY <1>5 DEF Received
  <2>4. ReplyInv'
    BY <1>5, <2>1, <2>3 DEF ReplyInv
  <2>5. AnswerInv'
    BY <1>1, <2>1, <2>3, <1>4 DEF AnswerInv, HomeOf
  <2> QED BY <1>1, <1>2, <1>3, <2>2, <2>4, <2>5 DEF SlotInv, Steps
<1>8. CASE ~yes
  <2>1. /\ replyAt' = IF replyAt # "out" THEN replyAt ELSE IF status = "ok" THEN LetGoOut ELSE "lost"
        /\ UNCHANGED <<reply, spilled>>
    BY <1>6, <1>8 DEF TakesAnswer
  <2>2. replyAt' = "lost" => called.answer = "object" /\ ~settled
    <3> SUFFICES ASSUME replyAt' = "lost" PROVE called.answer = "object" /\ ~settled
      OBVIOUS
    <3>1. status = "ok" /\ LetGoOut = "lost"
      BY <1>4, <2>1
    <3>2. called.answer = "object"
      BY <3>1 DEF LetGoOut
    <3> QED BY <1>6, <1>8, <3>1, <3>2, Zenon
  <2>3. AnswerInv'
    BY <1>1, <1>4, <2>1, <2>2 DEF AnswerInv, LetGoOut
  <2>4. ReplyInv'
    BY <1>5, <2>1 DEF ReplyInv
  <2>5. SpillInv'
    BY <1>1, <2>1 DEF SlotInv, SpillInv
  <2> QED BY <1>1, <1>2, <1>3, <2>3, <2>4, <2>5 DEF SlotInv, Steps
<1> QED BY <1>7, <1>8

LEMMA SlotCallKeeps ==
  ASSUME SlotInv, [SlotCallNext]_callvars
  PROVE  SlotInv'
<1>1. CASE UNCHANGED callvars
  BY <1>1 DEF callvars, SlotInv, SpillInv, Steps, ReplyInv, HandedInv, AnswerInv, TreesInv, Places, HomeOf
<1>2. ASSUME NEW gave, NEW taken, HostCalls(gave, taken) PROVE SlotInv'
  BY <1>2, HostCallsKeeps
<1>3. ASSUME NEW gave, NEW out, CCalls(gave, out) PROVE SlotInv'
  BY <1>3, CCallsKeeps
<1>4. ASSUME NEW kept, NEW left, NEW what, NEW in, HandlerAnswers(kept, left, what, in) PROVE SlotInv'
  BY <1>4, HandlerAnswersKeeps
<1>5. ASSUME NEW kept, NEW left, NEW says, HandlerFails(kept, left, says) PROVE SlotInv'
  BY <1>5, HandlerFailsKeeps
<1>6. ASSUME NEW b, WritesAnswer(b) \/ SettleAll(b) \/ TakesAnswer(b) PROVE SlotInv'
  BY <1>6, WritesAnswerKeeps, SettleAllKeeps, TakesAnswerKeeps
<1>7. CASE TakesArgs \/ ReadsArgs
  BY <1>7, TakesArgsKeeps, ReadsArgsKeeps
<1> QED BY <1>1, <1>2, <1>3, <1>4, <1>5, <1>6, <1>7 DEF SlotCallNext

LEMMA SlotSays == SlotInv => HandedOnce /\ AnswerIsNotLost /\ NothingForeignLeft /\ SecretIsWiped
<1> SUFFICES ASSUME SlotInv PROVE HandedOnce /\ AnswerIsNotLost /\ NothingForeignLeft /\ SecretIsWiped
  OBVIOUS
<1>1. HandedOnce
  <2>1. ASSUME NEW i \in Places, Owned(i, passed[i])
        PROVE (ours[i] = "dropped" => theirs[i] = "none")
              /\ (Over => ours[i] = "dropped" \/ theirs[i] \in {"dropped", "kept"})
    BY <2>1 DEF HandedFits, Owned, Over, SlotInv, HandedInv
  <2> QED BY <2>1 DEF HandedOnce
<1>2. replyAt = "lost" \/ replyAt = "caller" => step = "done"
  BY DEF SlotInv, AnswerInv, Steps
<1>3. AnswerIsNotLost
  BY <1>2 DEF SlotInv, AnswerInv, AnswerIsNotLost
<1>4. NothingForeignLeft
  BY DEF SlotInv, AnswerInv, TreesInv, NothingForeignLeft
<1>5. SecretIsWiped
  <2> SUFFICES ASSUME replyAt = "caller", called.sensitive, called.answer \in {"text", "tree"}
               PROVE  SpillInv /\ reply.in \in Wiping
    BY DEF SecretIsWiped, SpillInv
  <2>1. reply.in = "host wiping"
    BY <1>2 DEF SlotInv, AnswerInv, HomeOf
  <2>2. SpillInv
    BY DEF SlotInv
  <2> QED BY <2>1, <2>2 DEF Wiping
<1> QED BY <1>1, <1>3, <1>4, <1>5

-----------------------------------------------------------------------------
(* An object lent.                                                         *)

LendInv ==
  /\ reads \in [LendThreads -> Nat]
  /\ lend = TRUE \/ lend = FALSE
  /\ lend = FALSE => \A t \in LendThreads : reads[t] = 0
  /\ lender = "returned" => lend = FALSE

LEMMA LendBegins == LendInit => LendInv
<1> SUFFICES ASSUME LendInit PROVE LendInv
  OBVIOUS
<1>1. reads = [t \in LendThreads |-> 0] /\ lend = TRUE /\ lender = "in f"
  BY DEF LendInit
<1>2. reads \in [LendThreads -> Nat]
  BY <1>1
<1> QED BY <1>1, <1>2 DEF LendInv

LEMMA LendKeeps ==
  ASSUME LendInv, [LendNext]_lendvars
  PROVE  LendInv'
<1>1. ASSUME NEW t \in LendThreads, HandleCalls(t) \/ HandleWaited(t) PROVE LendInv'
  <2>1. /\ lend' = lend /\ lender' = lender
        /\ reads' = [reads EXCEPT ![t] = IF lend THEN @ + 1 ELSE @] \/ reads' = reads
    BY <1>1 DEF HandleCalls, HandleWaited
  <2>2. CASE lend = TRUE
    BY <2>1, <2>2 DEF LendInv
  <2>3. CASE lend = FALSE
    BY <2>1, <2>3 DEF LendInv
  <2> QED BY <2>2, <2>3 DEF LendInv
<1>2. ASSUME NEW t \in LendThreads, HandleReturns(t) PROVE LendInv'
  <2>1. lend' = lend /\ lender' = lender /\ reads' = [reads EXCEPT ![t] = @ - 1] /\ reads[t] > 0 /\ reads[t] \in Nat
    BY <1>2 DEF HandleReturns, LendInv
  <2>2. reads' \in [LendThreads -> Nat]
    BY <2>1 DEF LendInv
  <2>3. lend = TRUE
    BY <2>1 DEF LendInv
  <2> QED BY <2>1, <2>2, <2>3 DEF LendInv
<1>3. CASE FReturns
  BY <1>3 DEF FReturns, LendInv
<1>4. CASE ShareReturns
  BY <1>4 DEF ShareReturns, WriteSide, LendInv
<1>5. CASE UNCHANGED lendvars
  BY <1>5 DEF lendvars, LendInv
<1> QED BY <1>1, <1>2, <1>3, <1>4, <1>5 DEF LendNext

LEMMA LendSays == LendInv => LendOutlastsCalls
BY DEF LendInv, LendOutlastsCalls

\* Whatever calls come in, one inside another, however their threads fall together
\* and whatever is taken out meanwhile: a call an object makes on itself never
\* waits for itself, but for a mark another thread took away, and none is refused
\* that its thread is not in, but for a mark an early return left.  And whatever a
\* slot is called with, by host or C, and however the call fails: what is handed
\* over is let go of once, and the answer and the trees lent are at home (link/mod.rs:
\* enter and call_inner; runtime.rs: call_raw, dispatch and LentHandle).
THEOREM ObjectsGuarded ==
  GuardInit /\ SlotCallInit /\ LendInit /\ [][GuardNext]_ovars /\ [][SlotCallNext]_callvars /\ [][LendNext]_lendvars
    => []ObjectsAreGuarded
<1>1. GuardInit => GuardInv
  BY NobodyIn
<1>2. GuardInv /\ [GuardNext]_ovars => GuardInv'
  BY GuardKeeps
<1>3. SlotCallInit => SlotInv
  BY SlotBegins
<1>4. SlotInv /\ [SlotCallNext]_callvars => SlotInv'
  BY SlotCallKeeps
<1>5. LendInit => LendInv
  BY LendBegins
<1>6. LendInv /\ [LendNext]_lendvars => LendInv'
  BY LendKeeps
<1>7. GuardInv /\ SlotInv /\ LendInv => ObjectsAreGuarded
  BY EntryGuarded, SlotSays, LendSays DEF ObjectsAreGuarded, SlotCallsAreExact
<1> QED BY <1>1, <1>2, <1>3, <1>4, <1>5, <1>6, <1>7, PTL

=============================================================================
