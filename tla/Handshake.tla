----------------------------- MODULE Handshake -----------------------------
(***************************************************************************)
(* Setting a link up (Link::client, Link::server and link/handshake.rs):   *)
(* HELLO, WELCOME and, where a key is proved, PROOF, between any two       *)
(* configurations over any transport, with a first large call sent as soon *)
(* as the client's end is up.                                              *)
(*                                                                         *)
(* A proof is the key and the label it was made with; the nonces are new   *)
(* in every handshake, and so in every behaviour.  A frame is large when   *)
(* it is above HANDSHAKE_MAX_FRAME.  A message transport judges a frame by *)
(* the bound in force as it arrives, a stream as it is read.               *)
(***************************************************************************)
EXTENDS Naturals, Sequences

CONSTANTS
  ClientOptions,  \* records of trust, key and token ("none" for no key or token)
  ServerOptions,
  Transports,     \* records of proves (the server to the client), mutual (the client
                  \* to the server), encrypted and message
  ReadAhead       \* READ_AHEAD: frames a channel holds once the peer is admitted

ASSUME HandshakeAssumption == ReadAhead \in Nat

VARIABLES
  cfg,       \* the client's and the server's options, and the transport
  client,    \* where Link::client is
  server,    \* where Link::server is
  toServer,  \* frames on their way
  channel,   \* frames a message transport holds ahead of the server's reader
  toClient,
  small,     \* frames not yet returned that stay under the handshake's bound
  ahead,     \* how many frames the channel may hold
  refused,   \* a frame was refused for its size
  broken     \* why the connection is gone, at either side: "refused", "late"; or "no"

hvars == <<cfg, client, server, toServer, channel, toClient, small, ahead, refused, broken>>

All == 9  \* every frame there is stays under the handshake's bound

HandshakeInit ==
  /\ cfg \in [c : ClientOptions, s : ServerOptions, t : Transports]
  /\ client = "start"
  /\ server = "hello"
  /\ toServer = <<>>
  /\ channel = <<>>
  /\ toClient = <<>>
  /\ small = All
  /\ ahead = 1
  /\ refused = FALSE
  /\ broken = "no"

-----------------------------------------------------------------------------
(* handshake.rs.                                                           *)

SERVER == "guatiao-remote server"
CLIENT == "guatiao-remote client"

Proof(key, label) == [key |-> key, label |-> label]
NoProof == Proof("none", "")

\* Required::admits: never a client presenting none.
Admits(required, given) == required = "none" \/ (given # "none" /\ given = required)

\* proves_key.
ProvesKey(o) == o.trust = "trusted" \/ (o.trust = "servertls" /\ o.key # "none")

Frame(is, trust, token, proof) ==
  [is |-> is, trust |-> trust, token |-> token, proof |-> proof, large |-> is = "call"]
Plain(is) == Frame(is, "none", "none", NoProof)

\* What ends the connection first is why it is gone.
Broken(why) == IF broken = "no" THEN why ELSE broken

-----------------------------------------------------------------------------
(* The client.                                                             *)

\* The checks before HELLO.
ClientCan(o, t) ==
  /\ o.trust \in {"secure", "servertls"} => t.proves
  /\ o.trust = "servertls" => o.key # "none" \/ o.token # "none"
  /\ o.token # "blank"

ClientHello ==
  /\ client = "start"
  /\ IF ClientCan(cfg.c, cfg.t)
     THEN /\ toServer' = Append(toServer, Frame("hello", cfg.c.trust, cfg.c.token, NoProof))
          /\ client' = "welcome"
          /\ UNCHANGED broken
     ELSE /\ client' = "failed"
          /\ broken' = Broken("refused")
          /\ UNCHANGED toServer
  /\ UNCHANGED <<cfg, server, channel, toClient, small, ahead, refused>>

\* Whether a WELCOME asks the client for its key.
Asked(proof) ==
  cfg.c.trust = "trusted" \/ (cfg.c.trust = "servertls" /\ proof # NoProof)

\* Mutant of ServerProved: the proof is not looked at.
ServerProvedMutant(proof) == cfg.c.key # "none"

\* handshake::proves, for the server's label.
ServerProved(proof) == cfg.c.key # "none" /\ proof = Proof(cfg.c.key, SERVER)

\* The WELCOME is read, and its proof where one is asked; the client's own
\* goes, and its end of the link is up.
ClientWelcomed ==
  /\ client = "welcome"
  /\ toClient # <<>>
  /\ toClient' = Tail(toClient)
  /\ LET f == Head(toClient) IN
       IF f.is = "welcome" /\ (Asked(f.proof) => ServerProved(f.proof))
       THEN /\ client' = "up"
            /\ toServer' = IF Asked(f.proof)
                           THEN Append(toServer, Frame("proof", "none", "none",
                                                       Proof(cfg.c.key, CLIENT)))
                           ELSE toServer
            /\ UNCHANGED broken
       ELSE /\ client' = "failed"
            /\ broken' = Broken("refused")
            /\ UNCHANGED toServer
  /\ UNCHANGED <<cfg, server, channel, small, ahead, refused>>

\* A call follows at once.
ClientCalls ==
  /\ client = "up"
  /\ client' = "called"
  /\ toServer' = Append(toServer, Plain("call"))
  /\ UNCHANGED <<cfg, server, channel, toClient, small, ahead, refused, broken>>

-----------------------------------------------------------------------------
(* The server's reader.                                                    *)

\* Whether the frame k places from the reader's is taken, by the bound in force.
Taken(f, k) == f.large => k > small

\* A message arrives, and is judged.
Arrives ==
  /\ cfg.t.message
  /\ toServer # <<>>
  /\ Len(channel) < ahead
  /\ LET f == Head(toServer) IN
       IF Taken(f, Len(channel) + 1)
       THEN channel' = Append(channel, f) /\ UNCHANGED <<refused, broken>>
       ELSE refused' = TRUE /\ broken' = Broken("refused") /\ UNCHANGED channel
  /\ toServer' = Tail(toServer)
  /\ UNCHANGED <<cfg, client, server, toClient, small, ahead>>

\* The frame the server's reader returns next.
Readable == IF cfg.t.message THEN channel ELSE toServer
Reads ==
  IF cfg.t.message THEN channel' = Tail(channel) /\ UNCHANGED toServer
  ELSE toServer' = Tail(toServer) /\ UNCHANGED channel
After(n) == IF n \in {0, All} THEN n ELSE n - 1

-----------------------------------------------------------------------------
(* The server.                                                             *)

\* Mutant of Refusal: server TLS without a key or a token of the server's.
RefusalMutant(o, t, f) ==
  \/ f.is # "hello"
  \/ f.trust # o.trust
  \/ o.trust = "secure" /\ ~t.mutual
  \/ o.trust = "servertls" /\ ~t.encrypted
  \/ o.token = "blank"
  \/ ~Admits(o.token, f.token)

\* What a HELLO is refused for.
Refusal(o, t, f) ==
  \/ f.is # "hello"
  \/ f.trust # o.trust
  \/ o.trust = "secure" /\ ~t.mutual
  \/ o.trust = "servertls" /\ (~t.encrypted \/ (o.key = "none" /\ o.token = "none"))
  \/ o.token = "blank"
  \/ ~Admits(o.token, f.token)

\* need_key: the trusted level without a key stops before its WELCOME.
Keyless(o) == ProvesKey(o) /\ o.key = "none"

\* Mutant of Bounded: the bound is raised once the handshake is over.
BoundedMutant(o) == small

\* set_max_frame, or set_max_frame_after where a PROOF is still to be read.
Bounded(o) == IF ProvesKey(o) THEN 1 ELSE 0

\* Mutant of Ahead: read ahead at once.
AheadMutant(o) == ReadAhead

\* set_read_ahead, once the client is admitted.
Ahead(o) == IF ProvesKey(o) THEN 1 ELSE ReadAhead

\* The HELLO is judged; the bound is raised before the WELCOME goes.
ServerHello ==
  /\ server = "hello"
  /\ Readable # <<>>
  /\ Reads
  /\ IF Refusal(cfg.s, cfg.t, Head(Readable)) \/ Keyless(cfg.s)
     THEN /\ server' = "failed"
          /\ toClient' = IF Refusal(cfg.s, cfg.t, Head(Readable))
                         THEN Append(toClient, Plain("goodbye")) ELSE toClient
          /\ broken' = Broken("refused")
          /\ UNCHANGED <<small, ahead>>
     ELSE /\ server' = IF ProvesKey(cfg.s) THEN "proof" ELSE "up"
          /\ small' = Bounded(cfg.s)
          /\ ahead' = Ahead(cfg.s)
          /\ toClient' = Append(toClient,
               Frame("welcome", "none", "none",
                     IF ProvesKey(cfg.s) THEN Proof(cfg.s.key, SERVER) ELSE NoProof))
          /\ UNCHANGED broken
  /\ UNCHANGED <<cfg, client, refused>>

\* handshake::proves, for the client's label.
ClientProved(f) == f.is = "proof" /\ f.proof = Proof(cfg.s.key, CLIENT)

\* The PROOF is read.
ServerProof ==
  /\ server = "proof"
  /\ Readable # <<>>
  /\ Reads
  /\ IF ClientProved(Head(Readable))
     THEN /\ server' = "up"
          /\ small' = 0
          /\ ahead' = ReadAhead
          /\ UNCHANGED <<toClient, broken>>
     ELSE /\ server' = "failed"
          /\ toClient' = Append(toClient, Plain("goodbye"))
          /\ broken' = Broken("refused")
          /\ UNCHANGED <<small, ahead>>
  /\ UNCHANGED <<cfg, client, refused>>

\* read_loop takes the call.
ServerReads ==
  /\ server = "up"
  /\ Readable # <<>>
  /\ Reads
  /\ LET fits == cfg.t.message \/ Taken(Head(Readable), 1) IN
       /\ server' = IF fits THEN "read" ELSE "failed"
       /\ refused' = (refused \/ ~fits)
  /\ small' = After(small)
  /\ UNCHANGED <<cfg, client, toClient, ahead, broken>>

\* A read that finds the connection gone, or a handshake past its timeout.
ClientGivesUp ==
  /\ client = "welcome"
  /\ broken # "no" => toClient = <<>>
  /\ client' = "failed"
  /\ broken' = Broken("late")
  /\ UNCHANGED <<cfg, server, toServer, channel, toClient, small, ahead, refused>>

ServerGivesUp ==
  /\ server \in {"hello", "proof"}
  /\ broken # "no" => toServer = <<>> /\ channel = <<>>
  /\ server' = "failed"
  /\ broken' = Broken("late")
  /\ UNCHANGED <<cfg, client, toServer, channel, toClient, small, ahead, refused>>

HandshakeNext ==
  \/ ClientHello \/ ClientWelcomed \/ ClientCalls \/ ClientGivesUp
  \/ Arrives \/ ServerHello \/ ServerProof \/ ServerReads \/ ServerGivesUp

-----------------------------------------------------------------------------
(* What must hold.                                                         *)

\* Every part is what the code says it is; a channel holds one frame until its
\* peer is admitted.
HandshakeTypeOK ==
  /\ client \in {"start", "welcome", "up", "called", "failed"}
  /\ server \in {"hello", "proof", "up", "read", "failed"}
  /\ Len(channel) <= IF server \in {"up", "read"} THEN ReadAhead ELSE 1
  /\ small \in {0, 1, All}
  /\ broken \in {"no", "refused", "late"}

\* Two configurations that make a link, as the trust levels are described.
Compatible(c, s, t) ==
  /\ c.trust = s.trust
  /\ c.token # "blank" /\ s.token # "blank"
  /\ s.token # "none" => c.token = s.token
  /\ c.trust = "trusted" => c.key = s.key /\ c.key # "none"
  /\ c.trust = "secure" => t.proves /\ t.mutual
  /\ c.trust = "servertls" =>
       /\ t.proves /\ t.encrypted
       /\ s.key # "none" \/ s.token # "none"
       /\ s.key # "none" => c.key = s.key
       /\ c.key # "none" \/ c.token # "none"

\* Unless one of them loses patience, both ends come up or both fail, and they
\* come up exactly when their configurations make a link: neither is left with
\* a link the other has refused.
EndsAgree ==
  client \in {"up", "called", "failed"} /\ server \in {"up", "read", "failed"} /\ broken # "late" =>
    /\ client # "failed" <=> Compatible(cfg.c, cfg.s, cfg.t)
    /\ server # "failed" <=> Compatible(cfg.c, cfg.s, cfg.t)

\* Whatever else happens, an end that is up has what its level asks of the
\* other: the level itself, the token required, the key.
UpIsProven ==
  /\ server \in {"up", "read"} =>
       /\ cfg.c.trust = cfg.s.trust
       /\ cfg.s.token # "none" => cfg.c.token = cfg.s.token
       /\ ProvesKey(cfg.s) => cfg.c.key = cfg.s.key
  /\ client \in {"up", "called"} =>
       /\ cfg.c.trust = cfg.s.trust
       /\ cfg.c.trust = "trusted" => cfg.c.key = cfg.s.key

\* The call a client sends as soon as its end is up is never refused for its
\* size, though it may arrive before the server has read the PROOF ahead of it.
FirstCallFits == ~refused

\* Two ends come up together, with what the level of each asks of the other.
HandshakeAgrees == HandshakeTypeOK /\ EndsAgree /\ UpIsProven /\ FirstCallFits
=============================================================================
