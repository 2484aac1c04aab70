----------------------------- MODULE MCOutside -----------------------------
(***************************************************************************)
(* What a host reaches outside itself, each checked by itself: the         *)
(* transports to its peers, and the bridges to code of other languages.    *)
(* `reached` says which one a behaviour is about, the others stay as they  *)
(* begin.                                                                  *)
(***************************************************************************)
EXTENDS RdmaRing, Deferred, QuicLink, QuicRace, WebLink, Bridge, Engines, Ticker, Script, Handing

CONSTANT Reaches

VARIABLE reached

vars == <<reached, rvars, fvars, qvars, racevars, webvars, bridgevars, enginevars, wasmvars, tickvars, scriptvars, handingvars>>

\* How many bytes each reached writes, the sizes of its writes, and who ends the link.
Scope(a, b, sizes, ends) == [limit |-> <<a, b>>, sizes |-> sizes, ends |-> ends]
MCScopes == {Scope(5, 0, 1 .. 2, {1, 2}), Scope(4, 4, {1}, {}), Scope(10, 0, 1 .. 2, {})}

Onward == {<<"a", "b">>, <<"a", "s">>, <<"s", "b">>, <<"a", "a">>, <<"b", "b">>}
MCCallings == {Onward, Onward \cup {<<"b", "a">>}}

MCAnswered == [l \in WasmLibraries |-> IF l = "a" THEN 2 ELSE 0]

Init ==
  /\ reached \in Reaches
  /\ RdmaInit /\ (reached # "rdma" => bounds = Scope(4, 4, {1}, {}))
  /\ DeferredInit /\ QuicInit /\ RaceInit /\ WebInit
  /\ EnginesInit /\ (reached # "engines" => calling = Onward)
  /\ BridgeInit /\ (reached # "bridge" => manifest = Absent)
  /\ WasmInit /\ TickerInit /\ ScriptInit /\ HandingInit

Next ==
  /\ \/ reached = "rdma" /\ RdmaNext
          /\ UNCHANGED <<fvars, qvars, racevars, webvars, bridgevars, enginevars, wasmvars, tickvars, scriptvars, handingvars>>
     \/ reached = "deferred" /\ DeferredNext
          /\ UNCHANGED <<rvars, qvars, racevars, webvars, bridgevars, enginevars, wasmvars, tickvars, scriptvars, handingvars>>
     \/ reached = "quic" /\ QuicNext
          /\ UNCHANGED <<rvars, fvars, racevars, webvars, bridgevars, enginevars, wasmvars, tickvars, scriptvars, handingvars>>
     \/ reached = "race" /\ RaceNext
          /\ UNCHANGED <<rvars, fvars, qvars, webvars, bridgevars, enginevars, wasmvars, tickvars, scriptvars, handingvars>>
     \/ reached = "web" /\ WebNext
          /\ UNCHANGED <<rvars, fvars, qvars, racevars, bridgevars, enginevars, wasmvars, tickvars, scriptvars, handingvars>>
     \/ reached = "bridge" /\ BridgeNext
          /\ UNCHANGED <<rvars, fvars, qvars, racevars, webvars, enginevars, wasmvars, tickvars, scriptvars, handingvars>>
     \/ reached = "engines" /\ EnginesNext
          /\ UNCHANGED <<rvars, fvars, qvars, racevars, webvars, bridgevars, wasmvars, tickvars, scriptvars, handingvars>>
     \/ reached = "wasm" /\ WasmNext
          /\ UNCHANGED <<rvars, fvars, qvars, racevars, webvars, bridgevars, enginevars, tickvars, scriptvars, handingvars>>
     \/ reached = "ticker" /\ TickerNext
          /\ UNCHANGED <<rvars, fvars, qvars, racevars, webvars, bridgevars, enginevars, wasmvars, scriptvars, handingvars>>
     \/ reached = "script" /\ ScriptNext
          /\ UNCHANGED <<rvars, fvars, qvars, racevars, webvars, bridgevars, enginevars, wasmvars, tickvars, handingvars>>
     \/ reached = "handing" /\ HandingNext
          /\ UNCHANGED <<rvars, fvars, qvars, racevars, webvars, bridgevars, enginevars, wasmvars, tickvars, scriptvars>>
  /\ UNCHANGED reached

Spec == Init /\ [][Next]_vars

\* What scripts leave to do is done in its time, and the objects that cross to
\* them and back are owned, used and given back as they should.
ScriptsAreSound == ScriptIsSettled /\ HandingIsSound
=============================================================================
