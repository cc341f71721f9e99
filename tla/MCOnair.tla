------------------------------ MODULE MCOnair ------------------------------
(* A local and a remote tracker; a remote one and the stream of a client;   *)
(* two clients that watch the same service.                                 *)
EXTENDS Onair
MCServiceOf == [t \in Streams |-> "b"]
MCConfigs ==
  {[services |-> {"a", "b"}, local |-> {"a"}, remote |-> {"b"}, streams |-> {}],
   [services |-> {"b"}, local |-> {}, remote |-> {}, streams |-> {"t1", "t2"}]}
=============================================================================
