--------------------------- MODULE MCMixerService ---------------------------
(* Instances of MixerService.                                               *)
EXTENDS MixerService

MCPollables == Clients \cup {Listener, Phantom}
=============================================================================
