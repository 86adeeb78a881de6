-------------------------- MODULE MCEngineInstall --------------------------
(* Three computers, by what their sources answer, and two requests at a time. *)
EXTENDS EngineInstall
CONSTANTS nothing
Bare == [smi |-> nothing, proc |-> {}, libs |-> nothing, version |-> nothing,
         cards |-> {}, arm |-> FALSE, loader |-> TRUE]
MCMachines ==
    { [Bare EXCEPT !.smi = [gpus |-> {"native"}, driver |-> 13], !.loader = FALSE],  \* a new NVIDIA GPU
      [Bare EXCEPT !.proc = {"unread"}, !.version = 12, !.loader = FALSE],  \* only the kernel tells
      [Bare EXCEPT !.cards = {"known"}] }                                \* another vendor's
MCCaller == {1, 2}
MCServes == <<{"start", "pause"}, {"select", "start", "delete"}>>
===============================================================================
