----------------------------- MODULE MCGrpcCodec -----------------------------
(* Two messages of three bytes in one frame, which arrives whole.          *)
EXTENDS GrpcCodec

Message == [flag |-> 0, bytes |-> <<11, 12, 13>>]
TwoMessages ==
  {[page |-> 6, frames |-> {20}, takes |-> {50}, gives |-> {0, 50}, read |-> 40, writev |-> 4,
    messages |-> <<Message, Message>>]}
=============================================================================
