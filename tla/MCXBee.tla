------------------------------- MODULE MCXBee -------------------------------
(* Model checking of XBee with frames as a modem sends them: the address of *)
(* a device (it holds XOFF), its short address and options, then the data.  *)
EXTENDS XBee

Received == <<0, 19, 162, 0, 64, 10, 20, 30, 255, 254, 1>>

\* A short frame with XON; a frame that fills the buffer, with ESCAPE and START,
\* and with a last byte that makes the checksum START.  94 and 93 are what START
\* and ESCAPE become when they are escaped.
MCFrames == {
  Received \o <<17, 94>>,
  Received \o <<125, 93, 126, 255, 107>>
}
=============================================================================
