----------------------------- MODULE MCPrograms -----------------------------
(* The constants of Programs that a configuration file cannot write.       *)
EXTENDS Programs

(* Words of two bits, one of each programmed.                              *)
Halves == <<{0}, {1}>>

(* Two timers of each kind: each half and one input wanted twice.          *)
FourTimers ==
  << [kind |-> "sof", part |-> "LOW", i2s |-> "IN6", usb |-> "IN7"],
     [kind |-> "adc", part |-> "LOW", adc |-> "OUT15", dma |-> "DMA0", request |-> TRUE],
     [kind |-> "adc", part |-> "HIGH", adc |-> "OUT8", dma |-> "OUT2", request |-> FALSE],
     [kind |-> "sof", part |-> "HIGH", i2s |-> "IN3", usb |-> "IN7"] >>
=============================================================================
