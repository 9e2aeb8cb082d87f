---------------------------- MODULE MCUacAudio ----------------------------
(* Sound cards with a microphone or a speaker, with one rate or with two,  *)
(* under any timing or under that of the bus.                              *)
EXTENDS UacAudio

Microphone(rates) ==
  [rx |-> TRUE, tx |-> FALSE, rates |-> rates, anyTiming |-> TRUE]
Speaker(anyTiming) ==
  [rx |-> FALSE, tx |-> TRUE, rates |-> {"44100", "48000"}, anyTiming |-> anyTiming]

AnyMicrophone == {Microphone({"44100", "48000"})}
AnySpeaker == {Speaker(TRUE)}
TimedSpeaker == {Speaker(FALSE)}
SafeDevices == AnySpeaker \cup {Microphone({"44100"})}
=============================================================================
