------------------------------- MODULE MCBoards -------------------------------
EXTENDS BoardStarts, BoardBoot

\* Programs that the violation runs look at: one waits for a clock that nobody
\* enables, one asserts a rate that its timer does not have, one stops the clock
\* of the memory that it runs from.
Stuck   == {<< "bl602", "i2c" >>}
Failed  == {<< "stm32f1", "mmcsd_spi" >>}
Suspending == {<< "lpc43xx", "pm_suspend" >>}

CodeFor(programs)   == [p \in programs |-> CodeOf(p)]
StartsFor(programs) == [p \in programs |-> StartsOf(p)]

Checked       == Programs \ (Stuck \cup Failed)
CheckedCode   == CodeFor(Checked)
CheckedStarts == StartsFor(Checked)
StuckCode     == CodeFor(Stuck)
StuckStarts   == StartsFor(Stuck)
FailedCode    == CodeFor(Failed)
FailedStarts  == StartsFor(Failed)
NorCode       == CodeFor(Suspending)
NorStarts     == [p \in Suspending |-> InNor]

\* A pin that two drivers of one program claim: the timer input and the PWM
\* output (lpc17xx), the LED and a PWM output or a line of the bus (bl602), an
\* input of the ADC and the transmit line of the serial port (stm32f0).
KnownSharing ==
  {<< "lpc17xx", "capture" >>, << "lpc17xx", "counter" >>, << "bl602", "pwm" >>,
   << "bl602", "i2c" >>, << "stm32f0", "adc_dma" >>}
=============================================================================
