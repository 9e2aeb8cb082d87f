---------------------------- MODULE BoardLpc17xx ----------------------------
(***************************************************************************)
(* The board files of lpc17xx_default and lpc17xx_trace, field by function *)
(* (see BoardLpc43xx).                                                     *)
(***************************************************************************)
EXTENDS BoardSteps, TLC

Lpc17Pins ==
  [ BUTTON |-> "2.10", CAPTURE |-> "1.18", LED_0 |-> "1.10", LED_1 |-> "1.9",
    LED_2 |-> "1.8", PWM_0 |-> "1.18", PWM_1 |-> "1.24", PWM_2 |-> "1.23",
    SDIO_CS |-> "0.22", SPI_CS |-> "0.6", MEMCOPY_CH |-> "DMA7" ]

Lpc17AdcPins == {"0.25", "1.31", "0.3", "0.2"}

Lpc17Clocks ==
  [ ResetClock |-> On("MainClock", "Internal")
                     \o If(Ready("UsbPll"), Off("UsbPll"))
                     \o If(Ready("SystemPll"), Off("SystemPll"))
                     \o If(Ready("ExternalOsc"), Off("ExternalOsc")),
    ClockExt |-> CoreFromCrystal,
    ClockOutput |-> Start("ClockOutput", "MainClock") \o Use("ClockOutput", {"1.27"}),
    ClockPll |-> CoreFromPll,
    LowPriorityWQ |-> Device({"SPI_IRQ"}),
    Adc        |-> Device({"ADC0"} \cup Lpc17AdcPins),
    AdcDma     |-> Device({"ADC0", "DMA4"} \cup Lpc17AdcPins),
    AdcOneShot |-> Device({"ADC0"} \cup Lpc17AdcPins),
    AdcStream  |-> Device({"ADC0", "DMA0", "DMA1"} \cup Lpc17AdcPins),
    Bod        |-> Device({"BOD"}),
    Button     |-> Device({Lpc17Pins.BUTTON}) ]

Lpc17Converters ==
  [ Can     |-> Device({"CAN0", "0.0", "0.1"}),
    Capture |-> Device({"TIM1", Lpc17Pins.CAPTURE}),
    CounterTimer |-> Device({"TIM1", Lpc17Pins.CAPTURE}),
    Dac     |-> Device({"DAC", "0.26"}),
    DacDma  |-> Device({"DAC", "0.26", "DMA5"}),
    Flash   |-> Device({"FLASH"}),
    FreerunningTimer |-> Timer({"TIM1"}, 1),
    I2C      |-> Device({"I2C2", "0.11", "0.10"}),
    I2CSlave |-> Device({"I2C2", "0.11", "0.10"}) ]

\* The card over SPI polls with a timer that has to count fast enough for
\* 10 * SDIO_POLL_RATE, and runs its requests in a work queue of its own.
CardOverSpi(spi, cs) ==
  Need(Counts(50)) \o Device({"SPI_IRQ"}) \o spi \o Pins({cs})

Lpc17Spi0 == {"SSP0", "0.17", "0.18", "1.20"}
Lpc17Spi1 == {"SSP1", "0.8", "0.9", "0.7"}

Lpc17Card ==
  [ I2S  |-> Device({"I2S0", "0.6", "DMA7", "4.29", "0.7", "0.9", "0.8", "DMA6"}),
    Pwm  |-> Device({"PWM0", Lpc17Pins.PWM_0, Lpc17Pins.PWM_1, Lpc17Pins.PWM_2}),
    Rtc  |-> Use("Crystal32k", {"RTC"}),
    Sdio |-> CardOverSpi(Device(Lpc17Spi0 \cup {"DMA0", "DMA1"}), Lpc17Pins.SDIO_CS),
    Serial    |-> Device({"UART1", "0.16", "0.15"}),
    SerialDma |-> Device({"UART1", "0.16", "0.15", "DMA2", "DMA3"}) ]

Lpc17Timers ==
  [ Spi0    |-> Device(Lpc17Spi0),
    Spi1    |-> Device(Lpc17Spi1),
    SpiDma0 |-> Device(Lpc17Spi0 \cup {"DMA0", "DMA1"}),
    SpiDma1 |-> Device(Lpc17Spi1 \cup {"DMA0", "DMA1"}),
    Timer0   |-> Timer({"TIM0"}, 1000),
    Timer1   |-> Timer({"TIM1"}, 1000),
    TimerRIT |-> Device({"RIT"}),
    Usb |-> UsbFromPll({"USB0", "0.30", "0.29", "2.9", "1.30"}),
    Wdt |-> Device({"WDT"}) ]

Lpc17Alias ==
  [ AdcTimer |-> Lpc17Timers.Timer1, Timer |-> Lpc17Timers.Timer0,
    TimerAux |-> Lpc17Timers.Timer1, SpiSdio |-> Lpc17Timers.SpiDma0,
    Spi |-> Lpc17Timers.Spi1, SpiDma |-> Lpc17Timers.SpiDma1 ]

Lpc17xx == Lpc17Clocks @@ Lpc17Converters @@ Lpc17Card @@ Lpc17Timers @@ Lpc17Alias

\* Mutant: two LEDs on one pin.
TracePinsTwice == [ LED_0 |-> "1.10", LED_1 |-> "1.9", LED_2 |-> "1.9", SDIO_CS |-> "0.22" ]

TracePins == [ LED_0 |-> "1.10", LED_1 |-> "1.9", LED_2 |-> "1.8", SDIO_CS |-> "0.22" ]

\* Spi0 is driven by the DMA here; the USB device is traced over a serial port.
TraceClocks ==
  [ ClockExt |-> CoreFromCrystal, ClockPll |-> CoreFromPll,
    LowPriorityWQ |-> Device({"SPI_IRQ"}),
    Sdio |-> CardOverSpi(Device(Lpc17Spi0 \cup {"DMA0", "DMA1"}), TracePins.SDIO_CS),
    Serial |-> Device({"UART1", "0.16", "0.15"}),
    Spi0   |-> Device(Lpc17Spi0 \cup {"DMA0", "DMA1"}),
    Timer0 |-> Timer({"TIM0"}, 1000) ]

TraceTimers ==
  [ Timer1 |-> Timer({"TIM1"}, 1000),
    Timer2 |-> Timer({"TIM2"}, 1000),
    Usb    |-> Start("UsbPll", "ExternalOsc") \o Start("UsbClock", "UsbPll")
                 \o Timer({"TIM2"}, 1000) \o Device({"UART1", "0.16", "0.15"})
                 \o Use("UsbClock", {"USB0", "0.30", "0.29", "2.9", "1.30"}) ]

TraceAlias ==
  [ AdcTimer |-> TraceTimers.Timer1, Timer |-> TraceClocks.Timer0,
    TimerAux |-> TraceTimers.Timer1, SpiSdio |-> TraceClocks.Spi0,
    Spi |-> TraceClocks.Spi0 ]

Lpc17xxTrace == TraceClocks @@ TraceTimers @@ TraceAlias
=============================================================================
