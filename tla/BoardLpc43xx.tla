---------------------------- MODULE BoardLpc43xx ----------------------------
(***************************************************************************)
(* The board files of lpc43xx_default and lpc43xx_m0app: what every        *)
(* function of board.c does to clocks, peripherals and pins.  A field is   *)
(* the name of the function without "boardSetup".                          *)
(***************************************************************************)
EXTENDS BoardSteps, PllSearch, TLC

\* BOARD_xxx of board.h.
Lpc43Pins ==
  [ BUTTON |-> "2.7", CAP_TIMER |-> "6.2", CAPTURE |-> "7.3",
    LED_0 |-> "5.7", LED_1 |-> "5.5", LED_2 |-> "4.0",
    PWM_0 |-> "4.1", PWM_1 |-> "7.7", PWM_2 |-> "7.6", SPI_CS |-> "1.0",
    USB_IND0 |-> "6.8", USB_IND1 |-> "6.7", PHY_RESET |-> "5.2",
    MEMCOPY_CH |-> "DMA7" ]

\* adcPinArray
Lpc43AdcPins == {"ADC.1", "ADC.2", "ADC.6", "ADC.7"}

\* enablePeriphClock(): a running branch clock is disabled first, then fed by
\* the best of the running sources.
Periph(c) ==
  If(Ready(c), Off(c))
    \o IfElse(Ready("SystemPll"), On(c, "SystemPll"),
         IfElse(Ready("ExternalOsc"), On(c, "ExternalOsc"), On(c, "Internal")))
    \o Wait(c)

\* Mutant: the core leaves the PLL after the PLL was stopped.
ResetClockLate ==
  If(Ready("AudioPll"), Off("AudioPll"))
    \o If(Ready("UsbPll"), Off("UsbPll"))
    \o If(Ready("SystemPll"), Off("SystemPll"))
    \o If(Ready("ExternalOsc"), Off("ExternalOsc"))
    \o On("MainClock", "Internal")

ResetClock ==
  On("MainClock", "Internal")
    \o If(Ready("AudioPll"), Off("AudioPll"))
    \o If(Ready("UsbPll"), Off("UsbPll"))
    \o If(Ready("SystemPll"), Off("SystemPll"))
    \o If(Ready("ExternalOsc"), Off("ExternalOsc"))

\* Mutant: the settings are trusted without a look at the clocks.
TrustSettings == Note("loaded", Saved) \o Note("spifi", Ready("SpifiClock"))

\* The settings that a loader left are taken only when the sources that they
\* speak of are running; spifi: the program runs from the NOR Flash memory.
LoadSettings ==
  Note("loaded", Saved) \o Note("spifi", Ready("SpifiClock"))
    \o If(Local("loaded"), If(Stopped("ExternalOsc"), Forget)
                             \o If(Stopped("SystemPll"), Forget))

\* Mutant: the clock of the NOR Flash memory is forgotten.
ClockExtInRam ==
  LoadSettings
    \o If(Unset("loaded"),
         On("MainClock", "Internal") \o CoreFromCrystal
           \o If(Ready("SystemPll"), Off("SystemPll")))

ClockExt ==
  LoadSettings
    \o If(Unset("loaded"),
         On("MainClock", "Internal")
           \o If(Local("spifi"), On("SpifiClock", "Internal"))
           \o CoreFromCrystal
           \o If(Local("spifi"), On("SpifiClock", "ExternalOsc"))
           \o If(Ready("SystemPll"), Off("SystemPll")))

\* Mutant: the core goes to its highest rate in one step.
ClockPllAtOnce(divisor, multiplier) ==
  LoadSettings
    \o If(Unset("loaded"),
         On("MainClock", "Internal")
           \o If(Local("spifi"), On("SpifiClock", "Internal"))
           \o Start("ExternalOsc", "Crystal")
           \o StartAt("SystemPll", "ExternalOsc", multiplier, divisor)
           \o On("MainClock", "SystemPll")
           \o If(Local("spifi"),
                OnWithin("DividerD", "SystemPll", 30) \o Wait("DividerD")
                  \o On("SpifiClock", "DividerD")))

\* A PLL that is not divided brings the core to its highest rate: the base
\* clock goes through half of it.  SpifiClock is held at 30 MHz or below.
ClockPllGeneric(divisor, multiplier) ==
  LoadSettings
    \o If(Unset("loaded"),
         On("MainClock", "Internal")
           \o If(Local("spifi"), On("SpifiClock", "Internal"))
           \o Start("ExternalOsc", "Crystal")
           \o StartAt("SystemPll", "ExternalOsc", multiplier, divisor)
           \o (IF divisor = 1
               THEN StartAt("DividerA", "SystemPll", 1, 2)
                      \o On("MainClock", "DividerA")
                      \o On("MainClock", "SystemPll") \o Off("DividerA")
               ELSE On("MainClock", "SystemPll"))
           \o If(Local("spifi"),
                IfElse(Above("SystemPll", 30),
                  OnWithin("DividerD", "SystemPll", 30) \o Wait("DividerD")
                    \o On("SpifiClock", "DividerD"),
                  On("SpifiClock", "SystemPll"))))

ClockPll == ClockPllGeneric(1, MaxCoreFrequency \div 12)

\* Mutant: the pair that was found is not used.
ClockPllUncustomised(f) ==
  IF FindPllConfig(12000, f * 1000).error = 0 THEN ClockPll ELSE Need(Never)

\* boardSetupClockPllCustom(f MHz): the search has to meet the rate exactly.
ClockPllCustom(f) ==
  LET pair == FindPllConfig(12000, f * 1000)
  IN  IF pair.error = 0 THEN ClockPllGeneric(pair.div, pair.mul) ELSE Need(Never)

Lpc43Clocks ==
  [ ResetClock |-> ResetClock, ClockExt |-> ClockExt, ClockPll |-> ClockPll,
    ClockOutput |-> StartAt("DividerE", "ExternalOsc", 1, 100)
                      \o Start("ClockOutput", "DividerE")
                      \o Use("ClockOutput", {"CLK.2"}) ]

Lpc43Adc ==
  [ Adc        |-> Periph("Apb3Clock") \o Use("Apb3Clock", {"ADC0"} \cup Lpc43AdcPins),
    AdcDma     |-> Periph("Apb3Clock")
                     \o Use("Apb3Clock", {"ADC0", "DMA4"} \cup Lpc43AdcPins),
    AdcOneShot |-> Periph("Apb3Clock") \o Use("Apb3Clock", {"ADC0"} \cup Lpc43AdcPins),
    AdcStream  |-> Periph("Apb3Clock")
                     \o Use("Apb3Clock", {"ADC0", "DMA0", "DMA1"} \cup Lpc43AdcPins),
    Bod        |-> Device({"BOD"}),
    Button     |-> Device({Lpc43Pins.BUTTON}) ]

AudioPll == If(Stopped("AudioPll"), StartAt("AudioPll", "ExternalOsc", 40, 4))

Lpc43Can ==
  [ Can |-> AudioPll \o StartAt("DividerA", "AudioPll", 1, 3)
              \o Start("Apb3Clock", "DividerA")
              \o Use("Apb3Clock", {"CAN0", "3.1", "3.2"}),
    Capture |-> Device({"TIM2", Lpc43Pins.CAP_TIMER}),
    CounterTimerGPT |-> Device({"TIM2", Lpc43Pins.CAP_TIMER}),
    CounterTimerSCT |-> Device({"SCT.H", Lpc43Pins.CAPTURE}),
    Dac     |-> Periph("Apb3Clock") \o Use("Apb3Clock", {"DAC", "4.4"}),
    DacDma  |-> Periph("Apb3Clock") \o Use("Apb3Clock", {"DAC", "4.4", "DMA5"}),
    Eeprom  |-> Device({"EEPROM"}) ]

Lpc43Network ==
  [ Ethernet |-> Start("PhyRxClock", "Phy") \o Start("PhyTxClock", "Phy")
                   \o Use("PhyTxClock", {"ETH", "1.19", "1.15", "0.0", "1.16",
                                         "1.18", "1.20", "0.1", "2.0", "1.17"}),
    Flash |-> Device({"FLASH"}),
    I2C0  |-> Periph("Apb1Clock") \o Use("Apb1Clock", {"I2C0", "SCL0", "SDA0"}),
    I2C1  |-> Periph("Apb3Clock") \o Use("Apb3Clock", {"I2C1", "2.4", "2.3"}),
    I2CSlave0 |-> Periph("Apb1Clock") \o Use("Apb1Clock", {"I2C0", "SCL0", "SDA0"}),
    I2CSlave1 |-> Periph("Apb3Clock") \o Use("Apb3Clock", {"I2C1", "2.4", "2.3"}) ]

Lpc43Memory ==
  [ I2S |-> Periph("Apb1Clock")
              \o Use("Apb1Clock", {"I2S0", "6.2", "DMA7", "CLK.2", "4.7", "7.2",
                                   "7.1", "DMA6"}),
    MemorySDRAM |-> If(Above("MainClock", SafeCoreFrequency),
                      ClockPllCustom(SafeCoreFrequency))
                      \o Device({"EMC", "SDRAM"}),
    MemorySRAM  |-> Device({"EMC"}) ]

Lpc43Pwm ==
  [ PwmSCT |-> Device({"SCT.H", Lpc43Pins.PWM_0, Lpc43Pins.PWM_1, Lpc43Pins.PWM_2}),
    \* while (rtTime(timer) == 0): the registers change once the oscillator runs.
    Rtc    |-> If(Stopped("RtcOsc"), Start("RtcOsc", "Crystal32k"))
                 \o Use("RtcOsc", {"RTC"}) \o Wait("RtcOsc"),
    Sdio   |-> Need(Ready("SystemPll"))
                 \o StartAt("DividerC", "SystemPll", 1, 4)
                 \o Start("SdioClock", "DividerC")
                 \o Use("SdioClock", {"SDMMC", "CLK.0", "1.6", "1.9", "1.10",
                                      "1.11", "1.12"}),
    Serial0 |-> Periph("Usart0Clock") \o Use("Usart0Clock", {"UART0", "6.5", "6.4"}),
    Serial1 |-> Periph("Uart1Clock") \o Use("Uart1Clock", {"UART1", "1.14", "5.6"}) ]

SerialDma(c, R) == Periph(c) \o Use(c, R \cup {"DMA2", "DMA3"})
SpiDma(c, R)    == Periph(c) \o Use(c, R \cup {"DMA0", "DMA1"})

Lpc43Serial ==
  [ Serial2    |-> Periph("Usart2Clock") \o Use("Usart2Clock", {"UART2", "2.11", "2.10"}),
    SerialDma0 |-> SerialDma("Usart0Clock", {"UART0", "6.5", "6.4"}),
    SerialDma1 |-> SerialDma("Uart1Clock", {"UART1", "1.14", "5.6"}),
    SerialDma2 |-> SerialDma("Usart2Clock", {"UART2", "2.11", "2.10"}),
    Spi0    |-> Periph("Ssp0Clock") \o Use("Ssp0Clock", {"SSP0", "1.1", "1.2", "3.0"}),
    Spi1    |-> Periph("Ssp1Clock") \o Use("Ssp1Clock", {"SSP1", "1.3", "1.4", "F.4"}),
    SpiDma0 |-> SpiDma("Ssp0Clock", {"SSP0", "1.1", "1.2", "3.0"}) ]

Lpc43Timers ==
  [ SpiDma1 |-> SpiDma("Ssp1Clock", {"SSP1", "1.3", "1.4", "F.4"}),
    Spim |-> IfElse(Ready("SystemPll"),
               IfElse(Above("SystemPll", 30),
                 OnWithin("DividerD", "SystemPll", 30) \o Wait("DividerD")
                   \o On("SpifiClock", "DividerD"),
                 On("SpifiClock", "SystemPll")),
               IfElse(Ready("ExternalOsc"), Start("SpifiClock", "ExternalOsc"),
                                            Start("SpifiClock", "Internal")))
               \o Use("SpifiClock", {"SPIFI", "3.8", "3.7", "3.6", "3.5", "3.4",
                                     "3.3", "DMA0"}),
    Timer0 |-> Timer({"TIM0"}, 1000),
    Timer3 |-> Timer({"TIM3"}, 4000),
    TimerAlarm |-> If(Stopped("RtcOsc"), Start("RtcOsc", "Crystal32k"))
                     \o Use("RtcOsc", {"ATIMER"}),
    TimerRIT |-> Device({"RIT"}),
    TimerSCT |-> Timer({"SCT.L", "SCT.H"}, 1000) ]

Lpc43Usb ==
  [ UacFeedback |-> Device({"SCT.L"}),
    Usb0 |-> StartAt("UsbPll", "ExternalOsc", 40, 1) \o Start("Usb0Clock", "UsbPll")
               \o Use("Usb0Clock", {"USB0"}),
    Usb1 |-> AudioPll \o StartAt("DividerA", "AudioPll", 1, 2)
               \o Start("Usb1Clock", "DividerA")
               \o Use("Usb1Clock", {"USB1", "2.5"}),
    Wdt  |-> Device({"WWDT"}),
    Wwdt |-> Device({"WWDT"}) ]

\* The gnu::alias declarations.
Lpc43Alias ==
  [ AdcTimer |-> Lpc43Timers.TimerSCT, Timer |-> Lpc43Timers.Timer0,
    TimerAux |-> Lpc43Timers.Timer3, CounterTimer |-> Lpc43Can.CounterTimerGPT,
    I2C |-> Lpc43Network.I2C1, I2CSlave |-> Lpc43Network.I2CSlave1,
    Pwm |-> Lpc43Pwm.PwmSCT, Serial |-> Lpc43Pwm.Serial1,
    SerialDma |-> Lpc43Serial.SerialDma1, Spi |-> Lpc43Serial.Spi0,
    SpiDma |-> Lpc43Serial.SpiDma0, Usb |-> Lpc43Usb.Usb0 ]

Lpc43xx ==
  Lpc43Clocks @@ Lpc43Adc @@ Lpc43Can @@ Lpc43Network @@ Lpc43Memory @@ Lpc43Pwm
    @@ Lpc43Serial @@ Lpc43Timers @@ Lpc43Usb @@ Lpc43Alias

\* The second core: the first one has started the clocks, the settings only
\* tell the driver about them.
M0App ==
  [ ClockExt |-> Note("loaded", Saved), ClockPll |-> Note("loaded", Saved),
    Serial   |-> Periph("Uart1Clock") \o Use("Uart1Clock", {"UART1", "1.14", "5.6"}),
    Timer    |-> Timer({"TIM3"}, 1000),
    Usb      |-> If(Stopped("AudioPll"), StartAt("AudioPll", "ExternalOsc", 40, 8))
                   \o Start("Usb1Clock", "AudioPll")
                   \o Use("Usb1Clock", {"USB1", "2.5"}) ]

M0AppPins == [ LED_0 |-> "5.7", LED_1 |-> "5.5", LED_2 |-> "4.0" ]
=============================================================================
