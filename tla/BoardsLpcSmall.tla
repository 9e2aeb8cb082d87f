--------------------------- MODULE BoardsLpcSmall ---------------------------
(***************************************************************************)
(* The board files of lpc11xx_default, lpc11exx_default, lpc13xx_default,  *)
(* lpc13uxx_default and lpc82x_default, field by function (see             *)
(* BoardLpc43xx).                                                          *)
(***************************************************************************)
EXTENDS BoardSteps, TLC

\* The watchdog has an oscillator of its own, on some parts a clock as well.
WdtFromOsc == Start("WdtOsc", "Internal") \o Use("WdtOsc", {"WWDT"})
WdtFromClock ==
  Start("WdtOsc", "Internal") \o Start("WdtClock", "WdtOsc") \o Use("WdtClock", {"WWDT"})

(* ------------------------------ lpc11xx -------------------------------- *)
Lpc11xxPins == [ BUTTON |-> "1.8", LED_0 |-> "1.2", SPI_CS |-> "0.3" ]

Lpc11xxInputs ==
  [ ClockExt |-> CoreFromCrystal, ClockPll |-> CoreFromPll,
    Adc |-> Device({"ADC0", "1.10"}), AdcOneShot |-> Device({"ADC0", "1.10"}),
    Bod |-> Device({"BOD"}), Button |-> Device({Lpc11xxPins.BUTTON}),
    Flash |-> Device({"FLASH"}), I2C |-> Device({"I2C0", "0.4", "0.5"}),
    Serial |-> Device({"UART0", "1.6", "1.7"}),
    Spi |-> Device({"SSP0", "0.8", "0.9", "0.6"}),
    Timer16B0 |-> Timer({"CT16B0"}, 10) ]

Lpc11xxTimers ==
  [ Timer16B1 |-> Timer({"CT16B1"}, 10), Timer32B0 |-> Timer({"CT32B0"}, 1000),
    Timer32B1 |-> Timer({"CT32B1"}, 1000), Wdt |-> WdtFromClock ]

Lpc11xxAlias ==
  [ AdcTimer |-> Lpc11xxTimers.Timer32B0, Timer |-> Lpc11xxTimers.Timer32B1 ]

Lpc11xx == Lpc11xxInputs @@ Lpc11xxTimers @@ Lpc11xxAlias

(* ------------------------------ lpc11exx ------------------------------- *)
Lpc11exxPins == [ LED_0 |-> "0.12" ]

Lpc11exx ==
  [ ClockExt |-> CoreFromCrystal, ClockPll |-> CoreFromPll,
    Eeprom |-> Device({"EEPROM"}), Flash |-> Device({"FLASH"}),
    Timer |-> Timer({"CT32B1"}, 1000) ]

(* ------------------------------ lpc13xx -------------------------------- *)
Lpc13xxPins ==
  [ BUTTON |-> "0.3", CAPTURE |-> "1.5", LED_0 |-> "2.3", LED_1 |-> "3.1",
    LED_2 |-> "3.0", PWM_0 |-> "1.10", PWM_1 |-> "1.9", SPI_CS |-> "0.2" ]

Lpc13xxInputs ==
  [ ClockExt |-> CoreFromCrystal,
    ClockOutput |-> Start("ClockOutput", "MainClock") \o Use("ClockOutput", {"0.1"}),
    ClockPll |-> CoreFromPll,
    Adc |-> Device({"ADC0", "0.11", "1.11"}),
    AdcOneShot |-> Device({"ADC0", "0.11", "1.11"}),
    Bod |-> Device({"BOD"}), Button |-> Device({Lpc13xxPins.BUTTON}),
    Capture |-> Device({"CT32B0", Lpc13xxPins.CAPTURE}),
    CounterTimer |-> Device({"CT32B0", Lpc13xxPins.CAPTURE}),
    Flash |-> Device({"FLASH"}), FreerunningTimer |-> Timer({"CT16B0"}, 1) ]

Lpc13xxBuses ==
  [ I2C |-> Device({"I2C0", "0.4", "0.5"}),
    Pwm |-> Device({"CT16B1", Lpc13xxPins.PWM_0, Lpc13xxPins.PWM_1}),
    Serial |-> Device({"UART0", "1.6", "1.7"}),
    SerialPoll |-> Device({"UART0", "1.6", "1.7"}),
    Spi |-> Device({"SSP0", "0.8", "0.9", "2.11"}),
    Timer16B0 |-> Timer({"CT16B0"}, 10), Timer16B1 |-> Timer({"CT16B1"}, 10),
    Timer32B0 |-> Timer({"CT32B0"}, 1000), Timer32B1 |-> Timer({"CT32B1"}, 1000) ]

Lpc13xxUsb ==
  [ Usb |-> UsbFromPll({"USB0", "0.6", "0.3"}), Wdt |-> WdtFromClock ]

Lpc13xxAlias ==
  [ AdcTimer |-> Lpc13xxBuses.Timer32B0, Timer |-> Lpc13xxBuses.Timer32B1 ]

Lpc13xx == Lpc13xxInputs @@ Lpc13xxBuses @@ Lpc13xxUsb @@ Lpc13xxAlias

(* ------------------------------ lpc13uxx ------------------------------- *)
Lpc13uxxPins ==
  [ BUTTON |-> "0.3", CAPTURE |-> "0.17", LED_0 |-> "1.22", LED_1 |-> "1.14",
    LED_2 |-> "1.13", PWM_0 |-> "0.22", PWM_1 |-> "0.21", SPI_CS |-> "0.2" ]

Lpc13uxxInputs ==
  [ ClockExt |-> CoreFromCrystal,
    ClockOutput |-> Start("ClockOutput", "MainClock") \o Use("ClockOutput", {"0.1"}),
    ClockPll |-> CoreFromPll,
    Adc |-> Device({"ADC0", "0.11", "0.23"}),
    AdcOneShot |-> Device({"ADC0", "0.11", "0.23"}),
    Bod |-> Device({"BOD"}), Button |-> Device({Lpc13uxxPins.BUTTON}),
    Capture |-> Device({"CT32B0", Lpc13uxxPins.CAPTURE}),
    CounterTimer |-> Device({"CT32B0", Lpc13uxxPins.CAPTURE}),
    Eeprom |-> Device({"EEPROM"}), Flash |-> Device({"FLASH"}) ]

Lpc13uxxBuses ==
  [ FreerunningTimer |-> Timer({"CT16B0"}, 1),
    I2C |-> Device({"I2C0", "0.4", "0.5"}),
    Pwm |-> Device({"CT16B1", Lpc13uxxPins.PWM_0, Lpc13uxxPins.PWM_1}),
    Serial |-> Device({"UART0", "0.18", "0.19"}),
    Spi |-> Device({"SSP0", "0.8", "0.9", "1.29"}),
    Timer16B0 |-> Timer({"CT16B0"}, 10), Timer16B1 |-> Timer({"CT16B1"}, 10),
    Timer32B0 |-> Timer({"CT32B0"}, 1000), Timer32B1 |-> Timer({"CT32B1"}, 1000),
    TimerRIT |-> Device({"RIT"}) ]

Lpc13uxxUsb ==
  [ Usb |-> UsbFromPll({"USB0", "0.6", "0.3"}), Wdt |-> WdtFromOsc, Wwdt |-> WdtFromOsc ]

Lpc13uxxAlias ==
  [ AdcTimer |-> Lpc13uxxBuses.Timer32B0, Timer |-> Lpc13uxxBuses.Timer32B1 ]

Lpc13uxx == Lpc13uxxInputs @@ Lpc13uxxBuses @@ Lpc13uxxUsb @@ Lpc13uxxAlias

(* ------------------------------- lpc82x -------------------------------- *)
Lpc82xPins ==
  [ BUTTON |-> "0.17", LED_0 |-> "0.20", LED_1 |-> "0.21", PWM_0 |-> "0.24",
    PWM_1 |-> "0.28", PWM_2 |-> "0.4", SPI_CS |-> "0.0", MEMCOPY_CH |-> "DMA0" ]

Lpc82xAdcPins == {"0.7", "0.6", "0.14", "0.23", "0.18", "0.17", "0.13"}

Lpc82xInputs ==
  [ ClockExt |-> Start("LowPowerOsc", "Internal") \o CoreFromCrystal,
    ClockPll |-> Start("LowPowerOsc", "Internal") \o CoreFromPll,
    Adc |-> Device({"ADC0"} \cup Lpc82xAdcPins),
    AdcDma |-> Device({"ADC0", "DMA16"} \cup Lpc82xAdcPins),
    AdcOneShot |-> Device({"ADC0"} \cup Lpc82xAdcPins),
    AdcStream |-> Device({"ADC0", "DMA16"} \cup Lpc82xAdcPins),
    Bod |-> Device({"BOD"}), Button |-> Device({Lpc82xPins.BUTTON}),
    Flash |-> Device({"FLASH"}) ]

Lpc82xBuses ==
  [ I2C |-> Device({"I2C0", "0.10", "0.11"}), I2CDma |-> Device({"I2C0", "0.10", "0.11"}),
    I2CSlave |-> Device({"I2C0", "0.10", "0.11"}),
    Pwm |-> Device({"SCT.L", Lpc82xPins.PWM_0, Lpc82xPins.PWM_1, Lpc82xPins.PWM_2}),
    Serial |-> Device({"UART0", "0.26", "0.25"}),
    SerialDma |-> Device({"UART0", "0.26", "0.25"}),
    SerialPoll |-> Device({"UART0", "0.26", "0.25"}),
    Spi |-> Device({"SPI0", "0.22", "0.11", "0.10"}) ]

Lpc82xTimers ==
  [ SpiDma |-> Device({"SPI0", "0.22", "0.11", "0.10"}),
    TimerMRT |-> Device({"MRT0"}), TimerSCT |-> Timer({"SCT.L", "SCT.H"}, 1000),
    TimerSCTHigh |-> Timer({"SCT.H"}, 1000), TimerSCTLow |-> Timer({"SCT.L"}, 1000),
    TimerWKT |-> Use("LowPowerOsc", {"WKT"}), Wdt |-> WdtFromOsc ]

Lpc82xAlias == [ AdcTimer |-> Lpc82xTimers.TimerSCT, Timer |-> Lpc82xTimers.TimerMRT ]

Lpc82x == Lpc82xInputs @@ Lpc82xBuses @@ Lpc82xTimers @@ Lpc82xAlias
=============================================================================
