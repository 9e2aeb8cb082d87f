----------------------------- MODULE BoardsStm32 -----------------------------
(***************************************************************************)
(* The board files of stm32f0xx_default, stm32f1xx_default and             *)
(* stm32f4xx_default, field by function (see BoardLpc43xx).  MainClock is  *)
(* divided from SystemClock, which selects the oscillator or the PLL, and  *)
(* the clocks of the buses are divided from MainClock.                     *)
(***************************************************************************)
EXTENDS BoardSteps, TLC

Buses(names) == IF names = {"Apb"} THEN On("ApbClock", "MainClock")
                ELSE On("Apb1Clock", "MainClock") \o On("Apb2Clock", "MainClock")

\* The clocks of the buses are set before the core leaves its old clock.
SystemFrom(buses, source) ==
  Buses(buses) \o On("SystemClock", source) \o On("MainClock", "SystemClock")

Iwdg == Start("InternalLowSpeedOsc", "Internal") \o Use("InternalLowSpeedOsc", {"IWDG"})

(* ------------------------------- stm32f0 ------------------------------- *)
F0Pins == [ BUTTON |-> "A0", LED_0 |-> "C9", SPI_CS |-> "A4" ]

F0Inputs ==
  [ ClockExt |-> Start("ExternalOsc", "Crystal") \o SystemFrom({"Apb"}, "ExternalOsc"),
    ClockPll |-> Start("ExternalOsc", "Crystal") \o Start("SystemPll", "ExternalOsc")
                   \o SystemFrom({"Apb"}, "SystemPll"),
    AdcDma |-> Start("InternalOsc14", "Internal") \o On("AdcClock", "InternalOsc14")
                 \o Use("AdcClock", {"ADC0", "D1S1", "A0", "A1", "A2"}),
    Button |-> Device({F0Pins.BUTTON}), Can |-> Device({"CAN1", "B8", "B9"}),
    Flash |-> Device({"FLASH"}), I2C |-> Device({"I2C1", "B6", "B7", "D1S3", "D1S2"}),
    Serial |-> Device({"USART2", "A3", "A2"}),
    SerialDma |-> Device({"USART2", "A3", "A2", "D1S5", "D1S4"}) ]

F0Timers ==
  [ Spi |-> Device({"SPI1", "A6", "A7", "A5", "D1S2", "D1S3"}),
    Timer1 |-> Timer({"TIM1"}, 10), Timer14 |-> Timer({"TIM14"}, 10), Wdt |-> Iwdg ]

Stm32f0 ==
  F0Inputs @@ F0Timers @@ [ AdcTimer |-> F0Timers.Timer1, Timer |-> F0Timers.Timer14 ]

(* ------------------------------- stm32f1 ------------------------------- *)
F1Pins ==
  [ BUTTON |-> "A0", LED_0 |-> "C13", LED_1 |-> "C14", LED_2 |-> "C15", PWM_0 |-> "B0",
    PWM_1 |-> "B1", SPI_CS |-> "A4", MEMCOPY_CH |-> "D1S1" ]

F1Inputs ==
  [ ClockExt |-> Start("ExternalOsc", "Crystal") \o SystemFrom({"Apb1", "Apb2"}, "ExternalOsc"),
    ClockPll |-> Start("ExternalOsc", "Crystal") \o Start("MainPll", "ExternalOsc")
                   \o SystemFrom({"Apb1", "Apb2"}, "MainPll"),
    LowPriorityWQ |-> Device({"FLASH_IRQ"}),
    Adc |-> Device({"ADC0", "C0", "C5", "A0"}),
    AdcDma |-> Device({"ADC0", "C0", "C5", "A0", "D1S1"}),
    Button |-> Device({F1Pins.BUTTON}), Can |-> Device({"CAN1", "B8", "B9"}),
    Flash |-> Device({"FLASH"}), I2C |-> Device({"I2C1", "B6", "B7", "D1S7", "D1S6"}) ]

F1Buses ==
  [ Pwm |-> Device({"TIM3", F1Pins.PWM_0, F1Pins.PWM_1}),
    Serial |-> Device({"USART1", "B7", "B6"}),
    SerialDma |-> Device({"USART1", "B7", "B6", "D1S5", "D1S4"}),
    Spi |-> Device({"SPI1", "A6", "A7", "A5", "D1S2", "D1S3"}),
    Timer2 |-> Timer({"TIM2"}, 10), Timer3 |-> Timer({"TIM3"}, 10),
    Usb |-> On("UsbClock", "MainPll") \o Use("UsbClock", {"USB0", "A11", "A12"}),
    Wdt |-> Iwdg ]

F1Alias ==
  [ AdcTimer |-> F1Buses.Timer3, Timer |-> F1Buses.Timer2, TimerAux |-> F1Buses.Timer3,
    SpiSdio |-> F1Buses.Spi ]

Stm32f1 == F1Inputs @@ F1Buses @@ F1Alias

(* ------------------------------- stm32f4 ------------------------------- *)
\* The pins of BOARD_TYPE_BLACKBOARD, whose crystal has 8 MHz: the PLL set-ups
\* of the other crystals are never selected.
F4Pins ==
  [ BUTTON |-> "A0", LED_0 |-> "F9", LED_1 |-> "F10", PWM_0 |-> "A6", PWM_1 |-> "B5",
    SPI_CS |-> "B12", MEM_CS |-> "B14", MEMCOPY_CH |-> "D1S0" ]

F4AdcPins == {"A1", "B0", "B1"}

F4Inputs ==
  [ ClockExt |-> Start("ExternalOsc", "Crystal") \o SystemFrom({"Apb1", "Apb2"}, "ExternalOsc"),
    ClockPll |-> Start("ExternalOsc", "Crystal") \o Start("MainPll", "ExternalOsc")
                   \o SystemFrom({"Apb1", "Apb2"}, "MainPll"),
    LowPriorityWQ |-> Device({"FLASH_IRQ"}),
    Adc |-> Device({"ADC0"} \cup F4AdcPins),
    AdcDma |-> Device({"ADC0", "D2S0"} \cup F4AdcPins),
    Button |-> Device({F4Pins.BUTTON}), Can |-> Device({"CAN1", "B8", "B9"}),
    Flash |-> Device({"FLASH"}), FreerunningTimer |-> Timer({"TIM2"}, 1) ]

F4Buses ==
  [ I2C1 |-> Device({"I2C1", "B6", "B7", "D1S0", "D1S7"}),
    I2C2 |-> Device({"I2C2", "B10", "B11", "D1S2", "D1S7"}),
    I2S  |-> Start("AudioPll", "ExternalOsc")
               \o Use("AudioPll", {"SPI2", "C3", "D1S4", "C2", "D1S3", "B10", "B12"}),
    MemorySRAM |-> Device({"FSMC"}),
    Pwm |-> Device({"TIM3", F4Pins.PWM_0, F4Pins.PWM_1}) ]

F4Serial ==
  [ Sdio |-> Device({"SDIO", "C12", "D2", "C8", "C9", "C10", "C11", "D2S3"}),
    Serial |-> Device({"USART1", "B7", "B6"}),
    SerialDma |-> Device({"USART1", "B7", "B6", "D2S2", "D2S7"}),
    Spi1 |-> Device({"SPI1", "B4", "B5", "B3", "D2S2", "D2S3"}),
    Spi2 |-> Device({"SPI2", "B14", "B15", "B13", "D1S3", "D1S4"}),
    Timer2 |-> Timer({"TIM2"}, 10), Timer5 |-> Timer({"TIM5"}, 10),
    Usb |-> Device({"USB0", "A11", "A12"}) ]

F4Wdt == [ Wdt |-> Iwdg ]

F4Alias ==
  [ AdcTimer |-> F4Serial.Timer2, Timer |-> F4Serial.Timer5, TimerAux |-> F4Serial.Timer2,
    I2C |-> F4Buses.I2C1, Spi |-> F4Serial.Spi1, SpiSdio |-> F4Serial.Spi2 ]

Stm32f4 == F4Inputs @@ F4Buses @@ F4Serial @@ F4Wdt @@ F4Alias
=============================================================================
