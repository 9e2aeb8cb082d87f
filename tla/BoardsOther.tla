----------------------------- MODULE BoardsOther -----------------------------
(***************************************************************************)
(* The board files of the boards that are not NXP LPC: bl602_default,      *)
(* imxrt106x_default, m03x_default, m48x_default and the three             *)
(* stm32f*_default, field by function (see BoardLpc43xx).                  *)
(***************************************************************************)
EXTENDS BoardSteps, TLC

(* ------------------------------- bl602 --------------------------------- *)
Bl602Pins ==
  [ LED_0 |-> "0.3", PWM_0 |-> "0.4", PWM_1 |-> "0.3", PWM_2 |-> "0.16",
    SPI_CS |-> "0.16" ]

\* CLOCK_SYSTEM is the clock of the core; the Flash memory is read through
\* FlashClock, which leaves the PLL before the PLL is started again.
\* boardSetupI2C() enables one clock and waits for another.
Bl602Clocks ==
  [ ClockExt |-> CoreFromCrystal \o On("FlashClock", "MainClock")
                   \o On("SocClock", "MainClock"),
    ClockPll |-> On("MainClock", "Internal") \o On("FlashClock", "MainClock")
                   \o CoreFromPll \o On("FlashClock", "SystemPll")
                   \o On("SocClock", "MainClock"),
    I2C |-> On("I2CClock", "MainClock") \o Wait("UartClock")
              \o Use("I2CClock", {"I2C0", "0.4", "0.3"}),
    Pwm |-> Device({"PWM4", Bl602Pins.PWM_0}) \o Device({"PWM3", Bl602Pins.PWM_1})
              \o Device({"PWM1", Bl602Pins.PWM_2}),
    Serial |-> Start("UartClock", "MainClock") \o Use("UartClock", {"UART0", "0.7", "0.16"}) ]

Bl602Buses ==
  [ SerialDma |-> Start("UartClock", "MainClock")
                    \o Use("UartClock", {"UART0", "0.7", "0.16", "DMA0", "DMA1"}),
    Spi |-> Start("SpiClock", "MainClock") \o Use("SpiClock", {"SPI0", "0.4", "0.5", "0.7"}),
    SpiDma |-> Start("SpiClock", "MainClock")
                 \o Use("SpiClock", {"SPI0", "0.4", "0.5", "0.7", "DMA2", "DMA3"}),
    Timer |-> Timer({"TIM2"}, 1000),
    Timer64 |-> Device({"MTIMER"}) ]

Bl602 == Bl602Clocks @@ Bl602Buses

(* ------------------------------ imxrt106x ------------------------------ *)
\* CLOCK_OSC is whichever of the two oscillators is running.
ImxrtPins ==
  [ LED_0 |-> "B0.3", LED_1 |-> "B0.2", LED_2 |-> "B0.1", MEMCOPY_CH |-> "DMA15" ]

ImxrtBuses(periph) == Start("PeriphClock", periph) \o Start("IpgClock", "PeriphClock")
                        \o Start("TimerClock", "IpgClock")

ImxrtClockExt ==
  ImxrtBuses("Osc") \o Start("ExternalOsc", "Crystal") \o Off("InternalOsc")
    \o Start("MainClock", "PeriphClock")

ImxrtClockInt ==
  ImxrtBuses("Osc") \o Start("InternalOsc", "Internal") \o Off("ExternalOsc")
    \o Start("MainClock", "PeriphClock")

ImxrtClockPll1 ==
  ImxrtClockExt \o Start("ArmPll", "Osc") \o ImxrtBuses("ArmPll")
    \o Start("MainClock", "PeriphClock")

ImxrtClockPll2Pfd0 ==
  ImxrtClockExt \o Start("SystemPll", "Osc") \o Start("SystemPllPfd0", "SystemPll")
    \o ImxrtBuses("SystemPllPfd0") \o Start("MainClock", "PeriphClock")

\* The buses are divided before the core leaves the oscillator.
ImxrtClockPll3 ==
  ImxrtClockExt \o Start("IpgClock", "PeriphClock") \o Start("TimerClock", "IpgClock")
    \o Start("SystemPll", "Osc") \o Start("SystemPllPfd2", "SystemPll")
    \o Start("FlexSpi1Clock", "SystemPllPfd2") \o Start("Usb1Pll", "Osc")
    \o Start("PeriphClock", "Usb1Pll") \o Start("MainClock", "PeriphClock")

ImxrtDevices ==
  [ Serial |-> Start("UartClock", "Usb1Pll") \o Use("UartClock", {"UART1", "B1.3", "B1.2"}),
    SerialDma |-> Start("UartClock", "Usb1Pll")
                    \o Use("UartClock", {"UART1", "B1.3", "B1.2", "DMA0", "DMA1"}),
    TimerPIT0 |-> Counter("TimerClock", {"PIT0", "PIT1"}, 1000),
    TimerPIT2 |-> Use("TimerClock", {"PIT2"}), TimerPIT3 |-> Use("TimerClock", {"PIT3"}),
    Timer64 |-> Use("TimerClock", {"PIT0", "PIT1"}),
    Usb1 |-> Need(Ready("Usb1Pll")) \o Use("Usb1Pll", {"OTG1"}),
    Usb2 |-> Start("Usb2Pll", "Osc") \o Use("Usb2Pll", {"OTG2"}) ]

Imxrt ==
  [ ClockExt |-> ImxrtClockExt, ClockInt |-> ImxrtClockInt,
    ClockPll1 |-> ImxrtClockPll1, ClockPll2Pfd0 |-> ImxrtClockPll2Pfd0,
    ClockPll |-> ImxrtClockPll3, Timer |-> ImxrtDevices.TimerPIT3,
    TimerPIT |-> ImxrtDevices.TimerPIT0, Usb |-> ImxrtDevices.Usb1 ] @@ ImxrtDevices

(* -------------------------------- m03x --------------------------------- *)
M03xPins ==
  [ BUTTON |-> "B15", LED_0 |-> "B14", LED_1 |-> "C6", LED_2 |-> "C7",
    PWM_0 |-> "A3", PWM_1 |-> "A4", SPI_CS |-> "B10" ]

M03xAdcPins == {"B0", "B1", "B2", "B3", "B8", "B9"}

M03xInputs ==
  [ ClockExt |-> CoreFromCrystal, ClockPll |-> CoreFromPll,
    Adc |-> On("AdcClock", "Internal") \o Use("AdcClock", {"ADC0"} \cup M03xAdcPins),
    AdcDma |-> On("AdcClock", "Internal")
                 \o Use("AdcClock", {"ADC0", "DMA0"} \cup M03xAdcPins),
    AdcTimer |-> Timer({"TIM1"}, 1000), Bod |-> Device({"BOD"}),
    Button |-> Device({M03xPins.BUTTON}), Flash |-> Device({"FLASH"}),
    FlashLDROM |-> Device({"FLASH"}), FlashSPROM |-> Device({"FLASH"}) ]

M03xBuses ==
  [ I2C |-> Device({"I2C0", "B5", "B4"}),
    PwmBPWM |-> On("Bpwm0Clock", "MainClock")
                  \o Use("Bpwm0Clock", {"BPWM0", M03xPins.PWM_0, M03xPins.PWM_1}),
    Serial |-> On("Uart0Clock", "MainClock") \o Use("Uart0Clock", {"UART0", "A0", "A1"}),
    SerialDma |-> On("Uart0Clock", "MainClock")
                    \o Use("Uart0Clock", {"UART0", "A0", "A1", "DMA0", "DMA1"}),
    SerialDmaTOC |-> On("Uart0Clock", "MainClock")
                       \o Use("Uart0Clock", {"UART0", "A0", "A1", "DMA4", "DMA0"}),
    Spi |-> On("Spi0Clock", "MainClock") \o Use("Spi0Clock", {"SPI0", "B13", "B12", "A2"}),
    SpiDma |-> On("Spi0Clock", "MainClock")
                 \o Use("Spi0Clock", {"SPI0", "B13", "B12", "A2", "DMA0", "DMA1"}) ]

M03xTimers ==
  [ Timer |-> Timer({"TIM0"}, 1000),
    Usb |-> Need(Ready("SystemPll")) \o On("UsbClock", "SystemPll")
              \o Use("UsbClock", {"USB0"}),
    Wdt |-> On("WdtClock", "Internal") \o Use("WdtClock", {"WDT"}) ]

M03x == M03xInputs @@ M03xBuses @@ M03xTimers @@ [ Pwm |-> M03xBuses.PwmBPWM ]

(* -------------------------------- m48x --------------------------------- *)
M48xPins ==
  [ BUTTON |-> "G15", LED_0 |-> "H0", LED_1 |-> "H1", LED_2 |-> "H2", PWM_0 |-> "A3",
    PWM_1 |-> "A4", MEM_CS |-> "C3", SPI_CS |-> "C9", MEMCOPY_CH |-> "DMA15" ]

M48xAdcPins == {"B0", "B1", "B2", "B3", "B12", "B13", "B14", "B15"}

M48xApb == On("Apb0Clock", "MainClock") \o On("Apb1Clock", "MainClock")

M48xInputs ==
  [ ClockExt |-> Start("ExternalOsc", "Crystal") \o M48xApb
                   \o On("MainClock", "ExternalOsc"),
    ClockPll |-> Start("ExternalOsc", "Crystal") \o Start("SystemPll", "ExternalOsc")
                   \o M48xApb \o On("MainClock", "SystemPll"),
    Adc |-> On("Eadc0Clock", "MainClock") \o Use("Eadc0Clock", {"ADC0"} \cup M48xAdcPins),
    AdcDma |-> On("Eadc0Clock", "MainClock")
                 \o Use("Eadc0Clock", {"ADC0", "DMA0"} \cup M48xAdcPins),
    AdcTimer |-> On("Timer1Clock", "Apb0Clock") \o Counter("Timer1Clock", {"TIM1"}, 1000),
    Bod |-> Device({"BOD"}), Button |-> Device({M48xPins.BUTTON}),
    Can |-> Device({"CAN0", "A4", "A5"}), Flash |-> Device({"FLASH"}) ]

M48xBuses ==
  [ FlashLDROM |-> Device({"FLASH"}), FlashSPROM |-> Device({"FLASH"}),
    I2C |-> Device({"I2C0", "G0", "G1"}),
    PwmBPWM |-> On("Bpwm0Clock", "Apb0Clock")
                  \o Use("Bpwm0Clock", {"BPWM0", M48xPins.PWM_0, M48xPins.PWM_1}),
    Qspi |-> On("Qspi0Clock", "Apb0Clock")
               \o Use("Qspi0Clock", {"QSPI0", "C0", "C1", "C5", "C4", "C2", "DMA0", "DMA1"}),
    Sdio |-> On("Sdh0Clock", "ExternalOsc")
               \o Use("Sdh0Clock", {"SDH0", "E6", "E7", "E2", "E3", "B4", "B5"}),
    Serial |-> On("Uart0Clock", "SystemPll") \o Use("Uart0Clock", {"UART0", "A0", "A1"}) ]

M48xTimers ==
  [ Spi |-> On("Spi3Clock", "Apb0Clock") \o Use("Spi3Clock", {"SPI3", "C12", "C11", "A2"}),
    SpiDma |-> On("Spi3Clock", "Apb0Clock")
                 \o Use("Spi3Clock", {"SPI3", "C12", "C11", "C10", "DMA0", "DMA1"}),
    Spim |-> Device({"SPIM", "C3", "C0", "C1", "C5", "C4", "C2"}),
    Timer0 |-> On("Timer0Clock", "Apb0Clock") \o Counter("Timer0Clock", {"TIM0"}, 1000),
    Timer1 |-> On("Timer1Clock", "Apb0Clock") \o Counter("Timer1Clock", {"TIM1"}, 1000),
    UsbFs |-> Need(Ready("SystemPll")) \o On("UsbClock", "SystemPll")
                \o Use("UsbClock", {"USB0", "A13", "A14", "A12"}),
    UsbHs |-> Need(Ready("ExternalOsc")) \o Use("ExternalOsc", {"HSUSB"}) ]

M48xWdt == [ Wdt |-> On("WdtClock", "Internal") \o Use("WdtClock", {"WDT"}) ]

M48xAlias ==
  [ Pwm |-> M48xBuses.PwmBPWM, Timer |-> M48xTimers.Timer0,
    TimerAux |-> M48xTimers.Timer1, Usb |-> M48xTimers.UsbHs ]

M48x == M48xInputs @@ M48xBuses @@ M48xTimers @@ M48xWdt @@ M48xAlias
=============================================================================
