---------------------------- MODULE BoardPrograms ----------------------------
(***************************************************************************)
(* What main() of every example sets up before its loop, in order, as the  *)
(* names of board functions (without "boardSetup") and of pins (without    *)
(* "BOARD_"), the examples that each board builds (TEMPLATES_LIST of its   *)
(* Config.cmake and the programs of its directory), and CodeOf(p), the     *)
(* statements of one of these programs.  A pin that a board does not name *)
(* is one that main() leaves out under #ifdef.                             *)
(***************************************************************************)
EXTENDS BoardLpc43xx, BoardLpc17xx, BoardsLpcSmall, BoardsOther, BoardsStm32,
        SequencesExt

Leds == << "LED_0", "LED_1", "LED_2" >>
CardLeds == << "LED_2", "LED_1", "LED_0" >>

(* ------------------------- main() of the templates --------------------- *)
AdcMain(adc)       == << "ClockPll", "LED_0", adc, "Serial", "AdcTimer" >>
AdcDmaMain         == AdcMain("AdcDma")
AdcOneShotMain     == << "ClockPll", "LED_0", "AdcOneShot", "Serial", "Timer" >>
BodMain            == << "ClockExt", "LED_0", "Bod" >>
CanMain            == << "ClockPll", "LED_0", "Timer", "AdcTimer", "Can" >>
CaptureMain        == << "ClockExt", "LED_0", "LED_1", "Capture", "Pwm" >>
ClockOutMain(c)    == << "ClockExt", "LED_0", c, "ClockOutput", "Timer" >>
CounterMain        == << "ClockExt", "LED_0", "CounterTimer", "Pwm", "Timer" >>
DacMain            == << "ClockPll", "LED_0", "Dac", "Timer" >>
DacDmaMain         == << "ClockPll", "LED_0", "DacDma" >>
DmaMemcopyMain     == << "ClockExt", "LED_0", "MEMCOPY_CH", "Timer" >>
EepromMain         == << "ClockExt", "LED_0", "Eeprom" >>
MemoryMain(memory) == << "ClockPll", "LED_0", memory >>
FlashMain(flash)   == << "ClockExt", "LED_0", flash >>
I2CMain(i2c)       == << "ClockPll", "LED_0", i2c, "Timer" >>
I2CTestMain        == << "ClockPll", "LED_0", "I2C", "Timer" >>
I2CSlaveMain       == << "LED_0", "ClockPll", "LED_1", "LED_2", "I2CSlave" >>
I2SEchoMain        == << "ClockPll", "LED_0", "I2S" >>
I2SToneMain        == << "ClockPll", "LED_0", "LED_1", "I2S" >>
LifetimeMain(t)    == << "ClockExt", "LED_0", t >>
MachineTimerMain   == << "ClockExt", "LED_0", "MachineTimer" >>
MmcsdMain          == << "ClockPll" >> \o CardLeds \o << "TimerAux", "Sdio", "Timer" >>
MmcsdSpiMain       == << "ClockPll", "LowPriorityWQ" >> \o CardLeds
                        \o << "TimerAux", "FastTimer", "SpiSdio", "CardSelect", "Timer" >>
MockOsMain         == << "ClockExt", "LED_0", "Timer" >>
PinIntMain         == << "ClockExt", "LED_0", "Button" >>
PmShutdownMain     == << "ClockExt", "LED_0", "Rtc" >>
PmSleepMain        == << "ClockExt", "LED_0", "Timer" >>
PmSuspendMain      == << "ClockPll", "LED_0", "Rtc", "SuspendLoop" >>
PwmMain(pwm)       == << "ClockExt", "LED_0", pwm, "Timer" >>
RtcMain            == << "ClockExt", "LED_0", "Rtc" >>
SerialMain         == << "ClockPll", "LED_0", "Serial" >>
SerialDmaMain(s)   == << "ClockPll", "LED_0" >> \o s
SpiMain(spi)       == << "ClockPll", "SPI_CS", "LED_0", spi, "Timer" >>
SpimMain(poll)     == << "ClockExt", "LED_0" >> \o poll \o << "Spim", "Timer" >>
SysTickMain        == << "ClockExt", "LED_0", "SysTick" >>
TicklessMain       == << "ClockExt", "PWM_0" >> \o Leds \o << "Timer", "FreerunningTimer" >>
TimerMain(timer)   == << "ClockExt", "LED_0", timer >>
TimerFactoryMain   == << "ClockExt" >> \o Leds \o << "Timer" >>
UsbCdcMain         == << "ClockPll", "LED_0", "USB_IND0", "USB_IND1", "Usb" >>
UsbMscMain         == << "ClockPll", "LED_2", "TimerAux", "Sdio", "LED_1", "LED_0",
                         "Timer", "Usb" >>
UsbUacMain(fb)     == << "ClockPll", "LED_1", "LED_0", "USB_IND0", "USB_IND1",
                         "I2S", "Usb" >> \o fb
WdtMain            == << "ClockExt", "BUTTON", "LED_0", "Wdt" >>
WdtTimerMain       == << "ClockExt", "LED_0", "Wdt" >>
WorkQueueMain      == << "ClockExt", "LED_0", "Timer" >>
WorkQueueUniqueMain == << "ClockExt" >> \o Leds \o << "Timer", "AdcTimer" >>

(* ---------------- main() of the programs of one board ------------------ *)
Lpc43AdcStreamMain == << "ClockPll", "LED_0", "Serial", "SctAdc", "AdcStream" >>
EmcFlashMain       == << "ClockPllCustom", "LED_0", "EmcSram" >>
EthRawMain         == << "ClockPll", "LED_0", "PHY_RESET", "Ethernet" >>
Lpc43CompositeMain == << "ClockPll", "Usb0", "LED_0", "LED_1" >>
Lpc43WwdtMain      == << "ClockExt", "BUTTON", "LED_1", "LED_0", "Wwdt" >>
Lpc13uWwdtMain     == << "ClockExt", "BUTTON", "LED_1", "LED_0", "Wwdt" >>
Lpc13SerialPollMain == << "ClockPll", "LED_0", "SerialPoll" >>
Lpc82SerialPollMain == << "ClockPll", "LED_0", "SerialPoll" >>
Lpc17AdcStreamMain == << "ClockPll", "LED_0", "AdcTimer", "Timer", "Serial", "AdcStream" >>
Lpc82AdcStreamMain == << "ClockPll", "LED_0", "Serial", "AdcTimer", "AdcStream" >>
IrqBaseMain        == << "ClockExt", "LED_0", "LED_1", "GpTimer0", "GpTimer1" >>
IrqGroupMain       == << "ClockExt", "LED_0", "LED_1", "GpTimer0", "GpTimer1" >>
FreerunMain        == << "ClockExt", "LED_0", "GpTimer0" >>
Lpc17CompositeMain == << "ClockPll", "Usb", "LED_0", "LED_1" >>
CdcStringsMain     == << "ClockPll", "LED_0", "Usb" >>
QspiNorMain        == << "ClockExt", "MEM_CS", "LED_0", "Qspi", "Timer" >>

(* ------------------------- what each board builds ---------------------- *)
Templates ==
  [ adc |-> AdcMain("Adc"), adc_dma |-> AdcDmaMain, adc_oneshot |-> AdcOneShotMain,
    bod |-> BodMain, can |-> CanMain, capture |-> CaptureMain,
    clock_out |-> ClockOutMain("CounterTimer"), counter |-> CounterMain,
    dac |-> DacMain, dac_dma |-> DacDmaMain, dma_memcopy |-> DmaMemcopyMain,
    eeprom |-> EepromMain, flash |-> FlashMain("Flash"), i2c |-> I2CMain("I2C"),
    i2c_slave |-> I2CSlaveMain, i2c_test |-> I2CTestMain, i2s_echo |-> I2SEchoMain,
    i2s_tone |-> I2SToneMain, machine_timer |-> MachineTimerMain, mmcsd |-> MmcsdMain,
    mmcsd_spi |-> MmcsdSpiMain, mock_os |-> MockOsMain, pin_int |-> PinIntMain,
    pm_shutdown |-> PmShutdownMain, pm_sleep |-> PmSleepMain,
    pm_suspend |-> PmSuspendMain, pwm |-> PwmMain("Pwm"), rtc |-> RtcMain,
    serial |-> SerialMain, serial_dma |-> SerialDmaMain(<< "SerialDma" >>),
    spi |-> SpiMain("Spi"), spi_dma |-> SpiMain("SpiDma"), spim |-> SpimMain(<< >>),
    systick |-> SysTickMain, tickless_factory |-> TicklessMain,
    timer |-> TimerMain("Timer"), timer_factory |-> TimerFactoryMain,
    usb_cdc |-> UsbCdcMain, usb_msc |-> UsbMscMain, usb_uac |-> UsbUacMain(<< >>),
    wdt |-> WdtMain, wdt_timer |-> WdtTimerMain, work_queue |-> WorkQueueMain,
    work_queue_unique |-> WorkQueueUniqueMain ]

Plain(names) == [n \in names |-> Templates[n]]
TimedSerialDma == [ serial_dma |-> SerialDmaMain(<< "SerialDma", "Timer" >>) ]

Lpc43Examples ==
  [ clock_out_sct |-> ClockOutMain("CounterTimerSCT"), lifetime |-> LifetimeMain("Timer"),
    memory_sdram |-> MemoryMain("MemorySDRAM"), memory_sram |-> MemoryMain("MemorySRAM"),
    timer_alarm |-> TimerMain("TimerAlarm"), timer_rit |-> TimerMain("TimerRIT"),
    timer_sct |-> TimerMain("TimerSCT"), usb_uac |-> UsbUacMain(<< "UacFeedback" >>) ]
  @@ TimedSerialDma
  @@ Plain({"adc", "adc_dma", "adc_oneshot", "bod", "can", "capture", "clock_out",
            "counter", "dac", "dac_dma", "dma_memcopy", "eeprom", "flash", "i2c",
            "i2c_slave", "i2c_test", "i2s_echo", "i2s_tone", "mmcsd", "mock_os",
            "pin_int", "pm_shutdown", "pm_suspend", "pwm", "rtc", "serial", "spi",
            "spi_dma", "spim", "systick", "timer", "timer_factory", "usb_cdc",
            "usb_msc", "wdt", "wdt_timer", "work_queue", "work_queue_unique"})

Lpc43Programs ==
  [ adc_dma_stream |-> Lpc43AdcStreamMain, emc_flash |-> EmcFlashMain,
    eth_raw |-> EthRawMain, usb_cdc_composite |-> Lpc43CompositeMain,
    wwdt |-> Lpc43WwdtMain ]

M0AppExamples == Plain({"serial", "timer", "usb_cdc"})

Lpc17Examples ==
  [ lifetime |-> LifetimeMain("Timer"), timer_rit |-> TimerMain("TimerRIT") ]
  @@ TimedSerialDma
  @@ Plain({"adc", "adc_dma", "adc_oneshot", "bod", "can", "capture", "clock_out",
            "counter", "dac", "dac_dma", "dma_memcopy", "flash", "i2c", "i2c_slave",
            "i2s_echo", "i2s_tone", "mmcsd", "mmcsd_spi", "pin_int", "pm_shutdown",
            "pm_sleep", "pm_suspend", "pwm", "rtc", "serial", "spi", "spi_dma",
            "systick", "tickless_factory", "timer", "timer_factory", "usb_cdc",
            "usb_msc", "usb_uac", "wdt", "work_queue", "work_queue_unique"})

Lpc17Programs ==
  [ adc_dma_stream |-> Lpc17AdcStreamMain, irq_base_priority |-> IrqBaseMain,
    irq_group_priority |-> IrqGroupMain, timer_freerun |-> FreerunMain,
    usb_cdc_composite |-> Lpc17CompositeMain, usb_cdc_strings |-> CdcStringsMain ]

TraceExamples == Plain({"systick", "usb_cdc", "usb_msc"})

Lpc11xxExamples ==
  Plain({"adc", "adc_oneshot", "bod", "flash", "i2c", "pin_int", "serial", "spi",
         "systick", "timer", "wdt", "wdt_timer"})

Lpc11exxExamples == Plain({"eeprom", "flash", "systick", "timer"})

Lpc13xxExamples ==
  Plain({"adc", "adc_oneshot", "bod", "capture", "clock_out", "counter", "flash",
         "i2c", "pin_int", "pwm", "serial", "spi", "systick", "tickless_factory",
         "timer", "usb_cdc", "wdt", "wdt_timer"})

Lpc13uxxExamples ==
  [ timer_rit |-> TimerMain("TimerRIT") ]
  @@ Plain({"adc", "adc_oneshot", "bod", "capture", "clock_out", "counter", "eeprom",
            "flash", "i2c", "pin_int", "pwm", "serial", "spi", "systick",
            "tickless_factory", "timer", "usb_cdc", "wdt", "wdt_timer"})

Lpc82xExamples ==
  [ i2c_dma |-> I2CMain("I2CDma"), timer_mrt |-> TimerMain("TimerMRT"),
    timer_sct |-> TimerMain("TimerSCT"), timer_wkt |-> TimerMain("TimerWKT") ]
  @@ TimedSerialDma
  @@ Plain({"adc", "adc_dma", "adc_oneshot", "bod", "dma_memcopy", "flash", "i2c",
            "i2c_slave", "pin_int", "pm_sleep", "pwm", "serial", "spi", "spi_dma",
            "systick", "wdt", "wdt_timer"})

Bl602Examples ==
  [ lifetime |-> LifetimeMain("Timer64") ]
  @@ Plain({"i2c", "machine_timer", "pwm", "serial", "serial_dma", "spi", "spi_dma",
            "timer", "timer_factory", "work_queue"})

ImxrtExamples ==
  [ lifetime |-> LifetimeMain("Timer64"), timer_pit |-> TimerMain("TimerPIT") ]
  @@ Plain({"dma_memcopy", "serial", "serial_dma", "systick", "usb_cdc"})

M03xExamples ==
  [ flash_ldrom |-> FlashMain("FlashLDROM"), flash_sprom |-> FlashMain("FlashSPROM"),
    pwm_bpwm |-> PwmMain("PwmBPWM"),
    serial_dma_toc |-> SerialDmaMain(<< "SerialDmaTOC" >>) ]
  @@ TimedSerialDma
  @@ Plain({"adc", "adc_dma", "bod", "flash", "i2c", "pin_int", "pm_sleep", "serial",
            "spi", "spi_dma", "systick", "timer", "timer_factory", "usb_cdc", "wdt",
            "wdt_timer", "work_queue"})

M48xExamples ==
  [ flash_ldrom |-> FlashMain("FlashLDROM"), flash_sprom |-> FlashMain("FlashSPROM"),
    pwm_bpwm |-> PwmMain("PwmBPWM"), spim |-> SpimMain(<< "AdcTimer" >>) ]
  @@ Plain({"adc", "adc_dma", "bod", "can", "dma_memcopy", "flash", "i2c", "mmcsd",
            "pin_int", "serial", "spi", "spi_dma", "systick", "timer", "usb_cdc",
            "usb_msc", "wdt", "wdt_timer"})

Stm32f0Examples ==
  Plain({"adc_dma", "can", "flash", "i2c", "pin_int", "serial", "serial_dma", "spi",
         "systick", "timer", "wdt"})

Stm32f1Examples ==
  Plain({"adc", "adc_dma", "can", "dma_memcopy", "flash", "i2c", "mmcsd_spi", "pin_int",
         "pm_sleep", "pwm", "serial", "serial_dma", "spi", "systick", "timer",
         "timer_factory", "usb_cdc", "wdt", "work_queue"})

Stm32f4Examples ==
  [ memory_sram |-> MemoryMain("MemorySRAM") ]
  @@ Plain({"adc", "adc_dma", "can", "dma_memcopy", "flash", "i2c", "i2s_echo",
            "i2s_tone", "mmcsd", "pin_int", "pm_sleep", "pwm", "serial", "serial_dma",
            "spi", "systick", "tickless_factory", "timer", "usb_cdc", "usb_msc",
            "usb_uac", "wdt", "work_queue", "work_queue_unique"})

Board(setup, pins, mains) == [ setup |-> setup, pins |-> pins, mains |-> mains ]

Boards ==
  [ lpc43xx |-> Board(Lpc43xx, Lpc43Pins, Lpc43Examples @@ Lpc43Programs),
    lpc43xx_m0app |-> Board(M0App, M0AppPins, M0AppExamples),
    lpc17xx |-> Board(Lpc17xx, Lpc17Pins, Lpc17Examples @@ Lpc17Programs),
    lpc17xx_trace |-> Board(Lpc17xxTrace, TracePins, TraceExamples),
    lpc11xx |-> Board(Lpc11xx, Lpc11xxPins, Lpc11xxExamples),
    lpc11exx |-> Board(Lpc11exx, Lpc11exxPins, Lpc11exxExamples),
    lpc13xx |-> Board(Lpc13xx, Lpc13xxPins,
                      Lpc13xxExamples @@ [ serial_poll |-> Lpc13SerialPollMain ]),
    lpc13uxx |-> Board(Lpc13uxx, Lpc13uxxPins,
                       Lpc13uxxExamples @@ [ wwdt |-> Lpc13uWwdtMain ]),
    lpc82x |-> Board(Lpc82x, Lpc82xPins,
                     Lpc82xExamples @@ [ adc_dma_stream |-> Lpc82AdcStreamMain,
                                         serial_poll |-> Lpc82SerialPollMain ]),
    bl602 |-> Board(Bl602, Bl602Pins, Bl602Examples),
    imxrt106x |-> Board(Imxrt, ImxrtPins, ImxrtExamples),
    m03x |-> Board(M03x, M03xPins, M03xExamples),
    m48x |-> Board(M48x, M48xPins, M48xExamples @@ [ qspi_nor |-> QspiNorMain ]),
    stm32f0 |-> Board(Stm32f0, F0Pins, Stm32f0Examples),
    stm32f1 |-> Board(Stm32f1, F1Pins, Stm32f1Examples),
    stm32f4 |-> Board(Stm32f4, F4Pins, Stm32f4Examples) ]

(* ------------------ from the names to the statements ------------------- *)
PinNames ==
  {"LED_0", "LED_1", "LED_2", "USB_IND0", "USB_IND1", "BUTTON", "SPI_CS", "PWM_0",
   "MEMCOPY_CH", "MEM_CS", "PHY_RESET"}

\* The chip select of mmcsd_spi: BOARD_SDIO_CS or else BOARD_SPI_CS.
CardSelect(pins) ==
  Pins({IF "SDIO_CS" \in DOMAIN pins THEN pins.SDIO_CS ELSE pins.SPI_CS})

\* What main() does itself instead of calling the board.
ByMain(board) ==
  [ SysTick      |-> Device({"SYSTICK"}),
    MachineTimer |-> Device({"MTIMER"}),
    FastTimer    |-> Need(Counts(50)),
    SctAdc       |-> Device({"SCT.L"}),
    EmcSram      |-> Device({"EMC"}),
    GpTimer0     |-> Timer({"TIM0"}, 1),
    GpTimer1     |-> Timer({"TIM1"}, 1) ]

\* Mutant: the core is not put to sleep.
SuspendLoopAwake(setup) == Forever(setup.ResetClock \o setup.ClockPll)

\* The loop of pm_suspend: the clocks are reset, the core sleeps until the
\* alarm, the clocks are set up again.
SuspendLoop(setup) == Forever(setup.ResetClock \o Sleep \o setup.ClockPll)

Statements(board, name) ==
  IF name \in DOMAIN board.setup THEN board.setup[name]
  ELSE IF name \in PinNames
       THEN IF name \in DOMAIN board.pins THEN Pins({board.pins[name]}) ELSE << >>
  ELSE CASE name = "CardSelect"     -> CardSelect(board.pins)
         [] name = "SuspendLoop"    -> SuspendLoop(board.setup)
         [] name = "ClockPllCustom" -> ClockPllCustom(SafeCoreFrequency)
         [] OTHER                   -> ByMain(board)[name]

Programs == UNION { {<< b, e >> : e \in DOMAIN Boards[b].mains} : b \in DOMAIN Boards }

ProgramCode(board, example) ==
  FlattenSeq([i \in 1..Len(board.mains[example]) |->
                Statements(board, board.mains[example][i])])

CodeOf(p) == ProgramCode(Boards[p[1]], p[2])
=============================================================================
