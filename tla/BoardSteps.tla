----------------------------- MODULE BoardSteps -----------------------------
(***************************************************************************)
(* The statements that the files board.c and the first lines of main() are *)
(* made of, as far as clocks, peripherals and pins are concerned.  Every   *)
(* constructor gives a sequence of statements, so that a C function is     *)
(* written as the concatenation (\o) of its statements in their order.     *)
(* A clock is named by its object (ExternalOsc, SystemPll, MainClock...),  *)
(* a resource by a string: a pin "5.7", a channel "UART1", "DMA4".         *)
(* clockEnable, clockReady, init and the others are functions of the halm  *)
(* library, modelled from how board.c relies on them.                      *)
(***************************************************************************)
EXTENDS Integers, Sequences

\* What is always there: the internal oscillator at reset, the crystals and
\* the clock that the Ethernet transceiver feeds in.
Roots == {"Internal", "Crystal", "Crystal32k", "Phy"}


Ready(c)    == [is |-> "ready", clk |-> c]      \* clockReady(c)
Stopped(c)  == [is |-> "stopped", clk |-> c]    \* !clockReady(c)
Above(c, f) == [is |-> "above", clk |-> c, mhz |-> f] \* clockFrequency(c) > f
Local(v)    == [is |-> "local", var |-> v]      \* a local bool of the function
Unset(v)    == [is |-> "unset", var |-> v]
Saved       == [is |-> "saved"]                 \* loadClockSettings() succeeds
Counts(k)   == [is |-> "counts", khz |-> k]     \* timerGetFrequency() >= k kHz
Never       == [is |-> "never"]

\* clockEnable(c, ...) with source s; c runs at the rate of s * m / d.
OnAt(c, s, m, d) ==
  << [op |-> "on", clk |-> c, src |-> s, mul |-> m, div |-> d] >>
On(c, s) == OnAt(c, s, 1, 1)

\* clockEnable of a divider whose divisor is the least that keeps the clock
\* at f MHz or below: (frequency + f - 1) / f.
OnWithin(c, s, f) == << [op |-> "within", clk |-> c, src |-> s, mhz |-> f] >>

Wait(c)    == << [op |-> "wait", clk |-> c] >>  \* while (!clockReady(c));
Off(c)     == << [op |-> "off", clk |-> c] >>   \* clockDisable(c)
Need(t)    == << [op |-> "assert", test |-> t] >>
Note(v, t) == << [op |-> "note", var |-> v, test |-> t] >>    \* v = t
Forget     == << [op |-> "forget", var |-> "loaded"] >>
                       \* memset(&sharedClockSettings, 0) and loaded = false
Sleep      == << [op |-> "sleep"] >>  \* pmChangeState(PM_SUSPEND)

If(t, a) == << [op |-> "if", test |-> t, n |-> Len(a)] >> \o a
IfElse(t, a, b) ==
  If(t, a \o << [op |-> "jump", n |-> Len(b)] >>) \o b
Forever(a) == a \o << [op |-> "jump", n |-> -(Len(a) + 1)] >>

Start(c, s) == On(c, s) \o Wait(c)
StartAt(c, s, m, d) == OnAt(c, s, m, d) \o Wait(c)

\* init(Driver, &config): the driver owns the resources R of the device and
\* works from clock c.  Counter: a timer that counts k thousand times a second.
Use(c, R)        == << [op |-> "init", clk |-> c, res |-> R, khz |-> 0] >>
Counter(c, R, k) == << [op |-> "init", clk |-> c, res |-> R, khz |-> k] >>
Device(R)        == Use("MainClock", R)
Timer(R, k)      == Counter("MainClock", R, k)
Pins(R)          == Use("Internal", R)           \* pinInit()

\* The two set-ups of the core clock that most boards share: from the crystal,
\* and from the PLL that the crystal feeds.
CoreFromCrystal == Start("ExternalOsc", "Crystal") \o On("MainClock", "ExternalOsc")
CoreFromPll ==
  Start("ExternalOsc", "Crystal") \o Start("SystemPll", "ExternalOsc")
    \o On("MainClock", "SystemPll")

\* Mutant: the clock is taken before the PLL has locked.
UsbFromUnlockedPll(R) ==
  On("UsbPll", "ExternalOsc") \o On("UsbClock", "UsbPll") \o Use("UsbClock", R)

\* Usb of the LPC boards: a PLL of its own, then the clock of the device.
UsbFromPll(R) ==
  Start("UsbPll", "ExternalOsc") \o Start("UsbClock", "UsbPll")
    \o Use("UsbClock", R)
=============================================================================
