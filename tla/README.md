# TLA+ verification of the ESPeciaL back-end

The repository holds a hardware abstraction layer (HAL) for the STM32-103STK
board (`src/stm32f10x_lib`), sample programs (`src/demos`) and a QEMU extended
with an STM32 microcontroller and the board (`src/qemu_stm32`). A *monitor*
(the Scala side, not in the repository) connects to the emulator over two TCP
sockets: it is sent every output change and every event of the program, and it
sets the buttons and acknowledges events.

This directory models the parts of that system that ESPeciaL wrote or changed
and that have state: it does not model QEMU, FreeRTOS or ST's library.

## The system and its parts

| part | code | state, actors | model |
|---|---|---|---|
| TCP gateway | `hw/arm/stm32_p103_emul.c` | queue of commands; device handlers, two threads, the monitor | `P103Emul` |
| P103 board | `hw/arm/stm32_p103.c` | none; maps outputs to commands and buttons to pins | in `P103Emul` |
| USART | `hw/char/stm32_uart.c` | registers, two timers; virtual CPU, main loop | `Uart`; UART5's hooks in `P103Emul` |
| EXTI | `hw/gpio/stm32_exti.c` | registers, NVIC inputs | `Exti` |
| GPIO port | `hw/gpio/stm32_gpio.c` | registers, pins | `Gpio` |
| AFIO | `hw/gpio/stm32_afio.c` | routing of EXTI lines, remapping | `Afio` (routing) |
| NVIC | `hw/intc/arm_gic.c` | enabled, pending and running interrupt | `Nvic` |
| Clock tree | `hw/arm/stm32_clktree.c` | frequencies | `Clktree` |
| RCC | `hw/arm/stm32_rcc.c` | clock configuration, enables | `Rcc`, with the baud rate of `stm32_uart.c` |
| Interrupt controller | HAL `controller/intcontroller.cpp` | callbacks by line | `Buttons` |
| Digital input | HAL `digitalinput.cpp` | cached state | `Buttons` |
| QemuLogger | HAL `utils/qemulogger.h` | none; post and wait | in `P103Emul` |
| Serial helpers | HAL `helper.c` | index of the text | `Serial` |
| Time | HAL `utils/time.c`, `time.h` | millisecond counter | `Time` |
| Pulse input | `demo/pulseinput.cpp` | counters and times | `PulseInput` |
| MCU wiring, Maple board | `hw/arm/stm32.c`, `stm32_maple.c` | wiring, one key | not modelled |
| Digital output, PWM, analog input, PID, delay | HAL, `demo/pid.c` | see "Not modelled" | not modelled |

How they interact: a program writes a GPIO register; the port drives its output
lines; the board turns a line of an LED into a command; the gateway queues it
and its *cmd* thread writes it to the monitor. In the other direction the *evt*
thread reads four-byte messages and drives a button pin; the port passes the
level to the EXTI line selected by the AFIO; EXTI raises an input of the NVIC;
the HAL's interrupt controller calls the input object, which caches the level.

## Modules

**`FifoChannel`** is the abstract specification of a transmission path: messages
wait in `pending` and move to `wire` in order; a `Lossy` channel may drop what
is pending. It models no code.

**`Uart`** has one action per register access, timer and character-device
callback of one USART. Handlers run under QEMU's global lock, so each is one
step. `chr_read_poll` and `receive` are two steps because the main loop releases
the lock between asking `can_receive` and delivering the byte. `hw_error` aborts
the emulator, which is the state `halted`. `unseen` is a history variable. Baud
rates only decide when a timer fires: an armed timer may fire at any time. BRR,
CR2 and CR3 are therefore left out here (the baud rate is in `Rcc`). `sr_written`
records that software has written USART_SR since the reset: such a write can
clear TC while nothing is sent, and the properties about progress end there.
The two compile-time options of the file
are off, as in the source.

**`P103Emul`** has four processes. `dev` is the device handler that posts a
command (`event_post`, `event_queue_add`, `post_check`: the size is read, the
command queued and the limit tested at three different moments) and the wait of
the program for an acknowledge. `cmd` and `evt` are the two threads, split where
another process can interfere. The monitor is external. A condition variable is
the pair of states `waiting` and `woken`: a signal that finds nobody waiting
changes nothing. `Faults` selects what may fail in a run. Linking a command
behind the freed head of the list (after a failed write) is undefined in C; it
works or crashes.

**`Exti`** and **`Gpio`** represent a register as the set of the lines or pins
whose bit is 1. A register write that loops over the bits is one step. In
`Exti` a failed assertion is `halted`; the reset of the NVIC together with the
machine forgets the levels. In `Gpio` of the configuration registers only the
direction they give each pin is kept; `settled` is the history of the pins whose
output was driven to their bit. Accesses with the peripheral clock off only
print a warning in the code and are not distinguished.

**`Serial`** runs the program of the serial helpers on `Uart`, which it extends:
each register access of `init_usart2`, `enable_rs232` and `send_byte` is one
action of the device taken together with a step of the program. A machine reset
restarts both.

**`Buttons`** composes the way of a button from its pin to the state cached by
`DigitalInput`: instances of `Exti`, **`Afio`** (which port drives a line) and
**`Nvic`** (level-triggered interrupts of one priority, from `arm_gic.c`) under
three actors. *Board* changes a pin, as the evt thread does, between any two
device accesses, and resets the machine. *Handler* is the interrupt handler of
the HAL, step by step from `checkLineFlag` over the callback to the return.
*Main* calls `initialize`, `unregisterInt` and `read`; each register access of
`registerInt` (in `GPIO_EXTILineConfig`, `EXTI_Init`, `NVIC_Init`) is a step of
its own that a handler may interrupt. `unnoticed` is the history of inputs whose
last change fell where the code cannot notice it.

**`Clktree`** is a tree of clocks, given by its links. A call recomputes one
clock and pushes one call for each clock below it, which is dropped in its turn
if that clock has selected another input; `calls` is that stack, so every moment
of the recursion is a state. **`Rcc`** instantiates it with the
25 clocks of `stm32_rcc_init_clk` and turns each register write into the calls
the code makes, in its order, one per step. The users of clocks, SysTick scale
and the baud rate of USART2, are told within the step that stores a frequency.

**`Time`** is the counter of timer 2 with timeouts modulo `M` (2^32 in the
code); **`PulseInput`** adds the interrupt of the pulse demo, with a tick
possible between any two statements that read the clock. `now`, `set_at`,
`start_at` and `span` are history: true times, to compare what wraps with.

The `MC` modules give the constants values.
Operators introduced by "Mutant of" are deliberately wrong variants of the
definition after them; they show that the properties can fail.

## Runs

| run | result | what it asks |
|---|---|---|
| `uart` | holds | interrupt level and flags agree after every handler; an overwritten character is reported; transmissions have a timer; the transmitter is a FIFO of one place that only a reset may empty; parked characters leave; the receiver reopens, resets included |
| `serial` | holds | `println` never makes the USART abort the emulator, hands over its text in order without loss, and returns, resets included |
| `emul_faults` | holds | under all faults: the counter counts the queue, the queue is bounded, the monitor is sent a prefix of what was posted |
| `emul_ack` | holds | without faults: an acknowledge means delivery, buttons settle, posts return, a wakeup empties the queue |
| `emul_lost_ack` | **violated** | an acknowledged event lets the program continue (`stm32_p103_emul.h:49`) |
| `emul_lost_wakeup` | **violated** | output changes are sent (`stm32_p103_emul.h:6`) |
| `exti_lines` | holds | an NVIC input is high only for a pending line; a line with its own input keeps it high; software triggers re-arm |
| `gpio_outputs` | holds | driven outputs show their bit of ODR |
| `buttons` | holds | the cached state is the level of the pin outside named windows; one port drives a line; pending interrupts are served |
| `button_assert` | **violated** | an interrupting line has its callback (`assert(valid)`, `intcontroller.cpp:108`) |
| `clocks` | holds | core and buses have the frequencies that `stm32f10x.h` documents for the registers, up to the first prescaler above 4; the tree is consistent; the users follow; the USART does not divide by zero; a write ends |
| `time` | holds | timeouts elapse on time wherever the counter wraps; a measured pulse time is the time that passed |

The three violated runs are disagreements between the code and what a comment, a
header or an assertion of the repository says; `PROJECT.json` quotes each.

### Where the properties stop, and what the code does there

* USART: `can_receive` is asked before the main loop releases the lock and used
  after it, so a receiver enabled meanwhile overwrites an unread character,
  against the comment at `stm32_uart.c:389`. `OverrunReported` shows that it is
  always reported.
* GPIO: a pin reset by the upper half of BSRR changes in ODR and not on its
  output (`stm32_gpio.c:288`); `tests/test-stm32.c:118-120` expects it to fall.
  `OutputsFollowODR` leaves out exactly these pins, until they are driven again.
  The comment at `stm32_gpio.c:158` says that a write of ODR sets every output;
  line 161 sets those whose bit changed. The two differ for a pin that became an
  output after its bit was written.
* EXTI: lines 5 to 9 (and 10 to 15) share an NVIC input, which follows the bit
  that changed last: clearing one line lowers the input of another that is still
  pending. `OwnInputRaised` is about the other lines. With two inputs on such
  lines `PendingServed` and `CacheFresh` fail; the buttons of the board (PC0,
  PC1, PC2, PC6) do not share.
* Gateway: an acknowledge names no event; after a machine reset that of an event
  posted before it confirms the next. `AckMeansDelivered` is checked without
  resets.
* Buttons: a change goes unnoticed between the callback and the end of its
  interrupt, because the pending bit is cleared after the pin is read; while the
  main program is between reading a pin and storing it; and when `registerInt`
  or `unregisterInt` drops an edge that was pending. An input that is refused a
  line has taken its routing. A line that `registerInt` masks while it is pending
  is not cleared by the handler, which is entered again and again.
  `unregisterInt` leaves the line enabled, so that the next edge fails the
  assertion. A reset of the AFIO connects port A and disconnects nobody:
  `OneDriver` is about the time before the first reset.
* Clocks: the code computes the prescalers of the buses as 2(P-3) and 2(H-7),
  where `stm32f10x.h` names powers of two. The model of the write follows the
  code; the reference of `ClocksFollowRegisters` has the factors of the header
  and is compared where the two agree: the core clock and the buses as long as
  the prescalers before them divide by no more than 4. Beyond, the code divides
  by 6 to 16 where the header says 8 to 512. The header has no name for the value
  15 of PLLMUL (the code multiplies by 16), which is left out while the PLL is
  selected. The mask of APB1ENR drops the bits of the USARTs, so a
  read-modify-write for another peripheral stops them: `time_init` after
  `init_usart2` stops the clock of USART2, which then prints warnings. A write of
  a reset register switches clocks as the enable register does. A BRR above the frequency of the USART's clock makes
  `stm32_uart_baud_update` divide by zero; 62.5 kHz is the slowest clock that
  runs.
* Serial: `println` counts with eight bits and does not end on longer texts.
* Time: a timeout of `INT32_MAX` ms or more looks elapsed at once; one of `ms`
  is reported from the second tick after it. The pulse interrupt measures after
  four counted edges where the comments at `pulseinput.cpp:30` and
  `pulseinput.h:32` say four pulses (eight edges). `time_init` for a second input
  sets the clock back under the first.

### Bounds

* `MaxOut` 3: one character on the line, one parked, one more
  to be refused or to follow. The values 1 and 770 are told apart on the wire,
  and 770 has bits that the register and the wire cut off. Five values of CR1
  cover each direction on and off and each interrupt.
* `QueueLimit` 1 with four posts in `emul_faults`: the queue passes the limit,
  the emulator exits, and one post more would break the bound. `SockCap` 1 makes
  `write` block. In `emul_ack` three posts and two messages suffice for an
  acknowledge with commands before and after it and a press and release.
* Four EXTI lines: one with its own input, two that share one, of which one is
  triggered while masked, and line 19, which has none and fails an assertion.
  Three pins, in both halves of the configuration.

* Serial: three characters with an index of two bits, the longest text that it
  can count; three calls and two resets interrupt each other everywhere.
* Buttons: an input with its own NVIC input, one on a shared input, and one of
  another port that competes for the first line. Two pin changes, four calls and
  a reset are enough for an edge within each window of each call.
* Clocks: the whole tree of the board. Five values of CFGR select each
  oscillator, both ends of every prescaler and multiplier, the prescalers 2 and 4
  (the last at which code and header agree), and the setting the code refuses;
  three values of CR stop and start the sources. The divider 62500 is the largest
  that no running clock makes trap.
* Time: a counter of three bits and eleven ticks, so that it wraps within a
  timeout and within a measure; the filter is two ticks, for which twelve stand
  in the code.

Deadlock is not checked where the bounds, or an abort of the emulator, really
end a behaviour: all runs but `gpio_outputs`.

### Fairness

QEMU's main loop runs timers whose time has come (`WF` of the timer actions of
`Uart`). The virtual CPU executes the program: in `Serial` the steps of the
helpers, in `Buttons` those of the interrupt handlers, in `Rcc` a register write
that has begun. The host schedules the threads, a
handler once begun runs on, and the monitor keeps reading (`WF` of each process
of `P103Emul`). Otherwise nothing is assumed of the program: it need not post,
read or write. `Time` has no liveness: no code of the repository polls a timeout.
`ButtonsSettle` is checked for reads that return whole messages.

## Proofs

All theorems hold for every value of the constants that satisfies the named
`ASSUME`s (for example every `QueueLimit`, every set of faults, all twenty
lines); TLC evaluates the assumptions in the runs.

* `P103EmulProofs`: `TypeOK`, `SizeMatches`, `QueueBound` and the refinement
  `GatewayIsFifo`, under every set of faults. `QueueInv` relates the size a
  handler read without the lock to the queue it later finds: the queue can only
  have become shorter, because posts are serialised by QEMU's global lock. It
  also says that the thread that sends has something to send.
  `ButtonsSettle`, under every set of faults, if `read()` returns whole messages
  (`WholeReads4`): `ButtonInv` says that the last message under way for a button
  asks for the level sent last. `AckMeansDelivered`, although connections and
  writes may fail, if moreover no wakeup is spurious, the machine is not reset
  and the monitor acknowledges only events (`OwnAcks`): `AckInv` says that an
  unacknowledged event is the last command posted, whether in the list, in the
  socket or, as the only acknowledge, in the stream, and that the program then
  waits for it.
* `ExtiProofs`: `TypeOK`, `IrqMeansPending`, `OwnInputRaised`, and
  `SwierRearmed`. `ExtiInv` adds to the first three that line 19, which has no
  input, is not pending unless its assertion has failed.
* `GpioProofs`: `TypeOK`, and `OutputsFollowODR` for every sequence of writes.
* `SerialProofs`, first of the USART: `TypeOK`, `IrqTracksFlags` and the
  refinement `TxIsFifo`. The interrupt invariant is not inductive by itself,
  because `tx_complete` updates the interrupt before `start_tx` lowers TC.
  `UartInv` adds `ParkedWhileBusy`: a character is parked only while TC is 0, so
  that lowering TC changes nothing.
  `OverrunReported` and `TransmitHasTimer` follow from the inductive `DriverInv`,
  which adds that ORE can only be cleared after the status was read.
  Then of the driver on it: `NoAbort` and `PrintsText`, for every text shorter
  than the range of the index. `ReadyInv` adds to the invariant of the USART that
  its transmit register is free whenever the program is not polling, so that no
  write finds it full; `PrintInv` counts what was accepted, on the line or parked.
* `ButtonsProofs`: `TypeOK` and `OneDriver` for all sets of inputs, and
  `CacheFresh` for inputs whose lines have an NVIC input of their own
  (`Exclusive`, true of the board). `LineInv` relates the EXTI line, the NVIC and
  the handler: a pending line that is enabled is pending in the NVIC or being
  served. `FreshInv` says that a stale state belongs to an input whose callback
  has not been made; `CacheFresh` alone is not inductive, since the interrupt
  that is due may call another input.
* `ClktreeProofs`, `RccProofs`: `TreeConsistent`, for every tree and then for
  that of the RCC, `UsersFollowClocks` and `TypeOK`, for all values written. The
  invariant `TreeInv` describes the middle of a propagation: a clock that differs
  from its input has a call for it on the stack, and no call on the stack carries
  an old frequency, because the calls of the clocks created last come first and
  no clock is fed by one created after it.
  `ClocksFollowRegisters`, for all values written and all oscillators: the lemma
  `Factors` says where the scales of the code are those of the header. `RegInv`
  says that the scale and the input of each clock are those that CFGR calls for,
  or the call that makes them so is still to be made (or, for the setting the
  code refuses, the abort), that what is to be made is what CFGR calls for, that a
  clock without an input keeps the frequency of its oscillator, and that no
  register stops the clocks of the buses. `NoTrap` has the hypothesis
  `DividersFit`: 128 times a divider written to BRR does not exceed the
  oscillators (128 is 16 times 8, the largest prescalers). The `clocks` run
  satisfies it with equality, and without it the code does trap. `LowInv` bounds
  every clock from below, whatever CFGR was and is: the input and the output of
  each are 0 or at least a multiple of the divider, which each scale, those the
  clocks are created with included, keeps.
* `PulseProofs`: `TypeOK`, `TimeoutOnTime` and `PulseMeasured`, for every even
  range `M` of the clock (2^32 in the code), every filter below `M` and every
  value that the uninitialised times may hold.
  The clock values wrap and the true times do not, so the invariants are
  congruences modulo `M`: `TimeoutInv` (the timeout less the clock is the delay
  less the age), `StartInv` (the clock less the start is the time since then) and
  `EdgesInv` (the same of the last counted edge, and that the counted edges are a
  filter time apart). A difference that fits the clock is then the true one. The
  step from the signed difference of `time_diff_ms` to the unsigned one is the
  lemma `Uint32Diff`.

Only model-checked: the liveness properties (`ParkedLeaves`, `RxReopens`,
`PostReturns`, `WakeupDrains`, `PrintlnReturns`, `PendingServed`, `WriteEnds`),
which the proof system cannot handle, and the properties of the three violated
runs. Every invariant and action property that a passing run checks is also a
theorem, some under the assumptions named above.

## Not modelled

* Most of the repository is vendored: QEMU (of whose two thousand files the STM32
  devices and the gateway are a few), FreeRTOS, ST's peripheral library, the C
  run time. The models cover the code the project wrote or changed and the parts
  of the vendored code it depends on (interrupt controller, register sequences of
  the ST library), a small share of the lines in `src/`; modelling an
  instruction-set emulator or a file system driver would say nothing of ESPeciaL.
* Digital outputs and the LED helpers: each method is one access of a register
  that `Gpio` models. PWM and analog input: set-up of peripherals the emulator
  does not have. `delay.c`: a busy loop. PID: floating point.
* MCU wiring: executed once, without later state. Maple board: not used by the
  HAL.
* The SysTick scale of the external reference (`stm32_rcc.c:719`, `:726`): it is
  computed from HCLK / 8 as the modelled one is from HCLK. Its divisor would be 0
  below 8 Hz; from the oscillators of the board HCLK is at least 500 kHz when it
  runs.
* AFIO_MAPR: the remap bits of USART1 and USART2 keep their value whatever is
  written, because line 89 of `stm32_afio.c` reads the register and nothing
  stores it.
* The data race of a pin change inside a device access, since the evt thread does
  not take QEMU's global lock. The models interleave whole accesses.
* Bytes that the character device does not take: the model of the USART ends at
  the call of `qemu_chr_fe_write`.
