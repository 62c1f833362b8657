# NEORV32 with the rvve vector engine: formal models

The repository is the NEORV32 RISC-V system on chip (VHDL) in the version that
carries a custom vector engine: `vector_control_sync` in
`src/rtl/core/neorv32_cpu_control.vhd`, a packing buffer in
`neorv32_cpu_bus.vhd`, a second write port in `neorv32_cpu_regfile.vhd` and the
accumulator and byte multiplier in `neorv32_cpu_alu.vhd` and
`neorv32_cpu_cp_muldiv.vhd`. This directory holds TLA+ models of the parts whose
correctness depends on the order of events, the configurations that check them
with TLC, and proofs checked by TLAPS.

All paths without a directory are under `src/rtl/core/`.

## 1. Inventory

| Component | State it keeps | Operations | Talks to | What makes it correct |
|---|---|---|---|---|
| Vector control engine (`neorv32_cpu_control.vhd`, `vector_control_sync`) | twelve states, two 7-bit counters, three register numbers, `csr_vl`, its own control bus, `vector_op_finished` | arithmetic (`vadd`, `vmul`, `vmac`), unit-stride and strided loads and stores, `vcsr` | started and awaited by the execute engine; takes the control bus over with `switch_to_vector_control`; drives register file, ALU, multiplier and bus unit | an instruction does to registers and memory what its fields say, for every bus latency; the control bus is given back; nothing is left running after a fault |
| Execute engine (same file) | state, instruction register, pc, next pc | dispatch, execute, wait for ALU/bus/vector engine, branch, trap entry and exit, sleep | issue engine (instructions), trap controller, vector engine, bus unit | every instruction ends; the pc of a trap is the pc of its instruction |
| Issue and fetch engine (same file) | fetch state, fetch pc, two prefetch FIFOs, alignment flag | fetch a word, push half-words, restart at a branch, issue 16- or 32-bit instructions | instruction bus, FIFOs, execute engine | the issued word is the memory's at that pc; no restart is lost |
| Trap controller, CSRs and debug mode (same file) | exception and interrupt buffers, cause, `env_start`, trap CSRs, state of debug mode | collect, prioritise, start, acknowledge; enter, leave and re-enter debug mode | execute engine, bus unit, interrupt lines, debug module | a condition is served once, with its own cause; none is lost; a trap comes between two instructions; debug mode leaves the program's trap state alone |
| Data-bus unit (`neorv32_cpu_bus.vhd`) | address, write and read data, packing buffer, arbiter (pending, error) | latch address, request, collect, align, time out | control bus, bus switch, trap controller | one access at a time; signals stable until answered; errors go to the access that caused them |
| Register file, ALU, multiplier | registers, accumulator, two pipeline stages | read, write, add, multiply | control bus | distances between read and write |
| Bus switch, bus keeper (`neorv32_busswitch.vhd`, `neorv32_bus_keeper.vhd`) | arbiter state, two request buffers; pending flag and time-out counter | arbitrate, answer, time out | instruction and data port, memories, devices, external bus | every request answered once, on its own port |
| External bus interface (`neorv32_wishbone.vhd`) | state, latched request, time-out | request, answer, abort | bus switch, outside | a late answer is never taken for the next one |
| FIFO (`neorv32_fifo.vhd`) | two pointers with an extra bit, memory, read port | write, read, clear, in one cycle | prefetch buffers, serial interfaces | it is a queue; its status outputs agree |
| Instruction cache, peripherals, debug module, co-processors, memories | registers and shift engines | bus registers | bus, pins | see `components` in `PROJECT.json` |
| Vector kernels (`src/sw/vector_c_runtime`, `src/sw/lstm_vec`) | loop counters, local `vl`, pointers, the configured `csr_vl` | element-wise operations, matrix-vector and matrix products, convolution | vector engine, memory | the scalar kernel's result for every size; a legal vector length; no register the compiler keeps |
| Bootloader and image generator (`src/sw/bootloader`, `src/sw/image_gen`, `crt0.S`) | `exe_available`, `getting_exe`, instruction memory, flash, LED | auto boot, console, upload, load, store, trap handler | UART with its FIFO, SPI flash, timer, host | nothing but a complete executable starts; what is stored can be loaded, whatever is lost or interrupted |
| Runtime environment and drivers (`src/sw/lib`) | handler table, peripheral registers | trap dispatch, set-up | CPU, peripherals | the handler returns behind the instruction that faulted |

How the parts interact: everything in the CPU is clocked, and one part sees what
another has decided one clock later, through registers. The vector engine's
registered control bus, the one-cycle-later answer of the arbiter, the trap
flags one cycle after that and `env_start` one more cycle after that are four
stages at each of which the other engines go on. The parts outside the CPU answer
after an unknown number of cycles.

Hard behaviours, each listed with its line under `hazards` in `PROJECT.json`:

* two engines on one control bus, and a bus error that ends the instruction for
  one of them only;
* requests that are suppressed (unaligned, PMP) and never answered;
* errors that arrive while the next element or the next instruction is on its
  way, together with interrupts;
* an address register that is written by a control signal while an access of
  unknown latency is open;
* the distances between register reads and writes of in-place operations;
* interrupts, exceptions, halt requests, single steps and breakpoints that become due in
  different cycles of one instruction, of a sleep, or of the entry into another trap;
* an upload without flow control, a flash that goes on working across a reset, a reset or
  a power failure between any two bytes that are stored;
* loop lengths that are refitted from the last tile of another row;
* boundaries: vector length 0 and 125 and above, the destination group that wraps
  into `x0`, the byte load that starts inside a word, the FIFO at full and empty.

## 2. Modules

| Module | What it models |
|---|---|
| `VectorInstr` | instruction records, register numbers, symbolic words, addresses of elements; shared by the next two |
| `VectorIsa` | abstract specification: what a vector instruction promises to the program |
| `VectorEngine` | the detailed model: vector engine, the execute engine around it, trap flags, bus unit, register file, ALU, multiplier |
| `VectorEngine_proofs` | types, the hand-over between the engines, the bus, precise faults, and refinement of `VectorIsa`, for every program and memory map |
| `BoundedQueue` | abstract specification of a FIFO buffer |
| `Fifo` | `neorv32_fifo.vhd` |
| `Fifo_proofs` | types, status outputs and refinement of `BoundedQueue`, for every depth |
| `BusPorts` | abstract specification: what the bus promises to the two ports of the CPU |
| `BusFabric` | bus switch, bus keeper, external bus interface and what answers behind them |
| `ProgramOrder` | abstract specification: instructions are the memory's, whole and in program order |
| `InstrFrontEnd` | fetch engine, prefetch buffers, issue engine and the execute engine as far as it touches the pc |
| `InstrFrontEnd_proofs` | types, restarts, buffer levels, single outstanding fetch, fetch faults and refinement of `ProgramOrder`, for every depth and program |
| `BusFabric_proofs` | types, watching, error record and refinement of `BusPorts`, for every address map and latency |
| `FetchPath` | composition: `InstrFrontEnd` on port B of `BusFabric` |
| `FetchPath_proofs` | the composition implements `InstrFrontEnd`, hence `ProgramOrder`, for every system |
| `TrapOrder` | abstract specification: what traps promise to the interrupted program and to the debugger |
| `Traps` | trap controller, trap CSRs, debug mode, and the execute engine as far as it begins and ends instructions |
| `Traps_proofs` | types and refinement of `TrapOrder`, for every program, set of interrupts and priority |
| `Coverage` | abstract specification: sweeps over an array in pieces that fit |
| `TileLoop` | the tiling loop that every vector kernel is built around |
| `KernelIsa` | the vector instructions as a function of registers, memory and `csr_vl` |
| `ScalarKernels` | the scalar kernels: what each result is |
| `Kernels` | the vector kernels |
| `Kernels_proofs` | tiles, lengths, clobbered registers and results of every kernel, for calls of every size |
| `BootImage` | the format of an executable |
| `Bootloader` | bootloader, host, receive FIFO, flash, resets and power failures |
| `Bootloader_proofs` | types, flash protocol, what is stored and what is accepted, for every file and every size |
| `MCVectorEngine`, `MCBusFabric`, `MCFetchPath`, `MCKernels`, `MCBootloader`, `MCTraps` | instances for TLC |

### VectorEngine

One step is one clock edge (`Cycle`): every register of the design takes its next
value from the values before the edge, so `Cycle` is the conjunction of the
units, and what is nondeterministic is only what comes from outside: the answer
of the bus slave (`MayAnswer`) and the interrupt lines (`irq`). Each state of
`vector_control_sync` is an operator named after it (`MemReqUnit` is `S_MEM_REQ`,
`MemWaitStrided` is `S_MEM_WAIT_STRIDED`, ...), each state of the execute engine
another one. `out` is the multiplexer `ctrl_output`; the record `ctrl` holds the
fields of the control bus that the modelled units look at. `start` is the four
`start_vector_*` signals. `BusUnit` is the three register processes and the
arbiter of the bus unit, `TrapFlags` the exception buffer and `env_start`,
`Datapath` the register file, the ALU's accumulator, the multiplier pipeline and
the packing buffer. `ir` is `i_reg`, which every cycle of DISPATCH overwrites with what the
issue engine shows, executed or not (`Look`); `ir_last` is `i_reg_last`, the instruction
executed last, which is what the trap logic goes by. `FaultPrecise` is therefore about
`ir_last` and the address register, the source of `mtval`.

Words are symbolic: a loaded word is `<<"ld", bytes>>` with the addresses its bytes
came from, sums and products are terms. Two words are equal exactly when they were
computed the same way from the same sources, so a register read one cycle too late
or an element loaded from a neighbour's address shows. Registers 1 to 7 of the
instance hold numbers, because addresses are computed from them. A memory word is
either good or faulty (`FaultWords`), the same for the whole behaviour, which is
what the keeper and the slaves do for an address that answers with an error.

What is left out of `VectorEngine`: PMP faults, debug mode and sleep, the states
SYSTEM, ALU_WAIT, BRANCH and TRAP_EXIT (which do not touch the vector engine), the
scalar store, and immediate offsets of the scalar load. Interrupts are not masked
while a handler runs, which allows more interrupts than the code.

`VectorIsa` has three actions: `Issue`, `Complete`, which relates the
registers and memory after an instruction to those when it was issued, and
`Abort(n)`, a bus error at element n (or a scalar load from an unaligned address)
with all elements before it done. The
refinement mapping shows the program the state at issue until the instruction is
over, and then the register file including the write-back still on the control
bus (`rfNext`).

### Fifo

Pointers are records of the extra bit and the index; one step is one clock cycle
with any combination of write, read and clear. `safe` is the generic FIFO_SAFE:
with it off the units on the ports have to respect `free` and `avail` (`Allowed`),
which is what the prefetch buffers do. Its names carry a `fifo` or `_o`, as the ports do, because
`MCFetchPath` extends it together with the front end. `ImplementsQueue` maps the memory between
the two pointers to the queue of `BoundedQueue`, and the synchronous read port to
its output register. Both read ports are modelled (`head`, `rdata`).

### BusFabric

One step is one clock cycle of both CPU ports, the switch (`Arbiter`, `Buffers`), the
keeper (`Keeper`, `ErrorFlag`), the device that is addressed (`Devices`) and the external
bus interface (`External`). Wires that depend on what a device does in this very cycle
are operators with a parameter `in`; `in` is all that comes from outside: whether a slow
internal device is ready and what the external bus does. The kind of device at an
address is a constant (`RegionOf`): memories and registers that answer in the next
cycle, read-only registers that answer a write with an error, the keeper's own register,
slow internal devices, the external bus, and holes. `async` is the generic that passes
external answers on unregistered. Data is the address it was read from.

`put` is a history variable, the number of times the request of a port was put on the
bus; `BusPorts` uses it. In `BusPorts` a port asks, its request is served once and
answered once, with its own data or with an error where the address may fail, and two
ports are never served in one step. `keeper.bus_err` is what both ports see as error:
the error outputs of the devices go to the keeper, which repeats them one cycle later.

The data port leaves at least one cycle between an answer and its next request, because
every engine that uses it goes through an address state; the fetch engine may raise
its next request in the cycle after the answer.

### InstrFrontEnd

One step is one clock cycle with one answer of the bus (`FrontEnd(ans)`):
`FetchEngine` is the four states of the fetch engine, `Buffers` the two
prefetch buffers as queues (what a FIFO without its own access control does is
shown in `Fifo`), `IssueEngine` the alignment flag, and `ExecuteEngine` one action for
each state of the execute engine. ALU_WAIT, MEM_REQ, MEM_WAIT and VECTOR_WAIT
differ only in what they wait for, which the front end does not see; they are the one
action `Work`. SLEEP is the waiting in `TrapEnter`. Which instruction a half-word encodes
is left open (`kind`), except its length.

A half-word is its own address, so that an instruction that was assembled from the wrong
halves shows. `cfg` is chosen at the start and stays: whether there are compressed
instructions and PMP, whether the bus may take longer than a cycle, which half-words begin
a 32-bit instruction, and where jumps go. Jumps go anywhere in `targets`, also into
the middle of an instruction; traps may come between any two.

`open`, the word that is being read, is the state of the bus as the front end knows it:
the run over it assumes that the answer comes (`WF_vars(Clock)`), and `FetchPath`
discharges that assumption.

### FetchPath

The wires of the fetch engine are port B of `BusFabric` (`FetchPort`, `Answer`), and port A
makes data accesses in between. `ImplementsFrontEnd` says that every behaviour of the
composition is one of `InstrFrontEnd!Spec`, so that what is checked and proved there
holds on the real bus too. The instruction cache is not in between (ICACHE_EN =
false).

### Traps

One step is one clock cycle (`Cycle(ready)`) of the execute engine (one action for each of its
states; ALU_WAIT, MEM_REQ, MEM_WAIT and VECTOR_WAIT are `Work`), the trap controller
(`TrapController`), the CSRs (`Csrs`: a write by the program in the cycle after SYSTEM, or the
updates of the hardware) and debug mode (`DebugControl`). From outside come the issue engine's
and the bus's readiness, interrupt requests, the reports of the bus unit and halt requests. A
program gives every address the kind of its instruction: those that raise, return, sleep or
write a trap CSR are told apart; words that cannot be fetched are kinds too. `Rank` is the
priority encoder. The return address that the runtime environment's handler computes from
`mcause` and `mepc` (`neorv32_rte.c:143-157`) is the instruction kind `w_mepc`.

`TrapOrder` knows instructions that begin, finish or fault, one condition that is `due`, the
saved addresses, debug mode, and which requests are `pending`: made, enabled and not yet served
(`InForce`). An interrupt that is taken is one of them in systems that keep two rules for requests
(`Kept`): "lines", that a level request is held until it is acknowledged, which the data sheet
demands of the devices (cpu.adoc:768-770, `LinesHeld`), and "writes", that the program does not
take a request back where it may be interrupted, nor disables a fast channel before it has
cleared it (`NotWithdrawn`), which the data sheet does not ask for. In systems without the rules the
cause may be any interrupt; that is finding 6. What `mepc` is after a fetch fault is left open in
`TrapOrder`, because the code and the data sheet differ (finding 7); that no fast request is lost holds
in every system. The refinement mapping ends an instruction with its last cycle
(that of a write to a CSR with the write) and calls due what the priority encoder would choose
from then on until the trap is acknowledged.

Left out: user mode, `mtval`, `mtvec` in other than direct mode, the counters, the debug module.
The debug module holds a halt request until the CPU has halted; what the park loop does
between two instructions is left to the program at its address.

### Kernels

A kernel writes results; for each result it reduces segments of its operands, a segment in
tiles. Every C function is an operator of its name that gives, for the result and the segment
the loops are at, the limits of the loops, where the pointers go and the instructions of a
tile; `Enter`, `BeginResult`, `BeginSegment`, `Tile`, `EndResult` and `Return` are the loops
themselves. `Exec` of `KernelIsa` executes the `.insn` lines on 32 registers. Values are
symbols as in `VectorEngine`: a byte is its address, a dot product the bag of the pairs it
multiplies, so that the result of a kernel is right exactly when the same pairs were
multiplied as often as in the scalar function. Carries out of 32 bits are the same on both
sides and not modelled.

`TileLoop` is the loop alone, with any length: `ImplementsTileLoop` says that every kernel's
tiles are its tiles. `Conventional` is what the callers give: lengths of at least one, for the
functions that never refit a multiple of eight, for those with one row per tile a row that fits.
It is assumed of every call (`CallsAssumption`).

### Bootloader

`pc` names the place in the code. One step is one byte of an upload or of the flash, one
command, one phase of a flash operation. `HostByte` puts a byte into the receive FIFO of the
UART, or loses it if the FIFO is full (`neorv32_uart.vhd`); `Reset` and `PowerFail` may come
anywhere; the flash (`Effect`, `FlashDone`) is external, modelled from the commands the
bootloader sends and the status bits it reads: an operation takes any time, goes on across a
reset, and is cut off by a power failure before or after it took effect; erasing sets ones and
programming clears bits. `BootImage` has the format that image generator, loader and writer
share. The handler of the timer interrupt toggles the LED (`TimerTrap`), a store that finds no
memory ends in `StoreFault`.

A missing SPI module is not modelled (the check of the flash then fails in every case), nor
the boot configurations that are compiled out by default.

## 3. Runs

| Run | Checks | Shows |
|---|---|---|
| `vector` | `TypeOK`, `Released`, `OneOutstanding`, `FaultPrecise`, `BusStable`, `ImplementsIsa`, `Completes`, `FaultTaken` | the engine hands the bus back, has one access open, faults precisely, keeps address and data stable, does what the instruction says, ends every instruction, and every bus error reaches the handler |
| `bus_fabric` | `TypeOK`, `Watched`, `OneTransfer`, `ImplementsPorts`, `ErrorRecorded`, `Terminated` | every access is watched by the keeper, goes to the bus once, gets its own answer and ends; every error is on record |
| `fetch_path` | `TypeOK`, `OneFetch`, `InStep`, `RestartKept`, `FaultReal`, `ImplementsOrder`, `Supplied`; `ImplementsFrontEnd`, `FetchTerminated`; `FifoTypeOK`, `StatusConsistent`, `ImplementsQueue` | what is executed is the memory's instruction at the pc, in program order; fetch faults belong to it; no restart is lost; the buffers neither overrun nor dry up. The bus keeps what the front end relies on, and every fetch ends. The FIFO is a queue and its status outputs agree |
| `traps` | `TypeOK`, `ImplementsTrapOrder`, `InterruptsServed` | traps come between instructions and save where to go on, an interrupt that is served is one in force, no fast request is lost, debug mode keeps the program's trap state, interrupts and the debugger are served, and a program under permanent interrupts gets on |
| `kernels` | `TypeOK`, `SameAsScalar`, `LengthConfigured`, `ClobbersDeclared`, `ImplementsTileLoop` | every vector kernel but `tiled_inner_product` leaves what the scalar one leaves and nothing else; every kernel executes every tile with the length it has configured for it, and keeps to the registers it declares |
| `boot` | `TypeOK`, `BootsWholeImage`, `SavedIsBootable`, `FlashReady`, `StalledQuietly`, `BootsUnattended` | only complete executables start, whatever is lost, reset or cut off; what is reported as stored is stored; the flash is not asked while busy; a board left alone boots |
| `strided_fault` | `LoadAnswered`, violated | finding 1 below |
| `fetch_lost` | `FetchTerminated`, violated | finding 2 |
| `conv_padding` | `PaddingIsZero`, violated | finding 3 |
| `flash_sector` | `SavedIsBootable`, violated | finding 4 |
| `inner_product` | `InnerProductStored`, violated | finding 5 |
| `firq_disabled` | `StartedInForce`, violated | finding 6 |

Bounds of the vector runs. Two instructions one after the other (`MaxIssue` = 2)
are needed for what one leaves behind for the next (registers of the bus unit,
counters, the packing buffer, the control bus); nothing but these registers is
carried over, and after an instruction they do not depend on how many came before
it. Vector lengths 1 to 5 give, for byte loads, one partial word, one full word
and a full word with a partial one, from aligned bases and from inside a word.
The eighteen instructions have overlapping sources and destinations (in-place
operations), the same register as both sources, byte and word elements, strides
smaller and larger than an element, and accesses that run into the faulty word
at their first and at a later element. The answer of the slave may take any
number of cycles, and an interrupt may come in any cycle. 16 registers instead of
32 make the group wrap reachable; the register arithmetic is modulo `NumRegs`.
`Shown` bounds what `i_reg` may hold in cycles in which it is not executed: an addition
and a store, so that it differs in kind from every load that faults. In the proofs it is any
set of instructions.

Fairness of `VectorEngine`'s `FairSpec`: weak fairness of the clock, and of steps in which the
slave answers, and of those in which DISPATCH finds an instruction (`Delivered`; the front end
provides it: `Supplied`). The second is what the bus keeper guarantees: an internal access
that nobody acknowledges ends with an error after its time-out
(`neorv32_bus_keeper.vhd:155-205`). Only the steps with an access open are subject
to it. There is no fairness on interrupts.

Bounds of `bus_fabric`. One address of every region, both ports free to ask for any of
them at any time, reads and writes on port A. `Window` = 3 instead of 15 and `ExtTimeout` =
3 instead of 255: what matters is whether an answer, an expiry and a request of the other
port come before, with or after one another, and all of these orders occur. Slow internal
devices answer after one or two cycles (`SlowMax` = `Window` - 1); a device that
needs the whole window meets observation 4 below. The keeper's
window only applies to internal devices; an external access has the time-out of its own
interface. The only fairness is that of the clock: even an external device that never
answers is ended by a time-out.

Bounds of `fetch_path`. It runs three parts side by side, each in its own states while the others rest
(`MCFetchPath`): `buffer`, the FIFO alone; `front_end`, the front end with any bus that answers;
`path`, the front end on the real bus. The properties of the front end are checked in
the second and third part.

Part `buffer`: depth 4 has a full, a half-full, an empty state and two
laps of the extra bit, and three items tell duplicated from reordered ones. Depths
1 and 2 behave differently in the status outputs only; the proof covers every
depth, the code all powers of two.

Part `front_end`. Four words that wrap around, buffers of depth 2, the smallest the
code allows (and the one in which a full buffer and a half-full one differ by one entry).
Seven systems: with compressed instructions three layouts of 16- and 32-bit
instructions (all short, all long, and a mixture in which a long instruction crosses a
word and the end of the address space) with jumps to every half-word; without them,
jumps to aligned targets on a slow bus and to all targets on one that answers in the next
cycle; and two systems with PMP. Every word but the first may answer with a bus error, word 2 is protected.
The systems that can make the fetch engine answer itself (PMP, misaligned targets without
compressed instructions) are combined with the fast bus only; with a slow one they run
into finding 2. Fairness: the clock, and a bus that answers.

Part `path`. Two words of internal memory, an external one, a hole; one
external read on port A at any time, a window of two cycles and a time-out of one, one
program with instructions of both lengths that jumps to an odd half-word on the external
bus. The bus alone and the front end alone are checked with larger bounds above; here it
is their meeting that counts: an answer with a restart, an error with a prefetch, a fetch
that waits behind a data access. Fairness: the clock alone.

Bounds of `traps`. Seven addresses: a main program of two instructions that repeat, a handler
of one instruction and its return, the two entries of the park loop, and an address behind
them. The thirteen programs have every kind of instruction in a place where it can be reached,
and between them every pair that disturbs one another (a fault in front of an unfetchable
word, a return in front of a sleep, writes to `mie`, `mstatus` and `dcsr` under pending
requests, breaks inside debug mode). Nothing is remembered from one instruction to the next
but the registers of the model, so longer programs bring no new situation. Two interrupts, a
buffered one and the timer, which is also the default of the priority encoder; any of them may
come and go in every cycle, in twelve of the systems as far as the two rules for requests allow, in the
thirteenth without any. Fairness: the clock (`WF_vars(Next)`), and an issue engine, a bus
and co-processors that answer (`WF_vars(Cycle(TRUE))`), which is what the other modules show of
them. Interrupts are never required to come.

Bounds of `kernels`. The real register file (32), the real groups (8) and tile lengths (8 and
32). Lengths 1 to 20 for element-wise functions are one, two and three tiles with every
remainder; reductions have lengths around 32 and 64 and around the words of four bytes; one to
three rows carry the length of the last tile over; convolutions have one and several channels
around a tile, padding, stride 2, two images, with and without a zero point. Byte operands
start inside a word. The functions that never refit are called with multiples of their length,
those for one row per tile with a row that fits: that is how the generated applications call
them. The convolutions with padding in this run have the scalar function's own notion of
padding to meet; finding 3 is about that notion.

Bounds of `boot`. `Radix` is 16 or 256, the number of values of a byte, and the proofs cover both.
In the run a byte has 4 bits and a word 16, and sums are modulo the word. A checksum
that is a sum does not tell every damaged file from a good one, at this size or at the real
one (`BootsWholeImage` is for that reason a statement about the files of the run, and no theorem); the executables are chosen so that none of them becomes another acceptable one when it
loses a byte. Three executables: one word, two words the last of which is padded, and one that does
not fit into the two words of memory. Four keys allow an upload, a store, a load and a start
in one session; one upload, one lost byte and one reset or power failure at any step.
`RxDepth` is the default of one byte. Sectors have 24 bytes, header and two words in one
sector; `flash_sector` has sectors of 16, into which the words fit but not the header.
Fairness: the processor runs, and the flash ends what it began (`WF` of `Program` and
`FlashDone`); the host owes nothing.

`CHECK_DEADLOCK` is on for the clocked designs, which always have a next cycle. It is off in
`kernels`, `conv_padding`, `inner_product`, `boot` and `flash_sector`: a function returns, a bootloader ends in
the application or stalls.

## 4. Findings

Six runs end in a violation, each of a sentence in the repository; the seventh finding is proved.
They were met while writing the models; details are under `findings` in `PROJECT.json`.

1. A bus error inside a strided vector access ends the instruction, but not the
   vector engine (`S_MEM_WAIT_STRIDED` has no look at `exc_buf`): the engine keeps
   the control bus, and the first load in the trap handler waits for ever
   (`neorv32_cpu_control.vhd:2005`, against README.md:33).
2. The fetch engine takes its own alignment or PMP fault for the answer of the bus and
   asks again while the first read is still on its way; the late answer meets
   the second request, and the fetch engine waits for ever
   (`neorv32_cpu_control.vhd:488`, against docs/datasheet/cpu.adoc:973 and 925).
3. A convolution takes the row and the column behind the input for input
   (`kernels.h:541`, against the comment above it). The scalar function has the same test.
4. Storing an executable erases sectors for the program, not for program and header
   (`bootloader.c:662`, against the comment above it).
5. `tiled_inner_product` stores nothing at `acc`: it adds its sums to the pointer it is given and
   stores that to its own copy of it, and never moves its operands (`kernels.h:313`, against
   the comment at `kernels.h:256-257`). `InnerProductStoresNothing` proves it of every call.
6. Clearing a bit of `mie` does not drop a fast interrupt that is buffered, and it starts a trap
   later (`neorv32_cpu_control.vhd:2390`, against docs/datasheet/cpu.adoc:773-775). In the same way a
   request that goes away between the start of its trap and the acknowledgement is served as the
   timer interrupt, the last `else` of the priority encoder (`:2402`, `:2578`).
7. A fetch fault saves the address of the last instruction that was executed in `mepc` (`:2884`), where
   docs/datasheet/cpu_csr.adoc:394-395 and cpu.adoc:830-831 (with 819) have the address of the
   instruction that caused it; `mtval` has that one (`:2892`). The handler of the runtime environment
   returns behind the saved instruction, so in a straight line it comes back to the fault; a second fault then saves the
   address of the handler's own `mret`. `FetchFaultSavesLast` proves it of every program.

Observations that no run states, of the vector engine and the bus; the passing runs use
programs and systems that avoid them:

1. A strided word access at an unaligned address raises its alignment flag; both
   engines look only at access faults and wait for ever (`neorv32_cpu_control.vhd:1301`).
2. A unit-stride word access at an unaligned base completes with the wrong bytes
   and without an exception (`neorv32_cpu_bus.vhd:366`).
3. A vector result may be written to `x0` (`neorv32_cpu_regfile.vhd:141`).
4. A device that acknowledges in the last cycle of the keeper's window ends the access, and
   one cycle later the keeper raises a time-out error for it all the same, which ends
   whatever access the switch has in front of it then (`neorv32_bus_keeper.vhd:187`).

Of traps; these are part of the model, and `TrapOrder` allows them and nothing beyond:

5. The address trigger fires in EXECUTE as a synchronous exception, and `dpc` is the address of
   the instruction that has been executed: it is executed again after the resume. The debugger's
   document has the trigger fire "after executing the triggering instruction"
   (docs/datasheet/on_chip_debugger.adoc:704) and "move `pc` to `dpc`" (:527).
6. An instruction's own exception is lost if the fetch of the next one faults: the fetch fault
   has the higher priority, and all flags are cleared by its acknowledgement (`:2353`).
7. A single step over an instruction that faults enters debug mode behind the first
    instruction of the handler, not in front of it.
8. A handler that cannot be fetched faults for ever without passing EXECUTE, and exceptions come
    before halt requests: the debugger does not get such a CPU to halt. The programs of `traps`
    have a handler that can be fetched.
9. An interrupt that is accepted in the EXECUTE cycle of the instruction that clears `mstatus.mie`
   is taken behind it, with interrupts off by then.

Of the software: a convolution with a zero point over padding moves its input pointer to the
zero point and then computes it again from the position outside the input, loads with a stride
of zero, one word per element, into the registers of the kernel, and from there on does so for
every position, since the flag is never reset (`kernels.h:541-600`). Such a load, and the one of
operands that are not transposed, takes up to 32 registers from x24 on and runs over x31 into
those of the compiler: `ClobbersCorrect` has to exclude it (`WordLoadsFit`). No caller does
either. With operands that are not
transposed, `tiled_matmul` and `tiled_inner_product` step by the length of the reduction; every
caller transposes. The image generator pads the last word of a file with bytes of the word
before it. A terminal that starts an upload within the auto-boot time has its `u` taken as
the key that stops the auto boot.

## 5. Proofs

A theorem is about every value of the constants: every program, memory map, buffer depth, file
or call. What is assumed of the constants are the `...Assumption`s of the modules, which say
what the comments at the constants say; a theorem that needs more has it as a hypothesis, and
the hypotheses are named here.

`VectorEngine_proofs`. `TypeCorrect` is the visible part of an inductive invariant (`TypeInv`)
that also types the control bus of both engines. `Released`, `OneOutstanding` and `FaultPrecise` are
not inductive: an answer may arrive while the flag of an earlier error is travelling, and the
engines are one cycle apart. The invariant of the hand-over is

    Handshake == TypeInv /\ EngineRuns /\ Requests /\ Pending

`EngineRuns` ties the state of the vector engine to the state of the execute engine
cycle by cycle, including the two cycles after an operation has ended; `Requests`
says in which states a request is on the control bus, and that then nothing is open;
`Pending` says what is known while an access is open: which instruction owns it,
which flags can be up, and that the arbiter's error is on its way. There is a lemma per group of
states of the engine.

A bus error in a strided access breaks `Handshake` (finding 1). What it leads to is a state
of its own, `Stuck`, that is never left, and `Guarded == TypeInv /\ (Handshake \/ Stuck)` is inductive with
no condition on the behaviour. From it follow, for every program and memory map,
`OneOutstandingCorrect`, `FaultPreciseCorrect` and `BusStableCorrect`, and finding 1 in general:
`StridedFaultSilences` says that from that error on the vector engine never leaves its wait and no request is put
on the bus again. `Released` is false in a stuck engine: `HandshakeCorrect` proves it of behaviours without a
strided fault, `ReleasedCorrect` of every behaviour if the programs have no strided accesses or
the memory no faulty words, both properties of the constants.

The second half of `VectorEngine_proofs` is about the data. `IsaCorrect` proves `ImplementsIsa`: clock by clock,
the two engines, the bus and the memory do what `VectorIsa` says, for every number of registers, every set
of instructions, all register contents, vector lengths, memory maps, bus timings and interrupts. Its inductive
invariant is

    Faithful == TypeInv /\ (Active => ir \in Instrs) /\ ((Handshake /\ Data) \/ (Stuck /\ Idling))

`Data` says for each operation, cycle by cycle, what is done and what is on its way: `Done` which
registers of the destination group hold their result and that no other register has changed, `Stored` which stores
the memory has got, and a predicate per operation where the elements in between are. In `AddingAt` that is one
element at the adder while the next one is read; in `MultiplyingAt` and `AccumulatingAt` three elements in
the stages of the multiplier; in `LoadingUnitAt` the bytes of the last word that did not fill a register
(`Kept`), whose register numbers and counters run one behind in the cycle of the write-back; in
`StoringStridedAt` the element and the stride that take turns at one read port. Each operation has a lemma
for its start, its steps and its end (`AddingStart`, `AddingStep`, `AddingOver`, ...). The sum of a dot product is a
recursive function of the number of products; that its recursion holds at every length is shown once
(`SumUpToExists`, by well-founded recursion), after which a clock adds one product to it. `AbortUnitStep` and
`AbortStridedStep` show that an operation that a bus error cuts off has done exactly the elements before the
faulty one (`UnitFault` translates a faulty word into the element that it cuts off), the second also when
the hand-over is lost (finding 1): then nothing is written any more (`Idling`), and to the program the
instruction has been aborted. To the program a clock of the engines is the issue, the completion or the abort of an
instruction, and nothing everywhere else.

The theorem is about programs, and has two hypotheses on the constants: `NoInstr` is no instruction, and `x0`
starts as 0, which the control engine sees to before the first instruction (`ctrl_rf_zero_we_c`). What it asks of the program is `ProgramProper`, a condition on
the instruction in progress and the registers it was issued with (`Proper`). Each part excludes
programs with which the engine does something else, or never ends:

| condition | without it |
|---|---|
| `Separate`: the destination group does not wrap around and spares `x0` | results overwrite each other; `x0` is written (observation 3) |
| at least one element, except for `vmac` and the vector length | one element is moved or computed all the same |
| `Behind`: sources are not overwritten by the result of an element two or more before | an addition reads the result (a multiplication reads further ahead: it would bear two, but not three) |
| no vector loads of half-words | the half-words are collected as if they were words |
| unit-stride words start at a word | wrong bytes (observation 2) |
| unit-stride byte loads have at most 124 elements | the counter of seven bits wraps and the load may never end |
| strided elements are aligned | the engines wait for ever (observation 1) |
| the stride register is not in the destination group | the stride changes under way |
| pointers and strides are integers | (a limit of the symbolic words, not of the code) |

Except for the last row and those in which the engine waits or never ends, which break no safety property, TLC shows
`ImplementsIsa` violated by a single instruction that breaks the condition. All programs of the run `vector` keep
to them: `ProgramProper` holds in each of its states, so there `ImplementsIsa` is checked without it.

`Fifo_proofs` proves for every depth that the status outputs agree
(`StatusCorrect`) and that the FIFO implements the bounded queue (`QueueCorrect`).
The inductive invariant says the write pointer is at most one lap ahead of the read
pointer (`Window`). `AheadWrite` and `AheadRead` give the effect of an increment on the
distance, `AccessQueue` the effect of an access on the mapped queue, and `QueueStep`
maps every cycle to `Idle`, `Put`, `Get`, `PutGet` or `Clear`.

`InstrFrontEnd_proofs` proves the safety properties of `InstrFrontEnd` for any address
space, any depth of at least 2, any set of programs and any answers of the bus.
`RestartKept` follows from `RestartHeld`: while a restart is pending, the execute engine is
on its way to DISPATCH or waits there in front of empty buffers, from which nothing can be
issued that would ask again. `InStep` needs three more conjuncts: `Room` (a word is asked
for only when both buffers have room, which is where depth >= 2 is used), `Started` (after
a restart at an odd half-word nothing is in the buffers until the first answer), and the
difference of the levels itself (`Skew`). `BuffersStep`, `ReadStep` and `FetchStep` give the effect
of a cycle on the buffers, on the alignment and on the fetch engine; the cycle lemmas cite
them. `OneFetchCorrect` assumes `Answered`, a condition on the constants that rules out finding
2: on a slow bus no PMP, and without compressed instructions only aligned jump targets.
Its invariant `EvenRun` carries the alignment of all addresses through the execute engine,
also across the end of the address space (`NextEven`).

Under `Answered` too, fetch faults are real (`FaultRealCorrect`) and the front end implements
`ProgramOrder` (`OrderCorrect`). Neither is inductive: what is executed next was fetched many
cycles earlier. The inductive invariant is

    InOrder == Reading /\ Contents /\ Misalignment /\ Following /\ InRegister /\ FaultReal

`Contents` counts back from the fetch pc to the address each entry of the buffers must stem from
(`Place`) and says that it does, or is marked and may fail; `Following` says that the first entry
is where the execute engine is about to go on, in each of its states; `InRegister` says what the
instruction register holds. All of it is modulo the size of the address space: `ModAdd` and
`Behind` are the two facts about remainders that are needed. A cycle keeps the places of the
entries that stay (`PlaceNext`), stores the word that was asked for (`RightNew`), and moves the
next address by the length of what is issued or not at all (`NextIsMoves`, `NextIsStays`).
`OrderFollows` names the step of `ProgramOrder` for each state of the execute engine.

`BusFabric_proofs` proves everything the run `bus_fabric` checks except `Terminated`, for any
address map, any window, latencies and time-outs. None of `Watched`, `OneTransfer` and
`ImplementsPorts` is inductive: that an answer belongs to the port it is given to depends on
how far the keeper has counted. The inductive invariant is

    Inv == TypeOK /\ Requested /\ Granted /\ (~Busy => AtRest) /\ (Busy => Phase)

`Requested` ties the buffers of the switch to the ports, `Granted` the arbiter to the selected
port and to the history variable. An access is in one of five phases (`AtDevice`,
`AtExternal`, `FromExternal`, `Nowhere`, `Failed`), each with who has it and how much of the
keeper's window is left; there is a lemma for each phase that says it ends with the answer or
goes over into another one. In `AtDevice` the age of the access and the keeper's counter
add up to the window: that is where the proof needs devices that answer before the last cycle
of it (`LatencyAssumption`), see observation 4. The refinement lemma `PortStep` says for each
port which step of `BusPorts` a cycle is.

`FetchPath_proofs` proves the composition: every behaviour of the front end on the real bus is one of
`InstrFrontEnd` (`PathImplements`), so it keeps the program order (`PathInOrder`), and the bus below is as
good as alone (`PathOneTransfer`). The argument joins the inductive invariants of the halves. Each half
relies on the other, so neither is proved first: one step of the composition is shown to be a
step of both from both invariants of the state before. What the front end does at its port is
what `BusFabric` allows a port to do, and what the bus answers is an answer that `InstrFrontEnd`
allows. Hypotheses: `Answered`, as above (finding 2 is about the path without it), and
`Distinct`, that an error can be told from a word.

`Traps_proofs` proves `TypeOK` and the refinement of `TrapOrder` for any program, any set of
interrupt lines and any priority. Its invariant

    Inv == TypeOK /\ Placed /\ Owned /\ Interruptible /\ Sleeping /\ Started
           /\ Requested /\ Debugging /\ Rightful

says which instruction is in progress in which state (`Placed`), that the exception flags that
are up meanwhile are its own (`Owned`), why a trap that was started could be (`Interruptible`),
what sleep and TRAP_START rely on, that debug mode knows of every way into it and out of it, and, for
systems that keep the rules for requests, that what is buffered is in force and the cause captured for
an interrupt is one of them (`Rightful`).
The priority encoder enters through one lemma, that the cause is the first of what is pending
(`CauseFirst`), and the mapped `due` through its first exception (`DueFirst`). There is a lemma
for each state of the execute engine on the invariant, and another one on the step of
`TrapOrder` that it is. `FetchFaultSavesLast` follows from `Placed`: a fetch fault is acknowledged with the
last executed instruction in `pc_last`, whatever the pc.

`Kernels_proofs` is about calls of every size that are `Conventional`. `Shapes` and `ProductIs` say what
the functions have in common, `ExecPuts` what an instruction does to the registers of its group.
`Counting` (types, and where the loops can be), `LengthSet` (what `csr_vl` holds) and `Sweeping` (what a
length that the last tile left behind can be) give `TypeCorrect`, `LengthConfiguredCorrect`,
`TilesInBounds`, the refinement of the tiling loop (`KernelsTile`) and that of `Coverage` (`KernelsCover`).
`ClobbersCorrect` follows from `Spared`, the registers no tile has written, under the hypothesis
`WordLoadsFit`: a strided load takes a register for each element of one byte, so the calls that make
them have at most eight elements (see the observations on software).

`SameAsScalarCorrect` proves that a kernel leaves in memory what the scalar function leaves. Both are
defined over different indices: the kernel adds up tiles of segments whose pointers run on from
tile to tile and, for a matrix times a vector, from row to row; the scalar function counts
rows, columns, taps and channels. The proof is in three parts.

- A bag of products is the number of terms of each value (`BagOf`). A bag over two disjoint sets
  of terms is the sum of the bags (`BagOfUnion`), and a renaming of the terms that keeps their
  values keeps the bag (`BagOfRenamed`). A term of a kernel is a segment and an element of it;
  `Sum(c, o, s, k)` is the bag of the terms of result o before element k of segment s.
- `ProductSum` computes what the instructions of one tile leave: the bag of the products of the
  w bytes behind the two pointers, which `TileSummed` shows to be exactly what takes `Sum` from k to k + w.
  The invariant `Summed` says that the accumulator is `Sum` at the place where the loops are, that the
  pointers are there too, that the results before this one are stored, and nothing else is. For
  element-wise functions the invariant is `Reworked`: the elements done are replaced, the others
  are as they were.
- `MatvecScalar`, `MatmulScalar` and `ConvScalar` show that the full sum is the scalar function's; for a
  convolution by a renaming of segment and element to row, column and channel of the kernel,
  which is division by the width of the kernel (`DivMod`, `ConvTerm`).

Its hypothesis `WellPlaced` is about the call alone. Element-wise functions have their operands in
memory, and no word of b is the word of an earlier element of a, which would have been
overwritten (`OperandsStand`; a = b is allowed). Products load bytes as bytes (`BytesOnly`): the
second matrix is transposed, and there is a zero point only where no position is over the
padding; otherwise the kernels do compute something else. All calls of the run `kernels` satisfy
both hypotheses. `tiled_inner_product` is excluded by name from `SameAsScalar`, and has a theorem of its
own, `InnerProductStoresNothing`, the general form of finding 5.

`Bootloader_proofs` is for every set of files, every size of instruction memory, sector, flash and
receive FIFO, and any number of resets, power failures and lost bytes. The inductive invariant is

    IInv == Types /\ SaveStage /\ FlashStage /\ Contents

`SaveStage` says how far `save_exe` has got, `FlashStage` what the status bits of the flash are worth at each place
of the code (`FlashReadyCorrect`: a write-enable flag that can be cleared proves that no operation from
before a reset is still going on), and `Contents` what is in the flash: the sectors erased so far,
the words and bytes programmed so far, in the order in which `save_exe` writes them, which ends
with the signature. `SavedReadsBack` follows: when it is reported as stored, it is stored.
The condition `Room`, that the header does not push the end of the executable over the last
erased sector, is what finding 4 is about; `SavedCorrect` is `SavedIsBootable` under it, for sizes in whole words.
`AcceptedSum` is about the other direction: whatever was lost or left over from an earlier
attempt, `get_exe` accepts a program only if the complement that came with it is that of the words now
in memory, and `LoadedCorrect` says that a program taken from the flash is the one the flash holds.
The running sum is a recursive function of the number of words; the facts about it that are needed
are shown by the least number at which they fail.

Only model-checked: `BootsWholeImage`, because a damaged file may have the sum of a good one, so that it
holds of the files chosen and not of all (`AcceptedSum` is what holds of all); and the liveness properties
`Completes`, `FaultTaken`, `Terminated`, `Supplied`, `FetchTerminated`, `InterruptsServed` and `BootsUnattended`,
which are outside what the prover's backends can do (ENABLED and fairness).

## 6. Plan

Done: the vector engine, the FIFO, the bus, the front end and their composition, traps and debug
mode, the vector kernels, the bootloader, and proofs for each of them. In order of importance, what is left:

1. `DebugModule`: the halt/resume/execute handshake between the debug module, the park
   loop in `src/sw/ocd-firmware` and the CPU. `Traps` has the CPU's side of it.
2. `Timer`, `Watchdog`, `Xirq` with their drivers: two-word counters read by halves,
   password and lock, acknowledge and re-fire.
3. The instruction cache between the front end and the bus.

## 7. Not modelled

Of the hardware: the instruction cache and the debug module (planned), timers, watchdog and
external interrupt controller (planned), bit-level shift engines of the serial interfaces,
register-only peripherals, the floating-point, bit-manipulation and shift co-processors, the
serial divider, the decoder for compressed instructions, PMP address comparison, memories as
such, the top-level wiring.

Of the software: the drivers in `src/sw/lib`, which set up registers of peripherals, but for the
return address of the trap handler; in the applications, the activation functions, pooling
and the weight reductions, which are plain scalar loops; the Python generator; the network
weights (`model.h`), which are data; the example programs, test benches and
intrinsics headers. Each is listed in `PROJECT.json` with its reason.

The core of this repository is VHDL, and that is where most modules look; of the C code, the
largest part by lines is weights, test programs and register definitions, in which there is
nothing that a model could check.
